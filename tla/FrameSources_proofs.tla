------------------------ MODULE FrameSources_proofs ------------------------
(***************************************************************************)
(* Theorems about the two sources of frames: FrameMailbox, for every       *)
(* number of slots, every division of a frame and every number of attempts *)
(* and frames, and ReaderThread, whose theorem is at the end, for every    *)
(* division of a frame and every length of the input.  Both implement the  *)
(* same FrameRegister.                                                     *)
(***************************************************************************)
EXTENDS FrameMailbox, TLAPS

\* A frame number has a slot in the ring.
LEMMA SlotInRing == \A n \in Nat : SlotOf(n) \in 0 .. Slots - 1
  BY SlotsAssumption DEF SlotOf

-----------------------------------------------------------------------------
(* A slot that carries a number carries that frame, and the writer is only *)
(* ever at the slot it took the number from; a reader past its first check *)
(* holds parts of frame seq as long as the slot still carries seq, and     *)
(* once it does not it never will again.                                   *)

SlotsHoldTheirFrame ==
  \A s \in 0 .. Slots - 1 :
    slotSeq[s] # 0 => \A p \in Parts : pixels[s][p] = slotSeq[s]

WriterAtItsSlot ==
  LET next == published + 1
      slot == SlotOf(next)
  IN /\ wpc = "writing" => slotSeq[slot] = 0 /\ \A p \in written : pixels[slot][p] = next
     /\ wpc = "valid" => slotSeq[slot] = next

ReaderHoldsSeq ==
  /\ consumed <= published /\ since <= published
  /\ rpc \in {"check", "copy", "recheck"} =>
       since <= seq /\ consumed < seq /\ seq <= published
  /\ rpc \in {"copy", "recheck"} /\ SlotUnchanged => \A p \in copied : frame[p] = seq
  /\ rpc = "recheck" => copied = Parts

MailboxInv == TypeOK /\ SlotsHoldTheirFrame /\ WriterAtItsSlot /\ ReaderHoldsSeq /\ Untorn

LEMMA MailboxInit == Init => MailboxInv
<1> SUFFICES ASSUME Init PROVE MailboxInv
  OBVIOUS
<1>1. TypeOK
  BY BoundsAssumption DEF Init, TypeOK
<1>2. SlotsHoldTheirFrame /\ Untorn
  BY DEF Init, SlotsHoldTheirFrame, Untorn
<1>3. WriterAtItsSlot
  BY DEF Init, WriterAtItsSlot
<1>4. ReaderHoldsSeq
  BY DEF Init, ReaderHoldsSeq
<1> QED
  BY <1>1, <1>2, <1>3, <1>4 DEF MailboxInv

LEMMA WriterKeepsInv ==
  ASSUME MailboxInv, Write
  PROVE  MailboxInv'
<1>0. published \in Nat /\ published + 1 \in Nat /\ seq \in Nat
  BY DEF MailboxInv, TypeOK
<1>1. /\ published \in Nat /\ published + 1 \in Nat /\ SlotOf(published + 1) \in 0 .. Slots - 1
      /\ seq \in Nat /\ SlotOf(seq) \in 0 .. Slots - 1
  BY <1>0, SlotInRing
<1>2. UNCHANGED reader
  BY DEF Write, Invalidate, WritePart, Validate, Publish
<1>3. Untorn'
  BY <1>2 DEF MailboxInv, Untorn, reader
<1>4. CASE Invalidate
  <2> USE <1>4 DEF Invalidate
  <2>1. TypeOK'
    BY <1>1, <1>2 DEF MailboxInv, TypeOK, reader
  <2>2. SlotsHoldTheirFrame'
    BY <1>1 DEF MailboxInv, TypeOK, SlotsHoldTheirFrame
  <2>3. WriterAtItsSlot'
    BY <1>1 DEF MailboxInv, TypeOK, WriterAtItsSlot
  <2>4. ReaderHoldsSeq'
    <3>1. SlotUnchanged' /\ rpc \in {"copy", "recheck"} => SlotUnchanged
      BY <1>1, <1>2 DEF MailboxInv, TypeOK, ReaderHoldsSeq, SlotUnchanged, reader
    <3> QED
      BY <1>2, <3>1 DEF MailboxInv, ReaderHoldsSeq, reader
  <2> QED
    BY <1>3, <2>1, <2>2, <2>3, <2>4 DEF MailboxInv
<1>5. ASSUME NEW p \in Parts, WritePart(p) PROVE MailboxInv'
  <2> USE <1>5 DEF WritePart
  <2>1. TypeOK'
    BY <1>1, <1>2 DEF MailboxInv, TypeOK, reader
  <2>2. SlotsHoldTheirFrame'
    BY <1>1 DEF MailboxInv, TypeOK, SlotsHoldTheirFrame, WriterAtItsSlot
  <2>3. WriterAtItsSlot'
    BY <1>1 DEF MailboxInv, TypeOK, WriterAtItsSlot
  <2>4. ReaderHoldsSeq'
    BY <1>2 DEF MailboxInv, ReaderHoldsSeq, SlotUnchanged, reader
  <2> QED
    BY <1>3, <2>1, <2>2, <2>3, <2>4 DEF MailboxInv
<1>6. CASE Validate
  <2> USE <1>6 DEF Validate
  <2>1. TypeOK'
    BY <1>1, <1>2 DEF MailboxInv, TypeOK, reader
  <2>2. SlotsHoldTheirFrame'
    BY <1>1 DEF MailboxInv, TypeOK, SlotsHoldTheirFrame, WriterAtItsSlot
  <2>3. WriterAtItsSlot'
    BY <1>1 DEF MailboxInv, TypeOK, WriterAtItsSlot
  <2>4. ReaderHoldsSeq'
    <3>1. SlotUnchanged' /\ rpc \in {"copy", "recheck"} => SlotUnchanged
      BY <1>1, <1>2 DEF MailboxInv, TypeOK, ReaderHoldsSeq, SlotUnchanged, reader
    <3> QED
      BY <1>2, <3>1 DEF MailboxInv, ReaderHoldsSeq, reader
  <2> QED
    BY <1>3, <2>1, <2>2, <2>3, <2>4 DEF MailboxInv
<1>7. CASE Publish
  <2> USE <1>7 DEF Publish
  <2>1. TypeOK'
    BY <1>1, <1>2 DEF MailboxInv, TypeOK, reader
  <2>2. SlotsHoldTheirFrame' /\ WriterAtItsSlot'
    BY DEF MailboxInv, SlotsHoldTheirFrame, WriterAtItsSlot
  <2>3. consumed \in Nat /\ since \in Nat
    BY DEF MailboxInv, TypeOK
  <2>4. ReaderHoldsSeq'
    BY <1>1, <1>2, <2>3 DEF MailboxInv, ReaderHoldsSeq, SlotUnchanged, reader
  <2> QED
    BY <1>3, <2>1, <2>2, <2>4 DEF MailboxInv
<1> QED
  BY <1>4, <1>5, <1>6, <1>7 DEF Write

LEMMA ReaderKeepsInv ==
  ASSUME MailboxInv, Read
  PROVE  MailboxInv'
<1> USE BoundsAssumption
<1>0. /\ published \in Nat /\ consumed \in Nat /\ seq \in Nat /\ since \in Nat
      /\ attempt \in 0 .. MaxAttempts /\ SlotOf(seq) \in 0 .. Slots - 1
  BY SlotInRing DEF MailboxInv, TypeOK
<1>1. UNCHANGED writer
  BY DEF Read, Call, Load, Check, CopyPart, Recheck
<1>2. SlotsHoldTheirFrame' /\ WriterAtItsSlot'
  BY <1>1 DEF MailboxInv, SlotsHoldTheirFrame, WriterAtItsSlot, writer
<1>3. CASE Call
  <2>1. TypeOK' /\ Untorn'
    BY <1>1, <1>3 DEF MailboxInv, TypeOK, Untorn, Call, writer
  <2>2. ReaderHoldsSeq'
    BY <1>0, <1>1, <1>3 DEF MailboxInv, ReaderHoldsSeq, SlotUnchanged, Call, writer
  <2> QED
    BY <1>2, <2>1, <2>2 DEF MailboxInv
<1>4. CASE Load
  <2>1. TypeOK' /\ Untorn'
    BY <1>1, <1>4 DEF MailboxInv, TypeOK, Untorn, Load, writer
  <2>2. ReaderHoldsSeq'
    BY <1>1, <1>4 DEF MailboxInv, TypeOK, ReaderHoldsSeq, SlotUnchanged, Load, writer
  <2> QED
    BY <1>2, <2>1, <2>2 DEF MailboxInv
<1>5. CASE Check
  <2>1. TypeOK' /\ Untorn'
    BY <1>1, <1>5 DEF MailboxInv, TypeOK, Untorn, Check, Retry, writer
  <2>2. ReaderHoldsSeq'
    BY <1>1, <1>5 DEF MailboxInv, TypeOK, ReaderHoldsSeq, SlotUnchanged, Check, Retry, writer
  <2> QED
    BY <1>2, <2>1, <2>2 DEF MailboxInv
<1>6. ASSUME NEW p \in Parts, CopyPart(p) PROVE MailboxInv'
  <2> USE <1>6 DEF CopyPart
  <2>1. seq # 0
    BY <1>0 DEF MailboxInv, ReaderHoldsSeq
  <2>2. TypeOK' /\ Untorn'
    <3>1. pixels[SlotOf(seq)][p] \in Nat
      BY <1>0 DEF MailboxInv, TypeOK
    <3> QED
      BY <1>1, <3>1 DEF MailboxInv, TypeOK, Untorn, writer
  <2>3. SlotUnchanged => pixels[SlotOf(seq)][p] = seq
    BY <1>0, <2>1 DEF MailboxInv, SlotsHoldTheirFrame, SlotUnchanged
  <2>4. SlotUnchanged' => \A q \in copied' : frame'[q] = seq
    BY <1>1, <2>3 DEF MailboxInv, TypeOK, ReaderHoldsSeq, SlotUnchanged, writer
  <2>5. ReaderHoldsSeq'
    BY <1>1, <2>4 DEF MailboxInv, TypeOK, ReaderHoldsSeq, writer
  <2> QED
    BY <1>2, <2>2, <2>5 DEF MailboxInv
<1>7. CASE Recheck
  <2> USE <1>7 DEF Recheck, Retry
  <2>1. TypeOK'
    <3>1. seq - consumed - 1 \in Nat
      BY <1>0 DEF MailboxInv, ReaderHoldsSeq
    <3>2. dropped' \in Nat /\ first' \in Nat /\ taken' \in Nat
      BY <1>0, <3>1 DEF MailboxInv, TypeOK
    <3>3. attempt' \in 0 .. MaxAttempts
      BY <1>0
    <3> QED
      BY <1>0, <1>1, <3>2, <3>3 DEF MailboxInv, TypeOK, writer
  <2>2. Untorn'
    BY <1>1 DEF MailboxInv, TypeOK, ReaderHoldsSeq, Untorn, writer
  <2>3. ReaderHoldsSeq'
    BY <1>1 DEF MailboxInv, TypeOK, ReaderHoldsSeq, SlotUnchanged, writer
  <2> QED
    BY <1>2, <2>1, <2>2, <2>3 DEF MailboxInv
<1> QED
  BY <1>3, <1>4, <1>5, <1>6, <1>7 DEF Read

LEMMA MailboxInvariant == Spec => []MailboxInv
<1>1. MailboxInv /\ [Next]_vars => MailboxInv'
  <2> SUFFICES ASSUME MailboxInv, [Next]_vars PROVE MailboxInv'
    OBVIOUS
  <2>1. CASE UNCHANGED vars
    BY <2>1 DEF vars, MailboxInv, TypeOK, SlotsHoldTheirFrame, WriterAtItsSlot, ReaderHoldsSeq,
       SlotUnchanged, Untorn
  <2> QED
    BY <2>1, WriterKeepsInv, ReaderKeepsInv DEF Next
<1> QED
  BY <1>1, MailboxInit, PTL DEF Spec

\* The sink never takes a frame the writer was still changing, whatever the ring.
THEOREM TakesWholeFrames == Spec => [](TypeOK /\ Untorn)
  BY MailboxInvariant, PTL DEF MailboxInv

-----------------------------------------------------------------------------
(* The mailbox is a register.                                              *)

LEMMA StepImplementsRegister ==
  ASSUME MailboxInv, [Next]_vars
  PROVE  [Register!Next]_(Register!vars)
<1> USE DEF Register!vars
<1>1. CASE UNCHANGED vars
  BY <1>1 DEF vars
<1>2. CASE Write
  <2>1. CASE Publish
    BY <2>1 DEF Publish, reader, Register!Next, Register!Publish
  <2>2. CASE ~Publish
    BY <1>2, <2>2 DEF Write, Invalidate, WritePart, Validate, reader
  <2> QED
    BY <2>1, <2>2
<1>3. CASE Call
  BY <1>3 DEF Call, writer, Register!Next, Register!Begin
<1>4. CASE Recheck /\ SlotUnchanged
  <2>1. seq \in since .. published /\ seq > consumed
    BY <1>4 DEF Recheck, MailboxInv, TypeOK, ReaderHoldsSeq
  <2>2. Register!Take
    BY <1>4, <2>1 DEF Recheck, writer, Register!Take
  <2> QED
    BY <2>2 DEF Register!Next
<1>5. CASE Load \/ Check \/ (\E p \in Parts : CopyPart(p)) \/ (Recheck /\ ~SlotUnchanged)
  BY <1>5 DEF Load, Check, CopyPart, Recheck, writer
<1> QED
  BY <1>1, <1>2, <1>3, <1>4, <1>5 DEF Next, Read

\* Slots, numbers and retries implement the register of whole frames.
THEOREM RegisterImplemented == Spec => RegisterSpec
<1>1. Init => Register!Init
  BY DEF Init, Register!Init
<1> QED
  BY <1>1, MailboxInvariant, StepImplementsRegister, PTL DEF Spec, RegisterSpec, Register!Spec

-----------------------------------------------------------------------------
(* The statistics.                                                         *)

\* consumed_seq doubles as the mark of the first frame: it is 0 before it, and
\* nothing has been counted dropped then.
CountInv ==
  /\ taken > 0 <=> consumed > 0
  /\ taken = 0 => dropped = 0
  /\ EveryFrameCounted

LEMMA CountKept ==
  ASSUME MailboxInv, CountInv, [Next]_vars
  PROVE  CountInv'
<1>1. /\ consumed \in Nat /\ seq \in Nat /\ dropped \in Nat /\ first \in Nat /\ taken \in Nat
      /\ rpc = "recheck" => consumed < seq
  BY DEF MailboxInv, TypeOK, ReaderHoldsSeq
<1>2. CASE Recheck /\ SlotUnchanged
  <2>1. /\ consumed' = seq /\ taken' = taken + 1 /\ consumed < seq
        /\ dropped' = dropped + (IF consumed > 0 THEN seq - consumed - 1 ELSE 0)
        /\ first' = IF taken = 0 THEN seq ELSE first
    BY <1>1, <1>2 DEF Recheck
  <2>2. CASE taken = 0
    BY <1>1, <2>1, <2>2 DEF CountInv, EveryFrameCounted
  <2>3. CASE taken > 0
    <3>1. consumed > 0 /\ consumed = first + (taken - 1) + dropped
      BY <2>3 DEF CountInv, EveryFrameCounted
    <3>2. consumed' = first' + (taken' - 1) + dropped'
      BY <1>1, <2>1, <2>3, <3>1
    <3> QED
      BY <1>1, <2>1, <2>3, <3>2 DEF CountInv, EveryFrameCounted
  <2> QED
    BY <1>1, <2>2, <2>3
<1>3. CASE ~(Recheck /\ SlotUnchanged)
  <2>1. UNCHANGED <<consumed, dropped, first, taken>>
    BY <1>3 DEF Next, Write, Invalidate, WritePart, Validate, Publish, Read, Call, Load, Check,
                CopyPart, Recheck, reader, vars
  <2> QED
    BY <2>1 DEF CountInv, EveryFrameCounted
<1> QED
  BY <1>2, <1>3

\* The statistics add up: of the frames from the first one taken to the last one
\* each was either taken or counted as dropped, whatever the writer overtook.
THEOREM DropsAreCounted == Spec => []EveryFrameCounted
<1>1. Init => CountInv
  BY DEF Init, CountInv, EveryFrameCounted
<1>2. MailboxInv /\ CountInv /\ [Next]_vars => CountInv'
  BY CountKept
<1>3. CountInv => EveryFrameCounted
  BY DEF CountInv
<1> QED
  BY <1>1, <1>2, <1>3, MailboxInvariant, PTL DEF Spec

-----------------------------------------------------------------------------
(* The other source of frames: the thread that reads a pipe, in variables  *)
(* of its own.                                                             *)

CONSTANTS PipeFrames, PipePasses

VARIABLES lock, signal, latest, tmp, bufs, pipeSeq, eof, error, stop, threadPc, got, mainPc,
          mainCopied, mainFrame, mainConsumed, expired, floor, mainTaken, limit, passes

Reader == INSTANCE ReaderThread WITH
  MaxFrames <- PipeFrames, MaxPasses <- PipePasses, seq <- pipeSeq, rpc <- threadPc, mpc <- mainPc,
  copied <- mainCopied, frame <- mainFrame, consumed <- mainConsumed, taken <- mainTaken

ReaderTypes ==
  /\ pipeSeq \in Nat /\ floor \in Nat /\ mainTaken \in Nat
  /\ latest \in {1, 2} /\ tmp \in {1, 2} /\ latest # tmp
  /\ bufs \in [{1, 2} -> [Parts -> Nat]] /\ mainFrame \in [Parts -> Nat]
  /\ got \subseteq Parts /\ mainCopied \subseteq Parts

\* One buffer holds the newest frame, the other what the thread has of the next.
BuffersHold ==
  /\ \A p \in Parts : bufs[latest][p] = pipeSeq
  /\ \A p \in got : bufs[tmp][p] = pipeSeq + 1

\* main keeps the lock from its look at seq to the end of the copy.
LockIsKept ==
  /\ mainPc \in {"look", "copy", "recopy"} => lock = "main" /\ floor = pipeSeq
  /\ mainPc \in {"copy", "recopy"} => \A p \in mainCopied : mainFrame[p] = pipeSeq
  /\ mainPc \notin {"copy", "recopy"} => mainCopied = {}

\* Nothing runs before main has the first frame.
FirstComesFirst ==
  /\ mainPc = "start" => threadPc = "none" /\ pipeSeq = 0 /\ got = {}
  /\ mainPc \notin {"start", "failed"} => pipeSeq > 0

ReaderInv ==
  /\ ReaderTypes /\ BuffersHold /\ LockIsKept /\ FirstComesFirst
  /\ mainTaken <= floor /\ floor <= pipeSeq

LEMMA ReaderStarts == Reader!Init => ReaderInv /\ Reader!Register!Init
  BY DEF Reader!Init, Reader!Whole, ReaderInv, ReaderTypes, BuffersHold, LockIsKept, FirstComesFirst,
         Reader!Register!Init

\* The thread fills the buffer that is not the latest, and changes which is which only
\* while nobody holds the lock: a publication, or nothing to the register.
LEMMA ThreadStep ==
  ASSUME ReaderInv, Reader!Thread
  PROVE  ReaderInv' /\ [Reader!Register!Next]_(Reader!Register!vars)
<1> USE DEF ReaderInv, ReaderTypes
<1>1. CASE Reader!ReadPart
  <2>1. PICK p \in Parts \ got : got' = got \cup {p} /\ bufs' = [bufs EXCEPT ![tmp][p] = pipeSeq + 1]
    BY <1>1 DEF Reader!ReadPart
  <2>2. UNCHANGED <<lock, latest, tmp, pipeSeq, threadPc, mainPc, mainCopied, mainFrame, floor, mainTaken>>
    BY <1>1 DEF Reader!ReadPart, Reader!main
  <2>3. bufs' \in [{1, 2} -> [Parts -> Nat]]
    BY <2>1
  <2>4. BuffersHold'
    BY <2>1, <2>2 DEF BuffersHold
  <2>5. LockIsKept'
    BY <2>2 DEF LockIsKept
  <2>6. FirstComesFirst'
    BY <1>1, <2>2 DEF FirstComesFirst, Reader!ReadPart
  <2> QED
    BY <2>1, <2>2, <2>3, <2>4, <2>5, <2>6 DEF Reader!Register!vars
<1>2. CASE Reader!Publish
  <2>1. /\ lock = "free" /\ got = Parts /\ threadPc = "read"
        /\ latest' = tmp /\ tmp' = latest /\ pipeSeq' = pipeSeq + 1 /\ got' = {}
        /\ UNCHANGED <<lock, bufs, threadPc, mainPc, mainCopied, mainFrame, floor, mainTaken>>
    BY <1>2 DEF Reader!Publish, Reader!Swap, Reader!main
  <2>2. BuffersHold'
    BY <2>1 DEF BuffersHold
  <2>3. LockIsKept' /\ FirstComesFirst'
    BY <2>1 DEF LockIsKept, FirstComesFirst
  <2>4. Reader!Register!Publish
    BY <2>1 DEF Reader!Register!Publish
  <2> QED
    BY <2>1, <2>2, <2>3, <2>4 DEF Reader!Register!Next
<1>3. CASE Reader!Stopped \/ Reader!EndOfInput \/ Reader!ReadError
  <2>1. /\ threadPc = "read"
        /\ UNCHANGED <<lock, latest, tmp, bufs, pipeSeq, got, mainPc, mainCopied, mainFrame, floor,
                       mainTaken>>
    BY <1>3 DEF Reader!Stopped, Reader!EndOfInput, Reader!ReadError, Reader!shared, Reader!main
  <2> QED
    BY <2>1 DEF BuffersHold, LockIsKept, FirstComesFirst, Reader!Register!vars
<1> QED
  BY <1>1, <1>2, <1>3 DEF Reader!Thread

\* What a copy ends with is the frame that was the newest when main locked.
LEMMA TakenIsNewest ==
  ASSUME Parts # {}, ReaderInv, Reader!EndCopy
  PROVE  mainTaken' = pipeSeq
<1> USE DEF ReaderInv, ReaderTypes
<1>1. mainPc \in {"copy", "recopy"} /\ mainCopied = Parts /\ mainTaken' = Reader!Number(mainFrame)
  BY DEF Reader!EndCopy
<1>2. mainFrame = Reader!Whole(pipeSeq) /\ pipeSeq \in 1 .. pipeSeq
  BY <1>1 DEF LockIsKept, FirstComesFirst, Reader!Whole
<1>3. \A n \in 1 .. pipeSeq : mainFrame = Reader!Whole(n) => n = pipeSeq
  BY <1>2 DEF Reader!Whole
<1> QED
  BY <1>1, <1>2, <1>3 DEF Reader!Number

\* main looks at seq and copies inside one hold of the lock, so what it has copied is
\* the frame that was the newest all along.
LEMMA MainStep ==
  ASSUME Parts # {}, ReaderInv, Reader!Main \/ Reader!Expire
  PROVE  ReaderInv' /\ [Reader!Register!Next]_(Reader!Register!vars)
<1> USE DEF ReaderInv, ReaderTypes
<1>1. CASE Reader!Begin \/ Reader!Relock \/ Reader!Redraw
  <2>1. /\ floor' = pipeSeq /\ lock' = "main" /\ mainPc' \in {"look", "recopy"}
        /\ mainPc \in {"top", "woken", "idle"}
        /\ UNCHANGED <<latest, tmp, bufs, pipeSeq, threadPc, got, mainCopied, mainFrame, mainTaken>>
    BY <1>1 DEF Reader!Begin, Reader!Relock, Reader!Redraw, Reader!Lock, Reader!shared, Reader!thread
  <2>2. Reader!Register!Begin
    BY <2>1 DEF Reader!Register!Begin
  <2> QED
    BY <2>1, <2>2 DEF BuffersHold, LockIsKept, FirstComesFirst, Reader!Register!Next
<1>2. CASE Reader!CopyPart
  <2>1. PICK p \in Parts \ mainCopied :
          /\ mainFrame' = [mainFrame EXCEPT ![p] = bufs[latest][p]]
          /\ mainCopied' = mainCopied \cup {p}
    BY <1>2 DEF Reader!CopyPart
  <2>2. /\ mainPc \in {"copy", "recopy"}
        /\ UNCHANGED <<lock, latest, tmp, bufs, pipeSeq, threadPc, got, mainPc, floor, mainTaken>>
    BY <1>2 DEF Reader!CopyPart, Reader!shared, Reader!thread
  <2>3. bufs[latest][p] = pipeSeq
    BY DEF BuffersHold
  <2>4. LockIsKept'
    BY <2>1, <2>2, <2>3 DEF LockIsKept
  <2> QED
    BY <2>1, <2>2, <2>3, <2>4 DEF BuffersHold, FirstComesFirst, Reader!Register!vars
<1>3. CASE Reader!EndCopy
  <2>1. /\ mainPc \in {"copy", "recopy"} /\ mainCopied = Parts
        /\ mainPc' = "pass" /\ lock' = "free" /\ mainCopied' = {}
        /\ UNCHANGED <<latest, tmp, bufs, pipeSeq, threadPc, got, mainFrame, floor>>
    BY <1>3 DEF Reader!EndCopy, Reader!shared, Reader!thread
  <2>2. mainTaken' = pipeSeq
    BY <1>3, TakenIsNewest
  <2>3. floor = pipeSeq
    BY <2>1 DEF LockIsKept
  <2>4. mainTaken' = mainTaken \/ Reader!Register!Take
    BY <2>1, <2>2, <2>3 DEF Reader!Register!Take
  <2> QED
    BY <2>1, <2>2, <2>3, <2>4
       DEF BuffersHold, LockIsKept, FirstComesFirst, Reader!Register!Next, Reader!Register!vars
<1>4. CASE \/ Reader!Sleep \/ Reader!Wake \/ Reader!Fail \/ Reader!End \/ Reader!StartCopy
           \/ Reader!Idle \/ Reader!NothingToDo \/ Reader!Pass \/ Reader!Expire
  <2>1. UNCHANGED <<latest, tmp, bufs, pipeSeq, threadPc, got, mainFrame, floor, mainTaken>>
    BY <1>4 DEF Reader!Sleep, Reader!Wake, Reader!Fail, Reader!End, Reader!Leave, Reader!StartCopy,
                Reader!Idle, Reader!NothingToDo, Reader!Pass, Reader!Expire, Reader!shared, Reader!thread
  <2>2. /\ mainPc \notin {"start", "failed"} /\ mainPc' # "start"
        /\ mainPc' \in {"look", "copy", "recopy"} =>
             /\ mainPc = "look" /\ mainPc' = "copy" /\ lock' = lock
        /\ mainCopied' = {}
    BY <1>4 DEF Reader!Sleep, Reader!Wake, Reader!Fail, Reader!End, Reader!Leave, Reader!StartCopy,
                Reader!Idle, Reader!NothingToDo, Reader!Pass, Reader!Expire, LockIsKept
  <2> QED
    BY <2>1, <2>2 DEF BuffersHold, LockIsKept, FirstComesFirst, Reader!Register!vars
<1> QED
  BY <1>1, <1>2, <1>3, <1>4 DEF Reader!Main

LEMMA ReaderStep ==
  ASSUME Parts # {}, ReaderInv, [Reader!Next]_(Reader!vars)
  PROVE  ReaderInv' /\ [Reader!Register!Next]_(Reader!Register!vars)
<1> USE DEF ReaderInv, ReaderTypes
<1>1. CASE Reader!FirstFrame
  <2>1. /\ mainPc = "start" /\ pipeSeq' = 1 /\ mainPc' = "top"
        /\ bufs' = [b \in {1, 2} |-> Reader!Whole(1)]
        /\ UNCHANGED <<lock, latest, tmp, got, mainCopied, mainFrame, floor, mainTaken>>
    BY <1>1 DEF Reader!FirstFrame
  <2>2. pipeSeq = 0 /\ got = {} /\ mainCopied = {}
    BY <2>1 DEF FirstComesFirst, LockIsKept
  <2>3. Reader!Register!Publish
    BY <2>1, <2>2 DEF Reader!Register!Publish
  <2> QED
    BY <2>1, <2>2, <2>3
       DEF BuffersHold, LockIsKept, FirstComesFirst, Reader!Whole, Reader!Register!Next
<1>2. CASE Reader!NoFirstFrame
  <2>1. /\ mainPc = "start" /\ mainPc' = "failed"
        /\ UNCHANGED <<latest, tmp, bufs, pipeSeq, threadPc, got, mainCopied, mainFrame, floor, mainTaken>>
    BY <1>2 DEF Reader!NoFirstFrame, Reader!shared, Reader!thread
  <2> QED
    BY <2>1 DEF BuffersHold, LockIsKept, FirstComesFirst, Reader!Register!vars
<1>3. CASE UNCHANGED Reader!vars
  BY <1>3 DEF BuffersHold, LockIsKept, FirstComesFirst, Reader!vars, Reader!shared, Reader!thread,
              Reader!main, Reader!Register!vars
<1> QED
  BY <1>1, <1>2, <1>3, ThreadStep, MainStep DEF Reader!Next

\* The thread that reads a pipe promises what the mailbox does: a frame handed to a
\* pass is whole, was the newest while main held the lock, and is never older than
\* one shown before, the overlay's redraw included.
THEOREM PipeIsARegister ==
  ASSUME Parts # {}
  PROVE  Reader!Spec => Reader!RegisterSpec
<1>1. Reader!Init => ReaderInv /\ Reader!Register!Init
  BY ReaderStarts
<1>2. ReaderInv /\ [Reader!Next]_(Reader!vars)
        => ReaderInv' /\ [Reader!Register!Next]_(Reader!Register!vars)
  BY ReaderStep
<1> QED
  BY <1>1, <1>2, PTL DEF Reader!Spec, Reader!RegisterSpec, Reader!Register!Spec

-----------------------------------------------------------------------------
(* What main and the thread tell one another.                              *)

\* main sleeps without a signal only when there is nothing to wake up for.
NoWakeUpIsLost == mainPc = "asleep" /\ ~signal => pipeSeq = mainConsumed /\ ~eof /\ ~error

\* main leaves at the end of the input only after the last frame went to a pass.
LastIsShown ==
  mainPc = "ended" => \/ threadPc = "done" /\ mainTaken = pipeSeq
                      \/ limit # 0 /\ passes = limit

HandsOver ==
  /\ NoWakeUpIsLost /\ LastIsShown
  /\ mainConsumed \in Nat /\ mainConsumed <= mainTaken
  /\ eof /\ mainPc \notin {"ended", "failed"} => threadPc = "done"

LEMMA HandsOverStep ==
  ASSUME Parts # {}, ReaderInv, HandsOver, [Reader!Next]_(Reader!vars)
  PROVE  HandsOver'
<1> USE DEF HandsOver, NoWakeUpIsLost, LastIsShown, ReaderInv, ReaderTypes
<1>1. CASE Reader!FirstFrame \/ Reader!NoFirstFrame
  BY <1>1 DEF Reader!FirstFrame, Reader!NoFirstFrame, Reader!shared, Reader!thread, FirstComesFirst
<1>2. CASE Reader!ReadPart
  BY <1>2 DEF Reader!ReadPart, Reader!main
<1>3. CASE Reader!Publish
  BY <1>3 DEF Reader!Publish, Reader!Signal, Reader!main
<1>4. CASE Reader!Stopped
  BY <1>4 DEF Reader!Stopped, Reader!shared, Reader!main
<1>5. CASE Reader!EndOfInput \/ Reader!ReadError
  BY <1>5 DEF Reader!EndOfInput, Reader!ReadError, Reader!Signal, Reader!main
<1>6. CASE Reader!Begin \/ Reader!Relock \/ Reader!Redraw \/ Reader!NothingToDo
  BY <1>6 DEF Reader!Begin, Reader!Relock, Reader!Redraw, Reader!Lock, Reader!NothingToDo,
              Reader!shared, Reader!thread
<1>7. CASE Reader!Sleep \/ Reader!Wake \/ Reader!Expire \/ Reader!Idle
  BY <1>7 DEF Reader!Sleep, Reader!Wake, Reader!Expire, Reader!Idle, Reader!shared, Reader!thread
<1>8. CASE Reader!Fail
  BY <1>8 DEF Reader!Fail, Reader!Leave, Reader!thread
<1>9. CASE Reader!End
  <2>1. /\ eof /\ mainPc = "look" /\ pipeSeq = mainConsumed
        /\ mainPc' = "ended"
        /\ UNCHANGED <<threadPc, pipeSeq, mainConsumed, mainTaken>>
    BY <1>9 DEF Reader!End, Reader!Leave, Reader!thread
  <2>2. threadPc = "done"
    BY <2>1
  <2>3. mainTaken = pipeSeq
    BY <2>1
  <2> QED
    BY <2>1, <2>2, <2>3
<1>10. CASE Reader!StartCopy \/ Reader!CopyPart
  BY <1>10 DEF Reader!StartCopy, Reader!CopyPart, Reader!shared, Reader!thread
<1>11. CASE Reader!EndCopy
  BY <1>11, TakenIsNewest DEF Reader!EndCopy, Reader!shared, Reader!thread
<1>12. CASE Reader!Pass
  BY <1>12 DEF Reader!Pass, Reader!thread
<1>13. CASE UNCHANGED Reader!vars
  BY <1>13 DEF Reader!vars, Reader!shared, Reader!thread, Reader!main
<1> QED
  BY <1>1, <1>2, <1>3, <1>4, <1>5, <1>6, <1>7, <1>8, <1>9, <1>10, <1>11, <1>12, <1>13
  DEF Reader!Next, Reader!Thread, Reader!Main

\* Between the thread and main no wake-up is lost (pthread_cond_timedwait after a look
\* under the lock), and the end of the input does not overtake the last frame.
THEOREM NothingIsMissed ==
  ASSUME Parts # {}
  PROVE  Reader!Spec => [](NoWakeUpIsLost /\ LastIsShown)
<1>1. Reader!Init => ReaderInv /\ HandsOver
  BY ReaderStarts DEF Reader!Init, HandsOver, NoWakeUpIsLost, LastIsShown
<1>2. ReaderInv /\ HandsOver /\ [Reader!Next]_(Reader!vars) => (ReaderInv /\ HandsOver)'
  BY ReaderStep, HandsOverStep
<1>3. HandsOver => NoWakeUpIsLost /\ LastIsShown
  BY DEF HandsOver
<1> QED
  BY <1>1, <1>2, <1>3, PTL DEF Reader!Spec
=============================================================================
