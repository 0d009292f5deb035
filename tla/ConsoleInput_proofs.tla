------------------------ MODULE ConsoleInput_proofs -------------------------
(***************************************************************************)
(* Proofs about ConsoleInput: types, and that no wake-up is lost, for any  *)
(* keys, any limits and any number of threads' notifications.              *)
(***************************************************************************)
EXTENDS ConsoleInput, SequenceTheorems, TLAPS

-----------------------------------------------------------------------------
(* The inductive invariant.                                                *)

\* Which events there may be at which step.
EventFollowsPc ==
  /\ pc \notin {"input", "handle"} => event = "none"
  /\ pc = "input" => event \in {"none", "Interrupted", "Redraw", "WorkAvailable"}
  /\ pc = "handle" => event \in Event

\* The client is about to end.
Leaving == {"finish", "join", "ended"}

\* Before the UI runs there is no request and no news but diagnostics, the screen
\* is to be drawn, no escape sequence or paste was begun, and there is a line to ask
\* for until the last was read; the UI's steps and events are there only once it runs.
QuietBeforeUi ==
  /\ ~enabled => /\ requests = 0 /\ work \subseteq {"diagnostic"}
                 /\ ~escapePending /\ ~pasteActive
  /\ pc \in {"synchronize", "handle", "submit", "consume", "check", "present", "write",
           "more", "names", "submitName"} => enabled
  /\ event # "none" => enabled
  /\ pc = "authenticate" => ~enabled
  /\ ~enabled \/ pc = "synchronize" => dirty
  /\ ~enabled => linesLeft > 0 \/ pc \in Leaving \cup {"authenticate"}

\* An interrupt that the test at the top missed has left, or will leave, its byte.
InterruptAnnounced ==
  pc \in {"work", "poll"} /\ interrupted => pipe # <<>> \/ rpc = "interruptByte"

\* The main thread has been told to go round its loop and is on its way.
Returning ==
  \/ pc \in Leaving \cup {"synchronize", "handle", "submit", "consume"}
  \/ pc = "input" /\ event # "none"

Announced == workPending \/ rpc = "notify"

\* The same for the diagnostic, which is drawn only if the screen is dirty.
Redrawing ==
  \/ pc \in Leaving
  \/ pc \in {"synchronize", "consume", "check", "present"} /\ dirty
  \/ pc = "input" /\ event # "none"
  \/ pc = "handle" /\ event \notin {"Key", "Failure"}

\* What is left for the UI was announced, or the UI has yet to pass the place
\* where it takes it.
WorkAnnounced ==
  enabled =>
    /\ requests > 0 => Announced \/ Returning
                       \/ pc \in {"check", "present", "flush", "write", "more"}
    /\ "response" \in work => Announced \/ Returning
    /\ "message" \in work => Announced \/ Returning \/ pc \in {"check", "present"}
    /\ "diagnostic" \in work => Announced \/ Redrawing

\* The thread polls with workPending set only if a byte will wake it, or if it
\* prefers to wait for the rest of the input.
PendingHasByte ==
  pc = "poll" /\ enabled /\ workPending /\ pipe = <<>>
    => rpc = "notifyByte" \/ buf # <<>>

Control ==
  /\ EventFollowsPc
  /\ QuietBeforeUi
  /\ InterruptAnnounced
  /\ WorkAnnounced
  /\ PendingHasByte
  /\ DeadlineHasEscape

IInv == TypeOK /\ Control

-----------------------------------------------------------------------------
(* The pipe and the buffer.                                                *)

\* A byte written to the pipe leaves it within its capacity and not empty, also
\* when there was no room for it.
LEMMA WakeByteArrives ==
  ASSUME TypeOK, NEW byte \in {"W", "I", "R"}, WriteWakeByte(byte)
  PROVE  /\ pipe' \in Seq({"W", "I", "R"})
         /\ Len(pipe') <= PipeCapacity
         /\ pipe' # <<>>
<1> USE LimitsAssumption DEF TypeOK, WriteWakeByte
<1>1. CASE Len(pipe) < PipeCapacity
  <2>1. pipe' = Append(pipe, byte)
    BY <1>1
  <2>2. pipe' \in Seq({"W", "I", "R"}) /\ Len(pipe') = Len(pipe) + 1
    BY <2>1, AppendProperties
  <2> QED
    BY <1>1, <2>2
<1>2. CASE ~(Len(pipe) < PipeCapacity)
  BY <1>2
<1> QED
  BY <1>1, <1>2

\* What is left of a sequence of keys after its first i.
LEMMA AfterIsShorter ==
  ASSUME NEW s \in Seq(Key), NEW i \in Nat, i <= Len(s)
  PROVE  After(s, i) \in Seq(Key) /\ Len(After(s, i)) = Len(s) - i
<1>1. \A j \in (i + 1)..Len(s) : s[j] \in Key
  OBVIOUS
<1>2. /\ SubSeq(s, i + 1, Len(s)) \in Seq(Key)
      /\ Len(SubSeq(s, i + 1, Len(s)))
           = IF i + 1 <= Len(s) THEN Len(s) - (i + 1) + 1 ELSE 0
  BY <1>1, SubSeqProperties
<1> QED
  BY <1>2 DEF After

\* A read returns keys typed, and no more than readLine has room for.
LEMMA ReadableIsRead ==
  ASSUME TypeOK
  PROVE  /\ Readable \in 0..Len(tty)
         /\ SubSeq(tty, 1, Readable) \in Seq(Key)
         /\ Len(SubSeq(tty, 1, Readable)) = Readable
         /\ SubSeq(tty, Readable + 1, Len(tty)) \in Seq(Key)
         /\ ~enabled => Len(buf) + Readable <= MaxLineBytes + 1
<1>1. /\ Readable \in 0..Len(tty)
      /\ ~enabled => Len(buf) + Readable <= MaxLineBytes + 1
  BY LimitsAssumption DEF TypeOK, Readable
<1>2. /\ \A j \in 1..Readable : tty[j] \in Key
      /\ \A j \in (Readable + 1)..Len(tty) : tty[j] \in Key
  BY <1>1 DEF TypeOK
<1>3. /\ SubSeq(tty, 1, Readable) \in Seq(Key)
      /\ Len(SubSeq(tty, 1, Readable)) = IF 1 <= Readable THEN Readable - 1 + 1 ELSE 0
  BY <1>1, <1>2, SubSeqProperties
<1>4. SubSeq(tty, Readable + 1, Len(tty)) \in Seq(Key)
  BY <1>1, <1>2, SubSeqProperties DEF TypeOK
<1> QED
  BY <1>1, <1>3, <1>4

-----------------------------------------------------------------------------
(* Every step preserves Control.                                           *)

LEMMA InitIInv == Init => IInv
<1> SUFFICES ASSUME Init PROVE IInv
  OBVIOUS
<1>1. Control
  BY LimitsAssumption
     DEF Init, Control, EventFollowsPc, QuietBeforeUi, InterruptAnnounced,
         WorkAnnounced, PendingHasByte, DeadlineHasEscape
<1>2. <<>> \in Seq(Key) /\ <<>> \in Seq({"W", "I", "R"}) /\ Len(<<>>) = 0
  OBVIOUS
<1>3. TypeOK
  <2>1. /\ Lines \in 0..Lines /\ 0 <= PipeCapacity /\ 0 <= MaxLineBytes + 1
    BY LimitsAssumption
  <2> QED
    BY <1>2, <2>1 DEF Init, TypeOK, Pc, Event, News
<1> QED
  BY <1>1, <1>3 DEF IInv

\* Steps of the main thread in readLine and in the part of readEvent that waits.
LEMMA WaitingKeepsControl ==
  ASSUME IInv,
         \/ Top \/ Poll \/ PollIsInterrupted \/ PollFails \/ PollTimesOut \/ Drain
         \/ JudgeLine \/ Judge
  PROVE  Control'
<1> USE DEF IInv, TypeOK, Control, EventFollowsPc, QuietBeforeUi,
            InterruptAnnounced, WorkAnnounced, PendingHasByte, DeadlineHasEscape,
            Announced, Returning, Redrawing, Leaving, Event, Goto,
            flags, terminal, input, polled, client, phase, counts
<1>1. ASSUME Top PROVE Control'
  BY <1>1 DEF Top
<1>2. ASSUME Poll PROVE Control'
  BY <1>2 DEF Poll
<1>3. ASSUME PollIsInterrupted PROVE Control'
  BY <1>3 DEF PollIsInterrupted
<1>4. ASSUME PollFails PROVE Control'
  BY <1>4 DEF PollFails
<1>5. ASSUME PollTimesOut PROVE Control'
  BY <1>5 DEF PollTimesOut
<1>6. ASSUME Drain PROVE Control'
  BY <1>6 DEF Drain
<1>7. ASSUME JudgeLine PROVE Control'
  BY <1>7 DEF JudgeLine
<1>8. ASSUME Judge PROVE Control'
  BY <1>8 DEF Judge
<1> QED
  BY <1>1, <1>2, <1>3, <1>4, <1>5, <1>6, <1>7, <1>8

\* Steps that read and decode the input.
LEMMA ReadingKeepsControl ==
  ASSUME IInv, Input \/ ReadLine \/ FlushLine \/ Decode
  PROVE  Control'
<1> USE DEF IInv, TypeOK, Control, EventFollowsPc, QuietBeforeUi,
            InterruptAnnounced, WorkAnnounced, PendingHasByte, DeadlineHasEscape,
            Announced, Returning, Redrawing, Leaving, Event, Goto, Return,
            flags, terminal, input, polled, client, phase, counts
<1>1. ASSUME Input PROVE Control'
  <2>1. escapePending => buf' # <<>> /\ Head(buf') = Head(buf)
    <3> SUFFICES ASSUME escapePending, "tty" \in ready
                 PROVE  buf' # <<>> /\ Head(buf') = Head(buf)
      BY <1>1 DEF Input
    <3> DEFINE chunk == SubSeq(tty, 1, Readable)
    <3>1. chunk \in Seq(Key) /\ buf' = buf \o chunk
      BY <1>1, ReadableIsRead DEF Input
    <3>2. buf # <<>> /\ Len(buf) > 0
      OBVIOUS
    <3> HIDE DEF chunk
    <3>3. /\ buf' \in Seq(Key) /\ Len(buf') = Len(buf) + Len(chunk)
          /\ buf'[1] = buf[1]
      BY <3>1, <3>2, ConcatProperties
    <3> QED
      BY <3>2, <3>3
  <2> QED
    BY <1>1, <2>1 DEF Input
<1>2. ASSUME ReadLine PROVE Control'
  BY <1>2 DEF ReadLine, NextLine
<1>3. ASSUME FlushLine PROVE Control'
  BY <1>3 DEF FlushLine
<1>4. ASSUME FinishPaste PROVE Control'
  BY <1>4 DEF FinishPaste, EndsPaste
<1>5. ASSUME TakeWork PROVE Control'
  BY <1>5 DEF TakeWork, WorkFirst, Kept
<1>6. ASSUME AwaitInput PROVE Control'
  BY <1>6 DEF AwaitInput, WorkFirst, Kept
<1>7. ASSUME StartPaste PROVE Control'
  BY <1>7 DEF StartPaste, Decoding, WorkFirst, Kept
<1>8. ASSUME DecodeLead PROVE Control'
  BY <1>8 DEF DecodeLead, Decoding, WaitForRest, WorkFirst, Kept
<1>9. ASSUME DecodeEscape PROVE Control'
  BY <1>9 DEF DecodeEscape, Decoding, WaitForRest, WorkFirst, Kept
<1>10. ASSUME EscapeExpires PROVE Control'
  BY <1>10 DEF EscapeExpires, Decoding, WorkFirst, Kept
<1>11. ASSUME DecodeSequence PROVE Control'
  BY <1>11 DEF DecodeSequence, Decoding, WaitForRest, WorkFirst, Kept
<1>12. ASSUME NEW key \in Key, DecodeSingle(key) PROVE Control'
  BY <1>12 DEF DecodeSingle, Decoding, WorkFirst, Kept
<1> QED
  BY <1>1, <1>2, <1>3, <1>4, <1>5, <1>6, <1>7, <1>8, <1>9, <1>10, <1>11, <1>12
  DEF Decode

\* Steps of the start of the client and of the loop of its UI.
LEMMA LoopKeepsControl ==
  ASSUME IInv,
         \/ Authenticated \/ NotAuthenticated \/ StartPendingSynchronization
         \/ Handle \/ ConsumeResponse \/ CheckStopping \/ Present \/ Flush
         \/ WriteRequest \/ WriteFails \/ More \/ Finish \/ Join
         \/ OperationWritten \/ OperationFails \/ ScheduleNameWork
  PROVE  Control'
<1> USE DEF IInv, TypeOK, Control, EventFollowsPc, QuietBeforeUi,
            InterruptAnnounced, WorkAnnounced, PendingHasByte, DeadlineHasEscape,
            Announced, Returning, Redrawing, Leaving, Event, News, Goto,
            NotifyWork, RequestStop,
            flags, terminal, input, polled, client, phase, counts
<1>1. ASSUME Authenticated PROVE Control'
  BY <1>1 DEF Authenticated
<1>2. ASSUME NotAuthenticated PROVE Control'
  BY <1>2 DEF NotAuthenticated
<1>3. ASSUME StartPendingSynchronization PROVE Control'
  BY <1>3 DEF StartPendingSynchronization
<1>4. ASSUME Handle PROVE Control'
  BY <1>4 DEF Handle
<1>5. ASSUME ConsumeResponse PROVE Control'
  BY <1>5 DEF ConsumeResponse
<1>6. ASSUME CheckStopping PROVE Control'
  BY <1>6 DEF CheckStopping
<1>7. ASSUME Present PROVE Control'
  <2>1. CASE dirty \/ "message" \in work
    BY <1>7, <2>1 DEF Present
  <2>2. CASE ~dirty /\ "message" \notin work
    BY <1>7, <2>2 DEF Present
  <2> QED
    BY <2>1, <2>2
<1>8. ASSUME Flush PROVE Control'
  BY <1>8 DEF Flush
<1>9. ASSUME WriteRequest PROVE Control'
  BY <1>9 DEF WriteRequest
<1>10. ASSUME WriteFails PROVE Control'
  BY <1>10 DEF WriteFails
<1>11. ASSUME More PROVE Control'
  <2>1. CASE ~stopping /\ requests > 0
    BY <1>11, <2>1 DEF More
  <2>2. CASE ~(~stopping /\ requests > 0)
    BY <1>11, <2>2 DEF More
  <2> QED
    BY <2>1, <2>2
<1>12. ASSUME Finish PROVE Control'
  BY <1>12 DEF Finish
<1>13. ASSUME Join PROVE Control'
  BY <1>13 DEF Join
<1>14. ASSUME OperationWritten PROVE Control'
  BY <1>14 DEF OperationWritten, Submitting
<1>15. ASSUME OperationFails PROVE Control'
  BY <1>15 DEF OperationFails, Submitting
<1>16. ASSUME ScheduleNameWork PROVE Control'
  BY <1>16 DEF ScheduleNameWork
<1> QED
  BY <1>1, <1>2, <1>3, <1>4, <1>5, <1>6, <1>7, <1>8, <1>9, <1>10, <1>11, <1>12,
     <1>13, <1>14, <1>15, <1>16

\* Steps of the receiver, of the signal handler and of the terminal.
LEMMA OthersKeepControl ==
  ASSUME IInv, Receiver \/ Environment
  PROVE  Control'
<1> USE DEF IInv, TypeOK, Control, EventFollowsPc, QuietBeforeUi,
            InterruptAnnounced, WorkAnnounced, PendingHasByte, DeadlineHasEscape,
            Announced, Returning, Redrawing, Leaving, Event, News, Goto,
            flags, terminal, input, polled, client, phase, counts
<1>1. ASSUME NEW kind \in News, LeaveNews(kind) PROVE Control'
  BY <1>1 DEF LeaveNews
<1>2. ASSUME QueueRequest PROVE Control'
  BY <1>2 DEF QueueRequest
<1>3. ASSUME ReceiverNotifies PROVE Control'
  BY <1>3 DEF ReceiverNotifies
<1>4. ASSUME ReceiverWakes PROVE Control'
  <2>1. pipe' # <<>>
    BY <1>4, WakeByteArrives DEF ReceiverWakes
  <2> QED
    BY <1>4, <2>1 DEF ReceiverWakes
<1>5. ASSUME ReceiverStops PROVE Control'
  BY <1>5 DEF ReceiverStops
<1>6. ASSUME ReceiverInterrupts PROVE Control'
  <2>1. CASE rpc = "interruptByte"
    <3>1. WriteWakeByte("I")
      BY <1>6, <2>1 DEF ReceiverInterrupts
    <3>2. pipe' # <<>>
      BY <3>1, WakeByteArrives
    <3> QED
      BY <1>6, <2>1, <3>2 DEF ReceiverInterrupts
  <2>2. CASE rpc = "interrupt"
    BY <1>6, <2>2 DEF ReceiverInterrupts
  <2> QED
    BY <1>6, <2>1, <2>2 DEF ReceiverInterrupts
<1>7. ASSUME Resize PROVE Control'
  <2>1. pipe' # <<>>
    BY <1>7, WakeByteArrives DEF Resize
  <2> QED
    BY <1>7, <2>1 DEF Resize
<1>8. ASSUME NEW key \in Keys, Type(key) PROVE Control'
  BY <1>8 DEF Type
<1>9. ASSUME HangUp PROVE Control'
  BY <1>9 DEF HangUp
<1> QED
  BY <1>1, <1>2, <1>3, <1>4, <1>5, <1>6, <1>7, <1>8, <1>9
  DEF Receiver, Environment

-----------------------------------------------------------------------------
(* Every step preserves the types.                                         *)

LEMMA KeptIsInput ==
  ASSUME TypeOK
  PROVE  Kept \in Seq(Key)
<1>1. CASE pasteActive /\ buf # <<>>
  <2>1. Len(buf) \in DOMAIN buf
    BY <1>1 DEF TypeOK
  <2>2. buf[Len(buf)] \in Key
    BY <2>1 DEF TypeOK
  <2> QED
    BY <1>1, <2>2 DEF Kept
<1>2. CASE ~(pasteActive /\ buf # <<>>)
  BY <1>2 DEF Kept, TypeOK
<1> QED
  BY <1>1, <1>2

LEMMA WaitingKeepsTypes ==
  ASSUME IInv,
         \/ Top \/ Poll \/ PollIsInterrupted \/ PollFails \/ PollTimesOut \/ Drain
         \/ JudgeLine \/ Judge
  PROVE  TypeOK'
<1> USE DEF IInv, TypeOK, Event, Pc, Goto,
            flags, terminal, input, polled, client, phase, counts
<1>1. ASSUME Top PROVE TypeOK'
  BY <1>1 DEF Top
<1>2. ASSUME Poll PROVE TypeOK'
  BY <1>2 DEF Poll
<1>3. ASSUME PollIsInterrupted PROVE TypeOK'
  BY <1>3 DEF PollIsInterrupted
<1>4. ASSUME PollFails PROVE TypeOK'
  <2>1. prefer' \in BOOLEAN
    BY <1>4 DEF PollFails
  <2>2. pc' \in Pc /\ event' \in Event \cup {"none"}
    BY <1>4 DEF PollFails
  <2> QED
    BY <1>4, <2>1, <2>2 DEF PollFails
<1>5. ASSUME PollTimesOut PROVE TypeOK'
  <2>1. buf # <<>> /\ enabled
    BY <1>5 DEF PollTimesOut, Control, DeadlineHasEscape, QuietBeforeUi
  <2>2. <<"key">> \in Seq(Key) /\ <<>> \in Seq(Key) /\ Tail(buf) \in Seq(Key)
    BY <2>1, HeadTailProperties DEF Key
  <2>3. buf' \in Seq(Key)
    BY <1>5, <2>2, ConcatProperties DEF PollTimesOut
  <2>4. escapePending' \in BOOLEAN /\ pc' \in Pc /\ event' \in Event
    BY <1>5 DEF PollTimesOut
  <2> QED
    BY <1>5, <2>1, <2>3, <2>4 DEF PollTimesOut
<1>6. ASSUME Drain PROVE TypeOK'
  BY <1>6, LimitsAssumption DEF Drain
<1>7. ASSUME JudgeLine PROVE TypeOK'
  BY <1>7 DEF JudgeLine
<1>8. ASSUME Judge PROVE TypeOK'
  BY <1>8 DEF Judge
<1> QED
  BY <1>1, <1>2, <1>3, <1>4, <1>5, <1>6, <1>7, <1>8

LEMMA ReadLineKeepsTypes ==
  ASSUME IInv, ReadLine
  PROVE  TypeOK'
<1> USE LimitsAssumption
    DEF IInv, TypeOK, Pc, NextLine, flags, terminal, polled, client, phase, counts
<1>1. linesLeft' \in 0..Lines
  BY DEF ReadLine, Control, QuietBeforeUi, Leaving
<1>2. ASSUME NEW i \in DOMAIN buf, buf' = After(buf, i) PROVE
        buf' \in Seq(Key) /\ Len(buf') <= Len(buf)
  BY <1>2, AfterIsShorter
<1>3. buf' \in Seq(Key) /\ Len(buf') <= Len(buf)
  <2>1. buf' = buf \/ buf' = <<>> \/ \E i \in DOMAIN buf : buf' = After(buf, i)
    BY DEF ReadLine
  <2>2. <<>> \in Seq(Key) /\ Len(<<>>) = 0 /\ Len(buf) \in Nat
    OBVIOUS
  <2>3. CASE buf' = <<>>
    BY <2>2, <2>3
  <2>4. CASE buf' = buf
    BY <2>2, <2>4
  <2>5. CASE \E i \in DOMAIN buf : buf' = After(buf, i)
    BY <1>2, <2>5
  <2> QED
    BY <2>1, <2>3, <2>4, <2>5
<1>4. workPending' \in BOOLEAN /\ pc' \in Pc
  BY DEF ReadLine
<1> QED
  BY <1>1, <1>3, <1>4 DEF ReadLine

LEMMA ReadingKeepsTypes ==
  ASSUME IInv, Input \/ FlushLine \/ Decode
  PROVE  TypeOK'
<1> USE DEF IInv, TypeOK, Event, Pc, Goto, Return,
            flags, terminal, input, polled, client, phase, counts
<1>1. ASSUME Input PROVE TypeOK'
  <2>1. /\ eof' \in BOOLEAN /\ prefer' \in BOOLEAN /\ resized' \in BOOLEAN
        /\ pc' \in Pc /\ ready' \subseteq {"tty", "pipe"}
    BY <1>1 DEF Input
  <2>2. CASE "tty" \in ready
    <3>1. /\ buf' = buf \o SubSeq(tty, 1, Readable)
          /\ tty' = SubSeq(tty, Readable + 1, Len(tty))
      BY <1>1, <2>2 DEF Input
    <3>2. /\ buf' \in Seq(Key) /\ tty' \in Seq(Key)
          /\ Len(buf') = Len(buf) + Readable
      BY <3>1, ReadableIsRead, ConcatProperties
    <3>3. ~enabled => Len(buf') <= MaxLineBytes + 1
      BY <3>2, ReadableIsRead
    <3> QED
      BY <1>1, <2>1, <3>2, <3>3 DEF Input
  <2>3. CASE "tty" \notin ready
    BY <1>1, <2>1, <2>3 DEF Input
  <2> QED
    BY <2>2, <2>3
<1>2. ASSUME FlushLine PROVE TypeOK'
  BY <1>2 DEF FlushLine
<1>3. ASSUME FinishPaste PROVE TypeOK'
  <2>1. buf' \in Seq(Key)
    BY <1>3, AfterIsShorter DEF FinishPaste
  <2>2. pasteActive' \in BOOLEAN
    BY <1>3 DEF FinishPaste
  <2> QED
    BY <1>3, <2>1, <2>2 DEF FinishPaste
<1>4. ASSUME TakeWork PROVE TypeOK'
  <2>1. prefer' \in BOOLEAN /\ workPending' \in BOOLEAN
    BY <1>4 DEF TakeWork
  <2> QED
    BY <1>4, <2>1, KeptIsInput DEF TakeWork
<1>5. ASSUME AwaitInput PROVE TypeOK'
  BY <1>5, KeptIsInput DEF AwaitInput
<1>6. buf # <<>> => Tail(buf) \in Seq(Key)
  BY HeadTailProperties
<1>7. ASSUME StartPaste PROVE TypeOK'
  <2>1. pasteActive' \in BOOLEAN /\ escapePending' \in BOOLEAN /\ prefer' \in BOOLEAN
    BY <1>7 DEF StartPaste, Decoding
  <2> QED
    BY <1>6, <1>7, <2>1 DEF StartPaste, Decoding
<1>8. ASSUME DecodeLead PROVE TypeOK'
  <2>1. escapePending' \in BOOLEAN /\ prefer' \in BOOLEAN
    BY <1>8 DEF DecodeLead, Decoding, WaitForRest
  <2>2. buf' \in Seq(Key) /\ pc' \in Pc /\ event' \in Event \cup {"none"}
    BY <1>6, <1>8 DEF DecodeLead, Decoding, WaitForRest
  <2> QED
    BY <1>8, <2>1, <2>2 DEF DecodeLead, Decoding, WaitForRest
<1>9. ASSUME DecodeEscape PROVE TypeOK'
  <2>1. escapePending' \in BOOLEAN /\ prefer' \in BOOLEAN
    BY <1>9 DEF DecodeEscape, Decoding, WaitForRest
  <2>2. buf' \in Seq(Key) /\ pc' \in Pc /\ event' \in Event \cup {"none"}
    BY <1>6, <1>9 DEF DecodeEscape, Decoding, WaitForRest
  <2> QED
    BY <1>9, <2>1, <2>2 DEF DecodeEscape, Decoding, WaitForRest
<1>10. ASSUME EscapeExpires PROVE TypeOK'
  <2>1. escapePending' \in BOOLEAN /\ prefer' \in BOOLEAN
    BY <1>10 DEF EscapeExpires, Decoding
  <2> QED
    BY <1>10, <2>1 DEF EscapeExpires, Decoding
<1>11. ASSUME DecodeSequence PROVE TypeOK'
  <2>1. ASSUME NEW i \in DOMAIN buf, buf' = AfterSequence(i)
        PROVE  buf' \in Seq(Key)
    <3>1. After(buf, i) \in Seq(Key) /\ <<"key">> \in Seq(Key) /\ <<>> \in Seq(Key)
      BY AfterIsShorter DEF Key
    <3> QED
      BY <2>1, <3>1, ConcatProperties DEF AfterSequence
  <2>2. Len(buf) >= MaxSequence => After(buf, MaxSequence) \in Seq(Key)
    BY LimitsAssumption, AfterIsShorter
  <2>3. buf' \in Seq(Key)
    BY <1>11, <2>1, <2>2 DEF DecodeSequence, WaitForRest
  <2>4. escapePending' \in BOOLEAN /\ prefer' \in BOOLEAN
    BY <1>11 DEF DecodeSequence, Decoding, WaitForRest
  <2>5. pc' \in Pc /\ event' \in Event \cup {"none"}
    BY <1>11 DEF DecodeSequence, WaitForRest
  <2> QED
    BY <1>11, <2>3, <2>4, <2>5 DEF DecodeSequence, Decoding, WaitForRest
<1>12. ASSUME NEW key \in Key, DecodeSingle(key) PROVE TypeOK'
  BY <1>6, <1>12 DEF DecodeSingle, Decoding
<1> QED
  BY <1>1, <1>2, <1>3, <1>4, <1>5, <1>7, <1>8, <1>9, <1>10, <1>11, <1>12
  DEF Decode

LEMMA LoopKeepsTypes ==
  ASSUME IInv,
         \/ Authenticated \/ NotAuthenticated \/ StartPendingSynchronization
         \/ Handle \/ ConsumeResponse \/ CheckStopping \/ Present \/ Flush
         \/ WriteRequest \/ WriteFails \/ More \/ Finish \/ Join
         \/ OperationWritten \/ OperationFails \/ ScheduleNameWork
  PROVE  TypeOK'
<1> USE DEF IInv, TypeOK, Event, News, Pc, Goto,
            flags, terminal, input, polled, client, phase, counts
<1>1. ASSUME NotifyWork PROVE
        /\ workPending' \in BOOLEAN
        /\ pipe' \in Seq({"W", "I", "R"}) /\ Len(pipe') <= PipeCapacity
  BY <1>1, WakeByteArrives DEF NotifyWork
<1>2. ASSUME RequestStop PROVE
        /\ interrupted' \in BOOLEAN /\ stopping' \in BOOLEAN
        /\ workPending' \in BOOLEAN
        /\ pipe' \in Seq({"W", "I", "R"}) /\ Len(pipe') <= PipeCapacity
  BY <1>2, WakeByteArrives DEF RequestStop
<1>3. ASSUME Authenticated PROVE TypeOK'
  BY <1>3 DEF Authenticated
<1>4. ASSUME NotAuthenticated PROVE TypeOK'
  BY <1>4 DEF NotAuthenticated
<1>5. ASSUME StartPendingSynchronization PROVE TypeOK'
  BY <1>1, <1>5 DEF StartPendingSynchronization
<1>6. ASSUME Handle PROVE TypeOK'
  <2>1. dirty' \in BOOLEAN
    BY <1>6 DEF Handle
  <2>2. pc' \in Pc /\ event' = "none"
    BY <1>6 DEF Handle
  <2> QED
    BY <1>6, <2>1, <2>2 DEF Handle
<1>7. ASSUME ConsumeResponse PROVE TypeOK'
  BY <1>2, <1>7 DEF ConsumeResponse
<1>8. ASSUME CheckStopping PROVE TypeOK'
  BY <1>8 DEF CheckStopping
<1>9. ASSUME Present PROVE TypeOK'
  <2>1. dirty' \in BOOLEAN /\ work' \subseteq News
    BY <1>9 DEF Present
  <2> QED
    BY <1>9, <2>1 DEF Present
<1>10. ASSUME Flush PROVE TypeOK'
  BY <1>10 DEF Flush
<1>11. ASSUME WriteRequest PROVE TypeOK'
  BY <1>11 DEF WriteRequest
<1>12. ASSUME WriteFails PROVE TypeOK'
  BY <1>2, <1>12 DEF WriteFails
<1>13. ASSUME More PROVE TypeOK'
  BY <1>1, <1>13 DEF More
<1>14. ASSUME Finish PROVE TypeOK'
  BY <1>2, <1>14 DEF Finish
<1>15. ASSUME Join PROVE TypeOK'
  BY <1>15 DEF Join
<1>16. ASSUME OperationWritten PROVE TypeOK'
  BY <1>16 DEF OperationWritten, Submitting
<1>17. ASSUME OperationFails PROVE TypeOK'
  BY <1>2, <1>17 DEF OperationFails, Submitting
<1>18. ASSUME ScheduleNameWork PROVE TypeOK'
  BY <1>18 DEF ScheduleNameWork
<1> QED
  BY <1>3, <1>4, <1>5, <1>6, <1>7, <1>8, <1>9, <1>10, <1>11, <1>12, <1>13, <1>14,
     <1>15, <1>16, <1>17, <1>18

LEMMA OthersKeepTypes ==
  ASSUME IInv, Receiver \/ Environment
  PROVE  TypeOK'
<1> USE DEF IInv, TypeOK, News,
            flags, terminal, input, polled, client, phase, counts
<1>1. ASSUME NEW kind \in News, LeaveNews(kind) PROVE TypeOK'
  BY <1>1 DEF LeaveNews
<1>2. ASSUME QueueRequest PROVE TypeOK'
  BY <1>2 DEF QueueRequest
<1>3. ASSUME ReceiverNotifies PROVE TypeOK'
  BY <1>3 DEF ReceiverNotifies
<1>4. ASSUME ReceiverWakes PROVE TypeOK'
  BY <1>4, WakeByteArrives DEF ReceiverWakes
<1>5. ASSUME ReceiverStops PROVE TypeOK'
  BY <1>5 DEF ReceiverStops
<1>6. ASSUME ReceiverInterrupts PROVE TypeOK'
  <2>1. interrupted' \in BOOLEAN
    BY <1>6 DEF ReceiverInterrupts
  <2>2. /\ pipe' \in Seq({"W", "I", "R"}) /\ Len(pipe') <= PipeCapacity
    BY <1>6, WakeByteArrives DEF ReceiverInterrupts
  <2> QED
    BY <1>6, <2>1, <2>2 DEF ReceiverInterrupts
<1>7. ASSUME Resize PROVE TypeOK'
  BY <1>7, WakeByteArrives DEF Resize
<1>8. ASSUME NEW key \in Keys, Type(key) PROVE TypeOK'
  BY <1>8, KeysAssumption, AppendProperties DEF Type
<1>9. ASSUME HangUp PROVE TypeOK'
  BY <1>9 DEF HangUp
<1> QED
  BY <1>1, <1>2, <1>3, <1>4, <1>5, <1>6, <1>7, <1>8, <1>9
  DEF Receiver, Environment

-----------------------------------------------------------------------------
(* The theorems.                                                           *)

LEMMA StepIInv == IInv /\ [Next]_vars => IInv'
<1> SUFFICES ASSUME IInv, [Next]_vars PROVE IInv'
  OBVIOUS
<1>1. ASSUME Next PROVE IInv'
  BY <1>1, WaitingKeepsControl, ReadingKeepsControl, LoopKeepsControl,
     OthersKeepControl, WaitingKeepsTypes, ReadLineKeepsTypes, ReadingKeepsTypes,
     LoopKeepsTypes, OthersKeepTypes
  DEF Next, Main, MainAnswered, IInv
<1>2. ASSUME UNCHANGED vars PROVE IInv'
  BY <1>2
  DEF vars, flags, terminal, input, polled, client, phase, counts, IInv, TypeOK,
      Control, EventFollowsPc, QuietBeforeUi, InterruptAnnounced, WorkAnnounced,
      PendingHasByte, DeadlineHasEscape, Announced, Returning, Redrawing
<1> QED
  BY <1>1, <1>2

LEMMA SpecIInv == Spec => []IInv
BY InitIInv, StepIInv, PTL DEF Spec

\* The types of the client's input and wake-up state, for any keys and limits.
THEOREM ConsoleTypes == Spec => []TypeOK
<1>1. IInv => TypeOK
  BY DEF IInv
<1> QED
  BY <1>1, SpecIInv, PTL

\* The main thread never waits while there is work for it that nobody will wake
\* it for, unless it holds an incomplete input.
THEOREM NoWakeupIsLost == Spec => []NoLostWakeup
<1>1. IInv => NoLostWakeup
  <2> SUFFICES ASSUME IInv, pc = "poll", enabled, pipe = <<>>,
                      rpc \notin {"notify", "notifyByte"}, buf = <<>>
               PROVE  work = {} /\ requests = 0 /\ ~workPending
    BY DEF NoLostWakeup
  <2>1. ~workPending
    BY DEF IInv, Control, PendingHasByte
  <2>2. ~Announced /\ ~Returning /\ ~Redrawing
    BY <2>1 DEF Announced, Returning, Redrawing, Leaving
  <2>3. /\ ~(requests > 0)
        /\ "response" \notin work /\ "message" \notin work
        /\ "diagnostic" \notin work
    BY <2>2 DEF IInv, Control, WorkAnnounced
  <2> QED
    BY <2>1, <2>3 DEF IInv, TypeOK, News
<1> QED
  BY <1>1, SpecIInv, PTL

\* The main thread never waits once it was interrupted, whatever was typed.
THEOREM InterruptsWake == Spec => []InterruptIsDue
<1>1. IInv => InterruptIsDue
  BY DEF IInv, Control, InterruptAnnounced, InterruptIsDue
<1> QED
  BY <1>1, SpecIInv, PTL

\* What a passed deadline takes out of the input is the ESC it was set for.
THEOREM DeadlineIsForEscape == Spec => []DeadlineHasEscape
<1>1. IInv => DeadlineHasEscape
  BY DEF IInv, Control
<1> QED
  BY <1>1, SpecIInv, PTL
=============================================================================
