---------------------------- MODULE ConsoleInput ----------------------------
(***************************************************************************)
(* The main thread of the client and what wakes it.  It waits in poll for  *)
(* its terminal and for a pipe.  The receiver thread leaves work for it    *)
(* (messages, a response, diagnostics, automatic requests) and notifies    *)
(* it, or stops the connection and interrupts it; the handler of the       *)
(* resize signal writes to the same pipe.  Wake-ups are coalesced: a flag  *)
(* says that one is under way, and the pipe is drained as a whole.         *)
(*                                                                         *)
(* One action is one atomic operation on a flag, on the pipe or on the     *)
(* terminal, or one critical section on the client's queues.  The keys     *)
(* typed are members of a small set.                                       *)
(***************************************************************************)
EXTENDS Naturals, Sequences

CONSTANTS
  Keys,          \* the keys that may be typed, a subset of Key
  Lines,         \* the lines readConsoleLine asks for before the UI starts
  MaxLineBytes,  \* ConsoleInput::MaxLineBytes
  MaxSequence,   \* the longest escape sequence decoded, 32 in the code
  PipeCapacity,  \* what the kernel buffers of an unread pipe
  MaxTyped, MaxPosts, MaxResizes, \* bounds of the model
  MaxEvents      \* bound of the model on all three together

\* key: any one that is complete by itself; exit: Ctrl+C, Ctrl+D, Ctrl+Q;
\* newline; lead: the first byte of a longer UTF-8 character; escape: ESC alone;
\* csi: the first bytes of a control sequence, ended by the letter after them;
\* paste, done: the marks a terminal puts around pasted text.
Key == {"key", "exit", "newline", "lead", "escape", "csi", "paste", "done"}

ASSUME KeysAssumption == Keys \subseteq Key
ASSUME LimitsAssumption ==
  /\ Lines \in Nat \ {0} /\ MaxLineBytes \in Nat \ {0}
  /\ MaxSequence \in Nat \ {0, 1} /\ PipeCapacity \in Nat \ {0}
ASSUME BoundsAssumption ==
  /\ MaxTyped \in Nat /\ MaxPosts \in Nat /\ MaxResizes \in Nat
  /\ MaxEvents \in Nat

VARIABLES
  interrupted,    \* ConsoleInput::interrupted
  workPending,    \* ConsoleInput::workPending
  pipe,           \* bytes in the wake-up pipe
  tty,            \* typed and not yet read
  hungUp,         \* the terminal is at its end
  buf,            \* ConsoleInput::inputBuffer
  eof,            \* endOfFileSeen
  pasteActive,
  prefer,         \* preferBufferedInput
  escapePending,
  pc,             \* the step of the main thread
  ready,          \* descriptors poll found readable
  resized,        \* resize of fillEventInput
  event,          \* the event to be returned or handled
  linesLeft,      \* lines still to be asked for
  enabled,        \* postAuthenticationEnabled, from when on the UI runs
  work,           \* kinds of news left for the UI and not yet taken by it
  requests,       \* length of automaticRequests
  dirty,          \* TerminalUi::dirty
  stopping,       \* ClientConnection::stopping
  rpc,            \* the step of the receiver thread
  typed, posted, resizes

flags    == <<interrupted, workPending>>
terminal == <<tty, hungUp>>
input    == <<buf, eof, pasteActive, prefer, escapePending>>
polled   == <<ready, resized>>
client   == <<work, requests, dirty, stopping>>
phase    == <<linesLeft, enabled>>
counts   == <<typed, posted, resizes>>
vars == <<flags, pipe, terminal, input, pc, polled, event, phase, client, rpc,
          counts>>

News == {"message", "response", "diagnostic"}

Event == {"Key", "Exit", "EndOfFile", "Interrupted", "Redraw", "WorkAvailable",
          "Failure"}

Pc == {"top", "work", "poll", "drain", "judge", "input", "flush",
       "authenticate", "synchronize", "handle", "submit", "consume", "check",
       "present", "write", "more", "names", "submitName", "finish", "join", "ended"}

Init ==
  /\ interrupted = FALSE /\ workPending = FALSE /\ pipe = <<>>
  /\ tty = <<>> /\ hungUp = FALSE
  /\ buf = <<>> /\ eof = FALSE
  /\ pasteActive = FALSE /\ prefer = TRUE /\ escapePending = FALSE
  /\ pc = "top" /\ ready = {} /\ resized = FALSE /\ event = "none"
  /\ linesLeft = Lines /\ enabled = FALSE
  /\ work = {} /\ requests = 0 /\ dirty = TRUE /\ stopping = FALSE
  /\ rpc = "receive"
  /\ typed = 0 /\ posted = 0 /\ resizes = 0

-----------------------------------------------------------------------------
(* Waking the main thread.                                                 *)

\* The pipe does not block: a byte that finds it full is dropped.
WriteWakeByte(byte) ==
  pipe' = IF Len(pipe) < PipeCapacity THEN Append(pipe, byte) ELSE pipe

\* notifyWork and requestStop as the main thread calls them: no other thread can
\* tell their steps apart, since only the main thread reads the pipe.
NotifyWork ==
  /\ IF workPending THEN UNCHANGED pipe ELSE WriteWakeByte("W")
  /\ workPending' = TRUE

RequestStop ==
  /\ IF interrupted \/ stopping THEN UNCHANGED pipe ELSE WriteWakeByte("I")
  /\ interrupted' = (interrupted \/ ~stopping)
  /\ stopping' = TRUE
  /\ UNCHANGED workPending

MayHappen == typed + posted + resizes < MaxEvents

Goto(from, to) == pc = from /\ pc' = to

Return(e) ==
  /\ pc = "work"
  /\ pc' = "handle"
  /\ event' = e

-----------------------------------------------------------------------------
(* readLine and readEvent: the loop of both.                               *)

Top ==
  /\ pc = "top"
  /\ IF ~interrupted THEN pc' = "work" /\ UNCHANGED event
     ELSE IF enabled THEN pc' = "handle" /\ event' = "Interrupted"
     ELSE pc' = "finish" /\ UNCHANGED event
  /\ UNCHANGED <<flags, pipe, terminal, input, polled, phase, client, rpc, counts>>

TtyReady == tty # <<>> \/ hungUp

Poll ==
  /\ pc = "poll"
  /\ ready' = {d \in {"tty", "pipe"} : IF d = "tty" THEN TtyReady ELSE pipe # <<>>}
  /\ ready' # {}
  /\ pc' = IF "pipe" \in ready' THEN "drain" ELSE "input"
  /\ UNCHANGED <<flags, pipe, terminal, input, resized, event, phase, client, rpc,
                 counts>>

\* EINTR.
PollIsInterrupted ==
  /\ Goto("poll", "top")
  /\ UNCHANGED <<flags, pipe, terminal, input, polled, event, phase, client, rpc,
                 counts>>

\* poll fails, or the read of the terminal does and no wake-up came with it.
PollFails ==
  /\ pc = "poll"
  /\ IF enabled
     THEN pc' = "handle" /\ event' = "Failure" /\ prefer' = TRUE
     ELSE pc' = "finish" /\ UNCHANGED <<event, prefer>>
  /\ UNCHANGED <<flags, pipe, terminal, buf, eof, pasteActive, escapePending, polled,
                 phase, client, rpc, counts>>

\* Everything in the pipe up to the read that finds it empty.
Drain ==
  /\ Goto("drain", "judge")
  /\ resized' = \E i \in DOMAIN pipe : pipe[i] = "R"
  /\ pipe' = <<>>
  /\ UNCHANGED <<flags, terminal, input, ready, event, phase, client, rpc, counts>>

\* After the drain readLine returns at once for an interrupt or for work.
JudgeLine ==
  /\ pc = "judge" /\ ~enabled
  /\ pc' = IF interrupted THEN "finish" ELSE IF workPending THEN "flush" ELSE "input"
  /\ workPending' = (workPending /\ interrupted)
  /\ UNCHANGED <<interrupted, pipe, terminal, input, polled, event, phase, client,
                 rpc, counts>>

\* fillEventInput: an interrupt comes first, then a resize, which leaves
\* workPending as it is.
Judge ==
  /\ Goto("judge", "input") /\ enabled
  /\ event' = IF interrupted THEN "Interrupted"
              ELSE IF resized THEN "Redraw" ELSE "WorkAvailable"
  /\ workPending' = (workPending /\ event' # "WorkAvailable")
  /\ UNCHANGED <<interrupted, pipe, terminal, input, polled, phase, client, rpc,
                 counts>>

\* readLine never holds more than one byte over its limit.
Readable ==
  LET free == MaxLineBytes + 1 - Len(buf)
  IN IF enabled \/ Len(tty) <= free THEN Len(tty) ELSE free

\* Variant: readLine reads whatever is there.
InputUnlimited ==
  /\ pc = "input"
  /\ buf' = IF "tty" \in ready THEN buf \o tty ELSE buf
  /\ tty' = IF "tty" \in ready THEN <<>> ELSE tty
  /\ eof' = (eof \/ ("tty" \in ready /\ tty = <<>>))
  /\ IF event # "none" THEN pc' = "handle" /\ prefer' = TRUE
                       ELSE pc' = "top" /\ UNCHANGED prefer
  /\ ready' = {} /\ resized' = FALSE
  /\ UNCHANGED <<flags, pipe, hungUp, pasteActive, escapePending, event, phase,
                 client, rpc, counts>>

Input ==
  /\ pc = "input"
  /\ IF "tty" \in ready
     THEN /\ buf' = buf \o SubSeq(tty, 1, Readable)
          /\ tty' = SubSeq(tty, Readable + 1, Len(tty))
          /\ eof' = (eof \/ tty = <<>>)
     ELSE UNCHANGED <<buf, tty, eof>>
  /\ IF event # "none" THEN pc' = "handle" /\ prefer' = TRUE
                       ELSE pc' = "top" /\ UNCHANGED prefer
  /\ ready' = {} /\ resized' = FALSE
  /\ UNCHANGED <<flags, pipe, hungUp, pasteActive, escapePending, event, phase,
                 client, rpc, counts>>

-----------------------------------------------------------------------------
(* The rest of readLine.                                                   *)

\* The first place i of seq with a key of set.
FirstAt(seq, i, set) ==
  /\ i \in DOMAIN seq /\ seq[i] \in set
  /\ \A j \in 1..(i - 1) : seq[j] \notin set

After(seq, i) == SubSeq(seq, i + 1, Len(seq))

\* A line was read.  It may be refused, or the request made of the last one may
\* not be written.
NextLine ==
  /\ linesLeft' = linesLeft - 1
  /\ \/ pc' = IF linesLeft = 1 THEN "authenticate" ELSE "top"
     \/ pc' = "finish"
  /\ UNCHANGED enabled

ReadLine ==
  /\ pc = "work" /\ ~enabled
  /\ \/ /\ workPending
        /\ pc' = "flush"
        /\ workPending' = FALSE
        /\ UNCHANGED <<buf, phase>>
     \/ /\ ~workPending
        /\ \E i \in DOMAIN buf :
             /\ FirstAt(buf, i, {"newline"})
             /\ IF i - 1 > MaxLineBytes
                THEN pc' = "finish" /\ UNCHANGED <<buf, phase>>
                ELSE NextLine /\ buf' = After(buf, i)
        /\ UNCHANGED workPending
     \/ /\ ~workPending
        /\ \A i \in DOMAIN buf : buf[i] # "newline"
        /\ IF Len(buf) > MaxLineBytes \/ (eof /\ buf = <<>>)
           THEN pc' = "finish" /\ UNCHANGED <<buf, phase>>
           ELSE IF eof THEN NextLine /\ buf' = <<>>
           ELSE pc' = "poll" /\ UNCHANGED <<buf, phase>>
        /\ UNCHANGED workPending
  /\ UNCHANGED <<interrupted, pipe, terminal, eof, pasteActive, prefer, escapePending,
                 polled, event, client, rpc, counts>>

\* readConsoleLine between two calls: before the UI runs nothing is queued.
FlushLine ==
  /\ pc = "flush" /\ ~enabled
  /\ pc' = IF stopping THEN "finish" ELSE "top"
  /\ UNCHANGED <<flags, pipe, terminal, input, polled, event, phase, client, rpc,
                 counts>>

-----------------------------------------------------------------------------
(* The rest of readPosixEvent.  pc = "work" stands for what it does after  *)
(* its test of interrupted and before it returns or polls.                 *)

\* While a paste goes on, all but what could be a part of its end mark moves to
\* pasteBuffer.
Kept == IF pasteActive /\ buf # <<>> THEN <<buf[Len(buf)]>> ELSE buf

EndsPaste(i) == pasteActive /\ FirstAt(buf, i, {"done"})

FinishPaste ==
  /\ enabled
  /\ \E i \in DOMAIN buf : EndsPaste(i) /\ buf' = After(buf, i)
  /\ pasteActive' = FALSE
  /\ Return("Key")
  /\ UNCHANGED <<flags, pipe, terminal, eof, prefer, escapePending, polled, phase,
                 client, rpc, counts>>

\* Work comes first unless the last event was a wake-up and input is buffered.
WorkFirst == workPending /\ (~prefer \/ Kept = <<>>)

TakeWork ==
  /\ enabled
  /\ \A i \in DOMAIN buf : ~EndsPaste(i)
  /\ WorkFirst
  /\ workPending' = FALSE
  /\ prefer' = TRUE
  /\ buf' = Kept
  /\ Return("WorkAvailable")
  /\ UNCHANGED <<interrupted, pipe, terminal, eof, pasteActive, escapePending, polled,
                 phase, client, rpc, counts>>

\* Variant: the end of the input is not told.
AwaitInputForever ==
  /\ enabled
  /\ \A i \in DOMAIN buf : ~EndsPaste(i)
  /\ ~WorkFirst
  /\ pasteActive \/ buf = <<>>
  /\ buf' = Kept
  /\ Goto("work", "poll")
  /\ UNCHANGED <<flags, pipe, terminal, eof, pasteActive, prefer, escapePending, polled,
                 event, phase, client, rpc, counts>>

\* Nothing to decode: the end of the input, or wait.
AwaitInput ==
  /\ enabled
  /\ \A i \in DOMAIN buf : ~EndsPaste(i)
  /\ ~WorkFirst
  /\ pasteActive \/ buf = <<>>
  /\ buf' = Kept
  /\ IF eof /\ Kept = <<>> /\ ~pasteActive
     THEN Return("EndOfFile")
     ELSE Goto("work", "poll") /\ UNCHANGED event
  /\ UNCHANGED <<flags, pipe, terminal, eof, pasteActive, prefer, escapePending, polled,
                 phase, client, rpc, counts>>

\* The input begins with key, and it is its turn.
Decoding(key) ==
  /\ enabled /\ ~pasteActive /\ ~WorkFirst
  /\ buf # <<>> /\ Head(buf) = key
  /\ prefer' = FALSE
  /\ UNCHANGED <<flags, pipe, terminal, eof, polled, phase, client, rpc, counts>>

\* The input may go on: wait for it, an escape sequence for 50 ms only.
WaitForRest ==
  /\ Goto("work", "poll")
  /\ escapePending' = (escapePending \/ Head(buf) \in {"escape", "csi"})
  /\ UNCHANGED <<buf, pasteActive, event>>

DecodeSingle(key) ==
  /\ Decoding(key)
  /\ key \in {"key", "newline", "exit", "done"}
  /\ buf' = Tail(buf)
  /\ escapePending' = (escapePending /\ key # "done")
  /\ Return(IF key = "exit" THEN "Exit" ELSE "Key")
  /\ UNCHANGED pasteActive

StartPaste ==
  /\ Decoding("paste")
  /\ buf' = Tail(buf)
  /\ pasteActive' = TRUE
  /\ escapePending' = FALSE
  /\ Goto("work", "top")
  /\ UNCHANGED event

\* The bytes that would complete the character are none of Key.
DecodeLead ==
  /\ Decoding("lead")
  /\ \/ Len(buf) = 1 /\ WaitForRest
     \/ /\ Len(buf) > 1
        /\ buf' = Tail(buf)
        /\ Return("Key")
        /\ UNCHANGED <<pasteActive, escapePending>>

\* Variant: ESC is taken out of the input, its deadline stays.
DecodeEscapeKeepsDeadline ==
  /\ Decoding("escape")
  /\ \/ Len(buf) = 1 /\ WaitForRest
     \/ /\ Len(buf) > 1
        /\ buf' = Tail(buf)
        /\ Return("Key")
        /\ UNCHANGED <<pasteActive, escapePending>>

DecodeEscape ==
  /\ Decoding("escape")
  /\ \/ Len(buf) = 1 /\ WaitForRest
     \/ /\ Len(buf) > 1
        /\ buf' = Tail(buf)
        /\ escapePending' = FALSE
        /\ Return("Key")
        /\ UNCHANGED pasteActive

\* The deadline of an ESC alone in the input has passed.
EscapeExpires ==
  /\ Decoding("escape")
  /\ Len(buf) = 1 /\ escapePending
  /\ buf' = <<>>
  /\ escapePending' = FALSE
  /\ Return("Key")
  /\ UNCHANGED pasteActive

\* The keys whose bytes hold one that ends a control sequence.
Ending == {"key", "csi", "paste", "done"}

\* What is left when a control sequence ends in key i: the rest of a mark is text.
AfterSequence(i) ==
  (IF buf[i] \in {"paste", "done"} THEN <<"key">> ELSE <<>>) \o After(buf, i)

EndsSequence(i) ==
  /\ 1 < i /\ i <= MaxSequence /\ buf[i] \in Ending
  /\ \A j \in 2..(i - 1) : buf[j] \notin Ending

DecodeSequence ==
  /\ Decoding("csi")
  /\ \/ /\ \E i \in DOMAIN buf : EndsSequence(i) /\ buf' = AfterSequence(i)
        /\ escapePending' = FALSE
        /\ Return("Key")
        /\ UNCHANGED pasteActive
     \/ /\ \A i \in DOMAIN buf : ~EndsSequence(i)
        /\ Len(buf) >= MaxSequence
        /\ buf' = After(buf, MaxSequence)
        /\ escapePending' = FALSE
        /\ Return("Key")
        /\ UNCHANGED pasteActive
     \/ /\ \A i \in DOMAIN buf : ~EndsSequence(i)
        /\ Len(buf) < MaxSequence
        /\ WaitForRest

\* poll returns for the deadline of an escape sequence: its ESC is a key.
PollTimesOut ==
  /\ Goto("poll", "handle")
  /\ escapePending
  /\ ~TtyReady /\ pipe = <<>>
  /\ escapePending' = FALSE
  /\ buf' = (IF Head(buf) = "csi" THEN <<"key">> ELSE <<>>) \o Tail(buf)
  /\ event' = "Key"
  /\ UNCHANGED <<flags, pipe, terminal, eof, pasteActive, prefer, polled, phase,
                 client, rpc, counts>>

Decode ==
  \/ FinishPaste \/ TakeWork \/ AwaitInput \/ StartPaste \/ DecodeLead
  \/ DecodeEscape \/ EscapeExpires \/ DecodeSequence
  \/ \E key \in Key : DecodeSingle(key)

-----------------------------------------------------------------------------
(* The start of the client and the loop of its UI.                         *)

\* The server answered SUCCESS; the receiver may go on.
Authenticated ==
  /\ Goto("authenticate", "synchronize")
  /\ enabled' = TRUE
  /\ UNCHANGED <<flags, pipe, terminal, input, polled, event, linesLeft, client, rpc,
                 counts>>

\* FAIL, or the connection was stopped.
NotAuthenticated ==
  /\ Goto("authenticate", "finish")
  /\ UNCHANGED <<flags, pipe, terminal, input, polled, event, phase, client, rpc,
                 counts>>

StartPendingSynchronization ==
  /\ Goto("synchronize", "consume")
  /\ requests' = requests + 1
  /\ NotifyWork
  /\ UNCHANGED <<interrupted, terminal, input, polled, event, phase, work, dirty,
                 stopping, rpc, counts>>

\* processEvent.  A key may change the screen or not, or begin an operation; a
\* failure is ignored while the terminal is too small.
Handle ==
  /\ pc = "handle"
  /\ \/ /\ event \in {"Interrupted", "EndOfFile", "Exit", "Failure"}
        /\ pc' = "finish"
        /\ UNCHANGED dirty
     \/ /\ event \in {"Key", "Failure"}
        /\ pc' = "consume"
        /\ dirty' \in {dirty, TRUE}
     \/ /\ event = "Key"
        /\ pc' = "submit"
        /\ UNCHANGED dirty
     \/ /\ event \in {"Redraw", "WorkAvailable"}
        /\ pc' = "consume"
        /\ dirty' = TRUE
  /\ event' = "none"
  /\ UNCHANGED <<flags, pipe, terminal, input, polled, phase, work, requests, stopping,
                 rpc, counts>>

\* The UI writes a request of its own: for a key, or to learn a group's name.
Submitting(onKey, onName) ==
  \/ pc = "submit" /\ pc' = onKey
  \/ pc = "submitName" /\ pc' = onName

OperationWritten ==
  /\ Submitting("consume", "top")
  /\ ~stopping
  /\ dirty' = TRUE
  /\ UNCHANGED <<flags, pipe, terminal, input, polled, event, phase, work, requests,
                 stopping, rpc, counts>>

\* The write fails, or the UI stops the client because its own state is inconsistent:
\* its loop ends, after scheduleNameWork with the event to be read next.
OperationFails ==
  /\ Submitting("finish", "top")
  /\ RequestStop
  /\ dirty' = TRUE
  /\ UNCHANGED <<terminal, input, polled, event, phase, work, requests, rpc, counts>>

\* consumeResponse: a response that makes no sense stops the client.
ConsumeResponse ==
  /\ Goto("consume", "check")
  /\ work' = work \ {"response"}
  /\ dirty' = (dirty \/ "response" \in work)
  /\ \/ "response" \in work /\ RequestStop
     \/ UNCHANGED <<flags, pipe, stopping>>
  /\ UNCHANGED <<terminal, input, polled, event, phase, requests, rpc, counts>>

CheckStopping ==
  /\ pc = "check"
  /\ pc' = IF stopping THEN "finish" ELSE "present"
  /\ UNCHANGED <<flags, pipe, terminal, input, polled, event, phase, client, rpc, counts>>

\* The screen is drawn when it is dirty, when the buffer has another version, or when
\* the terminal became too small or large enough; the latest diagnostic with it.
Present ==
  /\ Goto("present", "flush")
  /\ \/ work' = work \ {"message", "diagnostic"}
     \/ ~dirty /\ "message" \notin work /\ UNCHANGED work
  /\ dirty' = FALSE
  /\ UNCHANGED <<flags, pipe, terminal, input, polled, event, phase, requests,
                 stopping, rpc, counts>>

\* flushAutomaticRequests(1) takes the first request.
Flush ==
  /\ pc = "flush" /\ enabled
  /\ IF stopping THEN pc' = "finish" /\ UNCHANGED requests
     ELSE IF requests = 0 THEN pc' = "names" /\ UNCHANGED requests
     ELSE pc' = "write" /\ requests' = requests - 1
  /\ UNCHANGED <<flags, pipe, terminal, input, polled, event, phase, work, dirty,
                 stopping, rpc, counts>>

WriteRequest ==
  /\ Goto("write", "more")
  /\ ~stopping
  /\ UNCHANGED <<flags, pipe, terminal, input, polled, event, phase, client, rpc,
                 counts>>

WriteFails ==
  /\ Goto("write", "finish")
  /\ RequestStop
  /\ UNCHANGED <<terminal, input, polled, event, phase, work, requests, dirty, rpc,
                 counts>>

\* Variant: what is left in the queue waits for the next notification.
MoreUnannounced ==
  /\ pc = "more"
  /\ pc' = IF stopping THEN "finish" ELSE "names"
  /\ UNCHANGED <<flags, pipe, terminal, input, polled, event, phase, client, rpc,
                 counts>>

\* flushAutomaticRequests announces the requests it leaves in the queue.
More ==
  /\ pc = "more"
  /\ pc' = IF stopping THEN "finish" ELSE "names"
  /\ IF ~stopping /\ requests > 0 THEN NotifyWork ELSE UNCHANGED <<workPending, pipe>>
  /\ UNCHANGED <<interrupted, terminal, input, polled, event, phase, client, rpc,
                 counts>>

\* With no operation pending, a group's name may have to be asked for.
ScheduleNameWork ==
  /\ pc = "names"
  /\ \/ pc' = "top"
     \/ ~stopping /\ pc' = "submitName"
  /\ UNCHANGED <<flags, pipe, terminal, input, polled, event, phase, client, rpc,
                 counts>>

\* finishConnection: stop, join the receiver, close.
Finish ==
  /\ Goto("finish", "join")
  /\ RequestStop
  /\ UNCHANGED <<terminal, input, polled, event, phase, work, requests, dirty, rpc,
                 counts>>

Join ==
  /\ Goto("join", "ended")
  /\ rpc = "gone"
  /\ UNCHANGED <<flags, pipe, terminal, input, polled, event, phase, client, rpc,
                 counts>>

-----------------------------------------------------------------------------
(* The receiver thread, the signal handler and the terminal.               *)

\* News for the UI, then notifyWork.  Before the UI runs, only diagnostics.
LeaveNews(kind) ==
  /\ rpc = "receive" /\ rpc' = "notify"
  /\ MayHappen /\ posted < MaxPosts /\ posted' = posted + 1
  /\ kind \in IF enabled THEN News ELSE {"diagnostic"}
  /\ work' = work \cup {kind}
  /\ UNCHANGED <<flags, pipe, terminal, input, pc, polled, event, phase, requests,
                 dirty, stopping, typed, resizes>>

\* An acknowledgement or a request for a page, then notifyAutomaticRequest.
QueueRequest ==
  /\ rpc = "receive" /\ rpc' = "notify"
  /\ enabled
  /\ MayHappen /\ posted < MaxPosts /\ posted' = posted + 1
  /\ requests' = requests + 1
  /\ UNCHANGED <<flags, pipe, terminal, input, pc, polled, event, phase, work, dirty,
                 stopping, typed, resizes>>

\* Variant: the flag is set and no byte is written.
ReceiverNotifiesByFlag ==
  /\ rpc = "notify" /\ rpc' = "receive"
  /\ workPending' = TRUE
  /\ UNCHANGED <<interrupted, pipe, terminal, input, pc, polled, event, phase, client,
                 counts>>

\* notifyWork: the exchange of the flag, and the byte if it was not set.
ReceiverNotifies ==
  /\ rpc = "notify"
  /\ rpc' = IF workPending THEN "receive" ELSE "notifyByte"
  /\ workPending' = TRUE
  /\ UNCHANGED <<interrupted, pipe, terminal, input, pc, polled, event, phase, client,
                 counts>>

ReceiverWakes ==
  /\ rpc = "notifyByte" /\ rpc' = "receive"
  /\ WriteWakeByte("W")
  /\ UNCHANGED <<flags, terminal, input, pc, polled, event, phase, client, counts>>

\* Variant: the connection is stopped and nobody is told.
ReceiverStopsSilently ==
  /\ rpc = "receive" /\ rpc' = "gone"
  /\ stopping' = TRUE
  /\ UNCHANGED <<flags, pipe, terminal, input, pc, polled, event, phase, work, requests,
                 dirty, counts>>

\* The connection ended or failed: requestStop, unless it was called already.
ReceiverStops ==
  /\ rpc = "receive"
  /\ rpc' = IF stopping THEN "gone" ELSE "interrupt"
  /\ stopping' = TRUE
  /\ UNCHANGED <<flags, pipe, terminal, input, pc, polled, event, phase, work, requests,
                 dirty, counts>>

\* Variant: the byte is written before the flag is set.
ReceiverInterruptsLate ==
  /\ \/ /\ rpc = "interrupt" /\ rpc' = "interruptByte"
        /\ WriteWakeByte("I")
        /\ UNCHANGED interrupted
     \/ /\ rpc = "interruptByte" /\ rpc' = "receive"
        /\ interrupted' = TRUE
        /\ UNCHANGED pipe
  /\ UNCHANGED <<workPending, terminal, input, pc, polled, event, phase, client, counts>>

\* interrupt: the flag first, then the byte.  The frame at hand is still finished.
ReceiverInterrupts ==
  /\ \/ /\ rpc = "interrupt" /\ rpc' = "interruptByte"
        /\ interrupted' = TRUE
        /\ UNCHANGED pipe
     \/ /\ rpc = "interruptByte" /\ rpc' = "receive"
        /\ WriteWakeByte("I")
        /\ UNCHANGED interrupted
  /\ UNCHANGED <<workPending, terminal, input, pc, polled, event, phase, client, counts>>

\* resizeSignalHandler.
Resize ==
  /\ enabled
  /\ MayHappen /\ resizes < MaxResizes /\ resizes' = resizes + 1
  /\ WriteWakeByte("R")
  /\ UNCHANGED <<flags, terminal, input, pc, polled, event, phase, client, rpc, typed,
                 posted>>

Type(key) ==
  /\ MayHappen /\ typed < MaxTyped /\ typed' = typed + 1
  /\ ~hungUp
  /\ tty' = Append(tty, key)
  /\ UNCHANGED <<flags, pipe, hungUp, input, pc, polled, event, phase, client, rpc,
                 posted, resizes>>

HangUp ==
  /\ ~hungUp /\ hungUp' = TRUE
  /\ UNCHANGED <<flags, pipe, tty, input, pc, polled, event, phase, client, rpc,
                 counts>>

-----------------------------------------------------------------------------

\* The steps the main thread takes by itself.
Main ==
  \/ Top \/ Poll \/ PollTimesOut \/ Drain \/ Judge \/ JudgeLine \/ Input
  \/ ReadLine \/ FlushLine \/ Decode
  \/ StartPendingSynchronization \/ Handle \/ ConsumeResponse \/ CheckStopping
  \/ Present \/ Flush \/ More \/ ScheduleNameWork \/ Finish \/ Join

\* The steps that take another party: the server, the network, the system.
MainAnswered ==
  \/ Authenticated \/ NotAuthenticated \/ WriteRequest \/ WriteFails
  \/ OperationWritten \/ OperationFails \/ PollIsInterrupted \/ PollFails

Receiver ==
  \/ \E kind \in News : LeaveNews(kind)
  \/ QueueRequest \/ ReceiverNotifies \/ ReceiverWakes
  \/ ReceiverStops \/ ReceiverInterrupts

Environment == Resize \/ HangUp \/ \E key \in Keys : Type(key)

Next == Main \/ MainAnswered \/ Receiver \/ Environment

Spec == Init /\ [][Next]_vars

-----------------------------------------------------------------------------
(* Safety.                                                                 *)

\* The types, among them the bound on what readLine buffers.
TypeOK ==
  /\ interrupted \in BOOLEAN /\ workPending \in BOOLEAN
  /\ pipe \in Seq({"W", "I", "R"}) /\ Len(pipe) <= PipeCapacity
  /\ tty \in Seq(Key) /\ buf \in Seq(Key)
  /\ hungUp \in BOOLEAN /\ eof \in BOOLEAN
  /\ pasteActive \in BOOLEAN /\ prefer \in BOOLEAN /\ escapePending \in BOOLEAN
  /\ pc \in Pc /\ ready \subseteq {"tty", "pipe"} /\ resized \in BOOLEAN
  /\ event \in Event \cup {"none"}
  /\ linesLeft \in 0..Lines /\ enabled \in BOOLEAN
  /\ work \subseteq News /\ requests \in Nat
  /\ dirty \in BOOLEAN /\ stopping \in BOOLEAN
  /\ rpc \in {"receive", "notify", "notifyByte", "interrupt", "interruptByte", "gone"}
  /\ typed \in Nat /\ posted \in Nat /\ resizes \in Nat
  /\ ~enabled => Len(buf) <= MaxLineBytes + 1

\* No wake-up is lost: when the main thread waits with an empty pipe and nobody is
\* about to write to it, the UI has taken all news and has written all requests.
\* Input that ends within a character, a sequence or a paste is the exception:
\* then preferBufferedInput holds work back until more is typed.
NoLostWakeup ==
  pc = "poll" /\ enabled /\ pipe = <<>> /\ rpc \notin {"notify", "notifyByte"}
    => buf # <<>> \/ (work = {} /\ requests = 0 /\ ~workPending)

\* An interrupt is never held back, whatever is in the input: the thread does not
\* wait once the flag is set and the byte was written.
InterruptIsDue ==
  pc = "poll" /\ interrupted => pipe # <<>> \/ rpc = "interruptByte"

\* The first byte of the input, which is taken out when the deadline of an escape
\* sequence passes, is the ESC the deadline was set for, and no byte of a paste.
DeadlineHasEscape ==
  escapePending => /\ buf # <<>> /\ Head(buf) \in {"escape", "csi"}
                   /\ ~pasteActive

-----------------------------------------------------------------------------
(* Liveness.                                                               *)

\* Both threads run; requestStop shuts the socket down, which ends the waits for
\* the server: a stopped write fails, a stopped authentication ends, a stopped
\* receiver returns from its read.  A deadline that the thread looks at again and
\* again passes, and a poll that is repeated is not interrupted for ever.
FairSpec ==
  /\ Spec
  /\ WF_vars(Main)
  /\ WF_vars(stopping /\ (NotAuthenticated \/ WriteFails \/ OperationFails))
  /\ WF_vars(ReceiverNotifies \/ ReceiverWakes \/ ReceiverInterrupts)
  /\ WF_vars(stopping /\ ReceiverStops)
  /\ SF_vars(EscapeExpires) /\ SF_vars(Poll \/ PollTimesOut)

\* The server also takes what is written to it.
ServerDrains == WF_vars(WriteRequest \/ OperationWritten)

\* A stopped connection ends the client: the main thread leaves every wait, and
\* joins the receiver.
StopEndsClient == stopping ~> pc = "ended"

\* What is buffered begins a character or a paste that was not completed.
Partial == pasteActive \/ \E i \in DOMAIN buf : buf[i] \in {"lead", "paste"}

\* The end of the input ends the UI, was preceded by an authentication that the
\* server never answered, or cut off a character or a paste.
HangUpEndsClient ==
  ServerDrains =>
    (hungUp ~> \/ pc \in {"ended", "authenticate"}
               \/ tty = <<>> /\ Partial)

\* Whatever the receiver leaves, news or requests, is taken by the UI while the
\* connection lasts, with input typed or not; what is typed in part may hold it
\* back.
WorkIsTaken ==
  ServerDrains =>
    /\ \A kind \in News :
         enabled /\ kind \in work ~> kind \notin work \/ stopping \/ Partial
    /\ enabled /\ requests > 0 ~> requests = 0 \/ stopping \/ Partial
=============================================================================
