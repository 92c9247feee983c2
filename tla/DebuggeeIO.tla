------------------------------ MODULE DebuggeeIO ------------------------------
(***************************************************************************)
(* The view's waitForDebugee, its input line and the two pipes: how the    *)
(* debugger stands between the terminal and a process that runs.           *)
(*                                                                         *)
(* Three parties act at their own pace: the user, the process, and the     *)
(* debugger, whose one thread takes turns while the process runs: ask      *)
(* waitpid, read keys, pass on an entered line, show output.  at says      *)
(* where it is.  All that the rest of the debugger does between two waits  *)
(* is one step: it lets the process go on, any number of times within a    *)
(* command, or asks for the next command.                                  *)
(***************************************************************************)
EXTENDS Naturals, Sequences, SequencesExt

CONSTANTS
  Letters,         \* what is typed and printed, besides Enter and newline
  Sessions,        \* [texts, letters, output]: what a program writes at a time, and
                   \* bounds on the letters typed and the characters written
  OutSize,         \* capacity of the pipe from the process
  InSize,          \* capacity of the pipe to the process
  Columns          \* width of the input window

Newline == "nl"
Texts == UNION {s.texts : s \in Sessions}

\* A pipe holds any line and any text that is written at once.
ASSUME SizesAssumption == /\ OutSize \in Nat /\ \A t \in Texts : Len(t) <= OutSize
                          /\ InSize \in Nat /\ Columns \in 2 .. InSize + 1
                          /\ \A s \in Sessions : s.letters \in Nat /\ s.output \in Nat
ASSUME LettersAssumption == Newline \notin Letters
ASSUME TextsAssumption == Texts \subseteq Seq(Letters \cup {Newline}) /\ <<>> \notin Texts

VARIABLES
  session,
  process,         \* "running", "stopped", "exited"
  out, in,         \* contents of the two pipes
  mReadBuf,        \* read from the pipe and not yet asked for
  line,            \* what getline has so far
  mOutput,         \* lines to display
  mInputWindow,    \* what has been typed and not entered
  request,         \* the line that is being sent
  res,             \* what waitpid has returned
  mRunning,
  at,              \* "prompt", "command", "waitpid", "input", "send", "drain", "killed"
  printed,         \* history: all that the process has got into the pipe
  overflow,        \* history: a write has found no room
  typed,           \* history: all letters typed
  entered,         \* history: entered lines, [to, text]
  taken            \* history: what the process has read

processVars == <<session, process, in, out, printed, overflow, taken>>
outputVars == <<mReadBuf, line, mOutput>>
inputVars == <<mInputWindow, request, typed, entered>>
vars == <<processVars, outputVars, inputVars, res, mRunning, at>>

\* run() waits for the first breakpoint before it asks for a command.
Init ==
  /\ session \in Sessions
  /\ process = "running" /\ out = <<>> /\ in = <<>>
  /\ mReadBuf = <<>> /\ line = <<>> /\ mOutput = <<>>
  /\ mInputWindow = <<>> /\ request = <<>>
  /\ res = "none" /\ mRunning = TRUE /\ at = "waitpid"
  /\ printed = <<>> /\ overflow = FALSE /\ typed = <<>> /\ entered = <<>> /\ taken = <<>>

-----------------------------------------------------------------------------
(***************************************************************************)
(* The process.  Its standard output is a pipe opened with O_NONBLOCK: a   *)
(* short text that does not fit is refused, and the compiled program looks *)
(* at no result of sys_write.  Its standard input blocks.                  *)
(***************************************************************************)
\* Mutant: all is taken.
WriteAll(text) ==
  /\ process = "running"
  /\ Len(printed) + Len(text) <= session.output
  /\ out' = out \o text /\ printed' = printed \o text
  /\ UNCHANGED <<session, process, in, overflow, taken, outputVars, inputVars, res,
                 mRunning, at>>
Write(text) ==
  /\ process = "running"
  /\ Len(printed) + Len(text) <= session.output
  /\ IF Len(out) + Len(text) <= OutSize
     THEN out' = out \o text /\ printed' = printed \o text /\ UNCHANGED overflow
     ELSE overflow' = TRUE /\ UNCHANGED <<out, printed>>
  /\ UNCHANGED <<session, process, in, taken, outputVars, inputVars, res,
                 mRunning, at>>

Read ==
  /\ process = "running"
  /\ \E n \in 1 .. Len(in) : /\ taken' = taken \o SubSeq(in, 1, n)
                           /\ in' = SubSeq(in, n + 1, Len(in))
  /\ UNCHANGED <<session, process, out, printed, overflow, outputVars, inputVars,
                 res, mRunning, at>>

\* A signal, the end of a single step, or exit.
Halt(how) ==
  /\ process = "running"
  /\ process' = how
  /\ UNCHANGED <<session, out, in, printed, overflow, taken, outputVars, inputVars,
                 res, mRunning, at>>

-----------------------------------------------------------------------------
(***************************************************************************)
(* getInputString.  A key is pressed when it is read: until then nothing    *)
(* depends on it.  The window is the same at the prompt and while the      *)
(* process runs, and keeps what was not entered.  Blanks at the end of a   *)
(* line are dropped, so a blank line counts as empty.  Moving in the line  *)
(* and deleting are left out.  getStringFromWindow overlooks the last      *)
(* column (ncursesHelpers.cpp:53): the user does not type there.           *)
(***************************************************************************)
Goto(place) == at' = place
Type(k) == /\ Len(typed) < session.letters
           /\ Len(mInputWindow) + 1 < Columns
           /\ typed' = Append(typed, k)
           /\ mInputWindow' = Append(mInputWindow, k)
           /\ UNCHANGED <<request, entered, at>>
EnterLine(to) == /\ mInputWindow' = <<>>
                 /\ entered' = IF mInputWindow = <<>> THEN entered
                               ELSE Append(entered, [to |-> to, text |-> mInputWindow])
                 /\ UNCHANGED typed

Prompt ==
  /\ at = "prompt"
  /\ \/ \E k \in Letters : Type(k)
     \/ /\ mInputWindow # <<>>
        /\ EnterLine("debugger")
        /\ Goto("command") /\ UNCHANGED request
  /\ UNCHANGED <<processVars, outputVars, res, mRunning>>

\* What a command does between two waits, or after the last: one that steps lets the
\* process run once for every instruction.  None does once the process has ended.
Command ==
  /\ at = "command"
  /\ \/ Goto("prompt") /\ UNCHANGED process
     \/ mRunning /\ Goto("waitpid") /\ process' = "running"
  /\ UNCHANGED <<session, out, in, printed, overflow, taken, outputVars, inputVars, res,
                 mRunning>>

-----------------------------------------------------------------------------
\* One turn of waitForDebugee; after the last one, wait() notices an exit.
\* Mutant: the last turn ends where it has begun.
Leave(how) == Goto("command") /\ mRunning' = (how # "exited")
WaitPidLeaves ==
  /\ at = "waitpid"
  /\ res' = IF process = "running" THEN "none" ELSE process
  /\ IF process = "running" THEN Goto("input") /\ UNCHANGED mRunning ELSE Leave(process)
  /\ UNCHANGED <<processVars, outputVars, inputVars>>
WaitPid ==
  /\ at = "waitpid"
  /\ res' = IF process = "running" THEN "none" ELSE process
  /\ Goto("input")
  /\ UNCHANGED <<processVars, outputVars, inputVars, mRunning>>

\* Without a key the window stays as it is.  Mutant: it is cleared.
InputEntered == /\ EnterLine("process")
                /\ request' = mInputWindow
                /\ Goto(IF mInputWindow = <<>> THEN "drain" ELSE "send")
InputClears ==
  /\ at = "input"
  /\ \/ \E k \in Letters : Type(k)
     \/ InputEntered
     \/ Goto("drain") /\ mInputWindow' = <<>> /\ UNCHANGED <<typed, request, entered>>
  /\ UNCHANGED <<processVars, outputVars, res, mRunning>>
Input ==
  /\ at = "input"
  /\ \/ \E k \in Letters : Type(k)
     \/ InputEntered
     \/ Goto("drain") /\ UNCHANGED inputVars
  /\ UNCHANGED <<processVars, outputVars, res, mRunning>>

\* sendString: blocks while there is no room.  When the process is gone nobody
\* can read the pipe, and SIGPIPE ends the debugger.
\* Mutant: the pipe does not block either, and a line without room is lost.
HasRoom == Len(in) + Len(request) <= InSize
SendLoses ==
  /\ at = "send"
  /\ IF process = "exited" THEN Goto("killed") /\ UNCHANGED <<in, request>>
     ELSE /\ in' = IF HasRoom THEN in \o request ELSE in
          /\ request' = <<>>
          /\ Goto("drain")
  /\ UNCHANGED <<session, process, out, printed, overflow, taken, outputVars, mInputWindow,
                 typed, entered, res, mRunning>>
Send ==
  /\ at = "send"
  /\ \/ process = "exited" /\ Goto("killed") /\ UNCHANGED <<in, request>>
     \/ /\ process # "exited" /\ HasRoom
        /\ in' = in \o request
        /\ request' = <<>>
        /\ Goto("drain")
  /\ UNCHANGED <<session, process, out, printed, overflow, taken, outputVars, mInputWindow,
                 typed, entered, res, mRunning>>

(***************************************************************************)
(* getLine, again and again until it returns nothing.  getline takes what  *)
(* is buffered, reads the pipe when that has no newline, and gives up with *)
(* what it has when the pipe is empty, so a line that is still being       *)
(* written is cut in two.                                                  *)
(***************************************************************************)
\* Mutant: an exit does not end the loop.
TurnEndsMissesExit ==
  IF res # "stopped" THEN Goto("waitpid") /\ UNCHANGED mRunning ELSE Leave(res)
TurnEnds == IF res = "none" THEN Goto("waitpid") /\ UNCHANGED mRunning ELSE Leave(res)

Got(s) ==
  /\ line' = <<>>
  /\ IF s = <<>> THEN TurnEnds /\ UNCHANGED mOutput
     ELSE mOutput' = Append(mOutput, s) /\ UNCHANGED <<mRunning, at>>

\* Mutant: a buffered line without its end is thrown away.
DrainDrops ==
  /\ at = "drain"
  /\ IF Newline \in Range(mReadBuf)
     THEN LET n == SelectInSeq(mReadBuf, LAMBDA c : c = Newline) IN
          /\ Got(line \o SubSeq(mReadBuf, 1, n - 1))
          /\ mReadBuf' = SubSeq(mReadBuf, n + 1, Len(mReadBuf))
          /\ UNCHANGED out
     ELSE IF out # <<>>
     THEN mReadBuf' = out /\ out' = <<>> /\ UNCHANGED <<line, mOutput, mRunning, at>>
     ELSE Got(line \o mReadBuf) /\ mReadBuf' = <<>> /\ UNCHANGED out
  /\ UNCHANGED <<session, process, in, printed, overflow, taken, inputVars, res>>
Drain ==
  /\ at = "drain"
  /\ IF Newline \in Range(mReadBuf)
     THEN LET n == SelectInSeq(mReadBuf, LAMBDA c : c = Newline) IN
          /\ Got(line \o SubSeq(mReadBuf, 1, n - 1))
          /\ mReadBuf' = SubSeq(mReadBuf, n + 1, Len(mReadBuf))
          /\ UNCHANGED out
     ELSE IF out # <<>>
     THEN line' = line \o mReadBuf /\ mReadBuf' = out /\ out' = <<>>
          /\ UNCHANGED <<mOutput, mRunning, at>>
     ELSE Got(line \o mReadBuf) /\ mReadBuf' = <<>> /\ UNCHANGED out
  /\ UNCHANGED <<session, process, in, printed, overflow, taken, inputVars, res>>

-----------------------------------------------------------------------------
Process == \/ \E text \in session.texts : Write(text)
           \/ Read
           \/ \E how \in {"stopped", "exited"} : Halt(how)
Turn == WaitPid \/ Input \/ Send \/ Drain
Next == Process \/ Prompt \/ Command \/ Turn

\* The debugger goes on with the turns of a wait.  The user need not press a key, and the
\* process need not do anything.
Spec == Init /\ [][Next]_vars /\ WF_vars(Turn)

-----------------------------------------------------------------------------
(***************************************************************************)
(* Properties.                                                             *)
(***************************************************************************)
LettersOf(s) ==
  FlattenSeq([i \in DOMAIN s |-> IF s[i] \in Letters THEN <<s[i]>> ELSE <<>>])
TextOf(lines) == FlattenSeq([i \in DOMAIN lines |-> lines[i].text])
TextTo(who, lines) ==
  FlattenSeq([i \in DOMAIN lines |-> IF lines[i].to = who THEN lines[i].text ELSE <<>>])
EndedLines(lines) == FlattenSeq([i \in DOMAIN lines |-> Append(lines[i], Newline)])

TypeOK ==
  /\ session \in Sessions
  /\ process \in {"running", "stopped", "exited"}
  /\ out \in Seq(Letters \cup {Newline}) /\ Len(out) <= OutSize
  /\ in \in Seq(Letters) /\ Len(in) <= InSize
  /\ mReadBuf \in Seq(Letters \cup {Newline})
  /\ line \in Seq(Letters) /\ mOutput \in Seq(Seq(Letters))
  /\ mInputWindow \in Seq(Letters) /\ Len(mInputWindow) < Columns
  /\ request \in Seq(Letters)
  /\ mRunning \in BOOLEAN /\ res \in {"none", "stopped", "exited"}
  /\ at \in {"prompt", "command", "waitpid", "input", "send", "drain", "killed"}
  /\ printed \in Seq(Letters \cup {Newline}) /\ overflow \in BOOLEAN
  /\ typed \in Seq(Letters) /\ taken \in Seq(Letters)
  /\ entered \in Seq([to : {"debugger", "process"}, text : Seq(Letters)])

Display == INSTANCE Stream WITH sent <- LettersOf(printed),
                                received <- FlattenSeq(mOutput) \o line
Typing == INSTANCE Stream WITH sent <- typed, received <- TextOf(entered)
Delivery == INSTANCE Stream WITH sent <- TextTo("process", entered), received <- taken

\* What the process has printed is displayed in its order, each character once,
\* however its lines are cut (debuggerview.cpp:449-455, debugeepipe.hpp:56-61).
DisplayInOrder == Display!Spec

\* What the user types reaches a command or the process in the order typed, each
\* letter once, no matter when the process stops (debuggerview.cpp:12-81).
TypingInOrder == Typing!Spec

\* The process reads the lines entered while it ran, and no command
\* (debuggerview.cpp:444-447, debugeepipe.hpp:63-66).
InputInOrder == Delivery!Spec

\* When the debugger asks for a command, all that the process printed before it
\* stopped is displayed, line by line: if it prints only whole lines, none of
\* them empty, and never more than the pipe holds (debuggerview.cpp:437-471).
WholeLines == \A t \in session.texts : /\ Len(t) > 1 /\ Last(t) = Newline
                               /\ Newline \notin Range(Front(t))
OutputShown ==
  at = "prompt" /\ WholeLines /\ ~overflow =>
    printed = EndedLines(mOutput)

\* Once the process has stopped or ended the wait ends, and the command that waited
\* goes on, unless the debugger is stuck in a full pipe that nobody reads, or is
\* itself ended by writing to a pipe without reader (debuggerview.cpp:440-468).
Stuck == at = "send" /\ process = "stopped" /\ ~HasRoom
Waiting == at \in {"waitpid", "input", "send", "drain"}
WaitEnds == (process # "running" /\ Waiting) ~> (at \in {"command", "killed"} \/ Stuck)
=============================================================================
