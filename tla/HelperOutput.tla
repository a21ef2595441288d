---------------------------- MODULE HelperOutput ----------------------------
(***************************************************************************)
(* What becomes of the output of a helper process (src/src/burn_engine.cpp)*)
(*                                                                         *)
(* A helper writes bytes into a pipe.  RunHiddenProcess reads them in      *)
(* chunks that end anywhere; each chunk goes to AppendLog, which keeps the *)
(* text of the burn log, and is cut into lines for the callback that reads *)
(* progress out of them.  Both must say the same however the bytes were    *)
(* cut: a CR LF or a line may be spread over two reads, or over a helper   *)
(* and a message of the engine itself.                                     *)
(*                                                                         *)
(* One token stands for a run of characters that the code treats alike:    *)
(* text; one of the eleven messages of cdrecord that mean nothing here     *)
(* ("noise"); the beginning of its countdown; what the engine says.        *)
(*                                                                         *)
(* X_<mistake> is X with a mistake somebody could make in that code, to be *)
(* put in the place of X when the property it breaks must be found         *)
(* violated.                                                               *)
(***************************************************************************)
EXTENDS Naturals, Sequences, SequencesExt

CONSTANTS
  ChunkSize,   \* chunk.size()
  MaxLog,      \* kMaximumLogBytes
  MaxBytes,    \* bound: what the helpers of one job write
  MaxLine,     \* bound: the longest line of a helper
  MaxHelpers   \* bound: helpers of one job

ASSUME BoundsAssumption ==
  /\ ChunkSize \in Nat \ {0} /\ MaxHelpers \in Nat
  /\ MaxBytes \in Nat /\ MaxLine \in Nat /\ MaxLog \in Nat
  /\ MaxLine < MaxLog /\ 3 <= MaxLog

CR == "\r"
LF == "\n"
Breaks == {CR, LF}

HelperBytes == {"text", "noise", "countdown", "backspace"} \union Breaks
EngineBytes == {"note", "error", "starting"}
Bytes       == HelperBytes \union EngineBytes

VARIABLES
  busy,         \* state_.busy
  stage,        \* how far the worker is: off, between helpers, in one, failing
  running,      \* does the helper still hold the write end of the pipe?
  pipe,         \* bytes written and not yet read
  pendingLine,  \* the local of RunHiddenProcess
  log,          \* state_.log
  pendingCR,    \* logPendingCarriageReturn_
  helpers,      \* helpers started by this job
  sent,         \* history: all that this helper wrote
  lines,        \* history: the lines given to onLine for this helper
  said,         \* history: all the text given to AppendLog since a reset
  truncated     \* history: has the log lost its beginning since then?

io      == <<running, pipe, pendingLine, sent, lines>>
screen  == <<log, pendingCR, said, truncated>>
vars    == <<busy, stage, helpers, io, screen>>

Init ==
  /\ busy = FALSE /\ stage = "off" /\ helpers = 0
  /\ running = FALSE /\ pipe = <<>> /\ pendingLine = <<>>
  /\ sent = <<>> /\ lines = <<>>
  /\ log = <<>> /\ pendingCR = FALSE /\ said = <<>> /\ truncated = FALSE

-----------------------------------------------------------------------------
(* AppendLog                                                               *)

\* eraseCurrentLogLine: all that follows the last LF
EraseLine(s) ==
  LET ends == {i \in DOMAIN s : s[i] = LF}
  IN  IF ends = {} THEN <<>> ELSE SubSeq(s, 1, Max(ends))

\* What byte i of text does to the log.  A CR at the end of the text waits for
\* the next call; before a LF it is dropped; any other one redraws the line.
Put_AnyCR(s, text, i) ==
  IF text[i] # CR THEN Append(s, text[i])
  ELSE IF i < Len(text) /\ text[i + 1] = LF THEN s
  ELSE EraseLine(s)

Put(s, text, i) ==
  IF text[i] # CR THEN Append(s, text[i])
  ELSE IF i = Len(text) \/ text[i + 1] = LF THEN s
  ELSE EraseLine(s)

\* The CR that was waiting: a newline if a LF is the next byte.
Resume(text) == IF pendingCR /\ Head(text) # LF THEN EraseLine(log) ELSE log

Draw(text) ==
  FoldLeft(LAMBDA s, i : Put(s, text, i), Resume(text),
           [i \in DOMAIN text |-> i])

\* Byte j is on the line of byte i; a line ends with its LF.
SameLine(s, i, j) ==
  \A k \in DOMAIN s :
    (i <= k /\ k < j) \/ (j <= k /\ k < i) => s[k] # LF

CompleteLineWith(s, i, b) ==
  /\ \E j \in DOMAIN s : s[j] = b /\ SameLine(s, i, j)
  /\ \E j \in DOMAIN s : s[j] = LF /\ i <= j

\* removeCompleteLineContaining for every benign message, the replacement of
\* the countdown, and the removal of backspaces
Cleaned(s, i) ==
  IF CompleteLineWith(s, i, "noise") THEN <<>>
  ELSE IF CompleteLineWith(s, i, "countdown")
       THEN IF s[i] = LF THEN <<"starting", CR, LF>> ELSE <<>>
  ELSE IF s[i] = "backspace" THEN <<>>
  ELSE <<s[i]>>

Clean(s) == FlattenSeq([i \in DOMAIN s |-> Cleaned(s, i)])

Truncate_Never(s) == s

Truncate(s) ==
  IF Len(s) > MaxLog THEN SubSeq(s, Len(s) - MaxLog + 1, Len(s)) ELSE s

AppendLog(text) ==
  /\ LET s == Clean(Draw(text))
     IN  /\ log' = Truncate(s)
         /\ truncated' = (truncated \/ Len(s) > MaxLog)
  /\ pendingCR' = (Last(text) = CR)
  /\ said' = said \o text

-----------------------------------------------------------------------------
(* RunHiddenProcess                                                        *)

StartHelper ==
  /\ stage = "between" /\ helpers < MaxHelpers
  /\ stage' = "running" /\ helpers' = helpers + 1
  /\ running' = TRUE /\ pipe' = <<>> /\ pendingLine' = <<>>
  /\ sent' = <<>> /\ lines' = <<>>
  /\ UNCHANGED <<busy, screen>>

\* The helper's own side of the pipe
LineLength(s) ==
  Len(s) - Max({0} \union {i \in DOMAIN s : s[i] \in Breaks})

HelperWrites ==
  /\ running
  /\ \E b \in HelperBytes :
       /\ Len(SelectSeq(said, LAMBDA c : c \in HelperBytes)) + Len(pipe)
            < MaxBytes
       /\ b \notin Breaks => LineLength(said \o pipe) < MaxLine
       /\ pipe' = Append(pipe, b) /\ sent' = Append(sent, b)
  /\ UNCHANGED <<busy, stage, helpers, running, pendingLine, lines, screen>>

HelperExits ==
  /\ running /\ running' = FALSE
  /\ UNCHANGED <<busy, stage, helpers, pipe, pendingLine, sent, lines, screen>>

\* The lines in a text, a line being what is not empty between two breaks, and
\* what follows the last break
Cut(text) ==
  FoldLeft(LAMBDA c, b :
             IF b \notin Breaks THEN [c EXCEPT !.rest = Append(@, b)]
             ELSE IF c.rest = <<>> THEN c
             ELSE [lines |-> Append(c.lines, c.rest), rest |-> <<>>],
           [lines |-> <<>>, rest |-> <<>>], text)

EmitLines_PerChunk(chunk) ==
  LET c == Cut(chunk)
  IN  /\ lines' = lines \o c.lines
      /\ pendingLine' = c.rest

EmitLines(chunk) ==
  LET c == Cut(pendingLine \o chunk)
  IN  /\ lines' = lines \o c.lines
      /\ pendingLine' = c.rest

\* ReadFile returns what there is, at most a chunk.
ReadChunk ==
  /\ stage = "running" /\ pipe # <<>>
  /\ LET n     == Min({ChunkSize, Len(pipe)})
         chunk == SubSeq(pipe, 1, n)
     IN  /\ pipe' = SubSeq(pipe, n + 1, Len(pipe))
         /\ AppendLog(chunk)
         /\ EmitLines(chunk)
  /\ UNCHANGED <<busy, stage, helpers, running, sent>>

\* End of file, the last line, and the exit code
EndOfOutput ==
  /\ stage = "running" /\ pipe = <<>> /\ ~running
  /\ lines' = IF pendingLine = <<>> THEN lines ELSE Append(lines, pendingLine)
  /\ pendingLine' = <<>>
  /\ stage' = "between"
  /\ UNCHANGED <<busy, helpers, running, pipe, sent, screen>>

-----------------------------------------------------------------------------
(* The worker between its helpers                                          *)

\* A message that does not begin with a line break, such as the options of the
\* recorder.  One in the model: they are all alike.
Note ==
  /\ stage = "between" /\ "note" \notin Range(said)
  /\ AppendLog(<<"note", CR, LF>>)
  /\ UNCHANGED <<busy, stage, helpers, io>>

\* SetFailure, in the two critical sections it has
Fail_SameLine ==
  /\ stage = "between" /\ stage' = "failing"
  /\ AppendLog(<<"error", CR, LF>>)
  /\ UNCHANGED <<busy, helpers, io>>

Fail ==
  /\ stage = "between" /\ stage' = "failing"
  /\ AppendLog(<<CR, LF, "error", CR, LF>>)
  /\ UNCHANGED <<busy, helpers, io>>

Failed ==
  /\ stage = "failing" /\ stage' = "failed" /\ busy' = FALSE
  /\ UNCHANGED <<helpers, io, screen>>

Succeed ==
  /\ stage = "between" /\ stage' = "off" /\ busy' = FALSE
  /\ UNCHANGED <<helpers, io, screen>>

-----------------------------------------------------------------------------
(* The window                                                              *)

\* state_ = BurnSnapshot{}; logPendingCarriageReturn_ = false
ClearLog ==
  log' = <<>> /\ said' = <<>> /\ truncated' = FALSE /\ pendingCR' = FALSE

\* Start and StartBurnerMaxTest
Start ==
  /\ ~busy /\ busy' = TRUE
  /\ ClearLog
  /\ stage' = "between" /\ helpers' = 0
  /\ UNCHANGED io

Reset ==
  /\ ~busy
  /\ ClearLog
  /\ stage' = "off"
  /\ UNCHANGED <<busy, helpers, io>>

Worker == StartHelper \/ ReadChunk \/ EndOfOutput \/ Note \/ Fail \/ Failed
            \/ Succeed

Next == Worker \/ HelperWrites \/ HelperExits \/ Start \/ Reset

Spec == Init /\ [][Next]_vars

-----------------------------------------------------------------------------
(* Properties                                                              *)

\* The type of every variable; the log never outgrows its limit.
TypeOK ==
  /\ busy \in BOOLEAN /\ running \in BOOLEAN
  /\ pendingCR \in BOOLEAN /\ truncated \in BOOLEAN
  /\ stage \in {"off", "between", "running", "failing", "failed"}
  /\ helpers \in 0 .. MaxHelpers
  /\ pipe \in Seq(HelperBytes) /\ sent \in Seq(HelperBytes)
  /\ pendingLine \in Seq(HelperBytes \ Breaks)
  /\ lines \in Seq(Seq(HelperBytes \ Breaks))
  /\ said \in Seq(Bytes)
  /\ log \in Seq(Bytes) /\ Len(log) <= MaxLog

\* A terminal that is given a whole text at once: a byte stays unless a later
\* CR that is followed by something else than LF redraws its line.
Redraws(s, j) == s[j] = CR /\ j < Len(s) /\ s[j + 1] # LF

Stays(s, i) ==
  \/ s[i] = LF
  \/ s[i] # CR /\ \A j \in DOMAIN s :
                    i < j /\ Redraws(s, j) => \E k \in i .. j : s[k] = LF

Terminal(s) ==
  FlattenSeq([i \in DOMAIN s |-> IF Stays(s, i) THEN <<s[i]>> ELSE <<>>])

\* However the reads cut the output and whatever the engine put in between, the
\* log shows what a terminal would show of this job's text in one piece,
\* without the noise, and from a later beginning when there is too much of it
\* (AppendLog: CR LF over two chunks, lines completed by a later chunk, the CR
\* that a former job left waiting, truncation).
LogIsTerminal ==
  LET whole == Clean(Terminal(said))
  IN  /\ IsSuffix(log, whole)
      /\ ~truncated => log = whole

\* The progress callback is given each line of a helper once, whole and in
\* order, and by the end of the helper all of them (RunHiddenProcess,
\* pendingLine).
LinesAreWhole ==
  LET c   == Cut(sent)
      all == IF c.rest = <<>> THEN c.lines ELSE Append(c.lines, c.rest)
  IN  /\ IsPrefix(lines, all)
      /\ stage = "running" => Len(lines) <= Len(c.lines)
      /\ stage = "between" => lines = all

\* When the window sees a job fail, the reason is the last line of the log: it
\* is not glued to an unfinished line of a helper that is then dropped as
\* noise, nor redrawn by a CR the helper left behind (SetFailure).
ErrorIsShown == stage = "failed" => IsSuffix(<<"error", LF>>, log)
=============================================================================
