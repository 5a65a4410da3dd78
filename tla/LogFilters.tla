----------------------------- MODULE LogFilters ------------------------------
(* The log filters of a process (scripts/filters): wrappers around its        *)
(* standard streams that drop the noise of the libraries line by line, one    *)
(* around the other, and the window in which the file descriptors point to    *)
(* /dev/null while an engine is being built.  The stdout pair is modelled;    *)
(* the stderr pair is its copy.  A text is a sequence of atoms: words, the    *)
(* blank and the end of a line.                                               *)
EXTENDS Integers, FiniteSets, SequencesExt

CONSTANTS
  ShowFlags,    \* the sets of libraries whose SHOW_*_LOGS flag may be on
  LogTexts,     \* the texts written, sequences of words
  MaxLogWrites  \* bound: texts written in a behaviour

VARIABLES
  configured,   \* _STATE["configured"]
  quiet,        \* the libraries whose own progress bars and loggers are turned down
  chain,        \* the wrappers, outermost first
  buffers,      \* writer -> the partial line in each wrapper, in the order of the chain
  io,           \* what the Python stream under the wrappers has not written yet
  libc,         \* what the C library has not written yet
  window,       \* inside SuppressedFDContext: descriptor 1 is /dev/null
  drained,      \* what left the process: an atom and where it went
  writes        \* the texts written so far, for the bound

logVars == <<configured, quiet, chain, buffers, io, libc, window, drained, writes>>

-----------------------------------------------------------------------------
(* Noise.  One pattern of every form the lists have: a search anywhere, a     *)
(* search anchored at the start of the line, and an indented line.            *)

Search(at, words) == [at |-> at, words |-> words]

NoisePatterns ==
  [trt |-> {Search("any", <<"[MemUsageChange]">>), Search("any", <<"Searching", "parameters">>),
            Search("start", <<"[TensorRT-LLM][INFO]">>), Search("any", <<"Multiple distributions">>)},
   vllm |-> {Search("start", <<"(EngineCore_DP0 pid=1)", "INFO 12-31">>), Search("any", <<"Capturing CUDA graphs", "10%">>),
             Search("any", <<"Multiple distributions">>)},
   llmcompressor |-> {Search("any", <<"Tokenizing:", "10%">>)},
   tool |-> {Search("start", <<"Collecting">>), Search("indented", <<"Attempting uninstall:">>)}]

Wrappers == {"trt", "vllm", "llmcompressor", "tool"}

Libraries == Wrappers \cup {"hf"}

Words(text) == [i \in DOMAIN text |-> text[i].word]

\* str.strip
Stripped(words) ==
  LET solid == {i \in DOMAIN words : words[i] # " "} IN
  IF solid = {} THEN <<>>
  ELSE SubSeq(words, CHOOSE i \in solid : \A j \in solid : i <= j, CHOOSE i \in solid : \A j \in solid : j <= i)

\* pattern.search: the words one after the other, whatever is between them.
Found(pattern, words) ==
  \E first \in DOMAIN words :
    /\ words[first] = pattern.words[1]
    /\ pattern.at # "any" => first = (IF pattern.at = "indented" THEN 2 ELSE 1)
    /\ pattern.at = "indented" => words[1] = " "
    /\ Len(pattern.words) = 2 => \E second \in first + 1 .. Len(words) : words[second] = pattern.words[2]

IsNoise(text, patterns) ==
  LET words == Stripped(SelectSeq(Words(text), LAMBDA w : w # "NL")) IN
  words # <<>> /\ \E pattern \in patterns : Found(pattern, words)

-----------------------------------------------------------------------------
(* One wrapper.                                                              *)

Emitted(text, patterns) == IF IsNoise(text, patterns) THEN <<>> ELSE text

\* write: a line goes on as soon as it is complete, what follows the last one waits.
WriteThrough(name, held, text) ==
  LET buffer == held \o text
      at[i \in 0 .. Len(buffer)] ==
        IF i = 0 THEN [sent |-> <<>>, held |-> <<>>]
        ELSE LET before == at[i - 1]
                 line == Append(before.held, buffer[i])
             IN IF buffer[i].word = "NL"
                THEN [sent |-> before.sent \o Emitted(line, NoisePatterns[name]), held |-> <<>>]
                ELSE [sent |-> before.sent, held |-> line]
  IN at[Len(buffer)]

\* Mutant of FlushThrough: what waits is not looked at again.
FlushThroughUnfiltered(name, held, text) ==
  LET through == WriteThrough(name, held, text) IN [sent |-> through.sent \o through.held, held |-> <<>>]

\* flush: what waits goes on as it is, and the wrapper inside is flushed in turn.
FlushThrough(name, held, text) ==
  LET through == WriteThrough(name, held, text) IN
  [sent |-> through.sent \o Emitted(through.held, NoisePatterns[name]), held |-> <<>>]

\* A text, or a flush, on its way from the outermost wrapper to the stream.
Descend(flushed, held, text) ==
  LET at[k \in 0 .. Len(chain)] ==
        IF k = 0 THEN [sent |-> text, held |-> <<>>]
        ELSE LET through == IF flushed THEN FlushThrough(chain[k], held[k], at[k - 1].sent)
                            ELSE WriteThrough(chain[k], held[k], at[k - 1].sent)
             IN [sent |-> through.sent, held |-> Append(at[k - 1].held, through.held)]
  IN at[Len(chain)]

-----------------------------------------------------------------------------
(* The process.                                                              *)

Writers == {"stdout", "__stdout__"}

Init ==
  /\ configured = FALSE
  /\ quiet = {}
  /\ chain = <<>>
  /\ buffers = [w \in Writers |-> <<>>]
  /\ io = <<>>
  /\ libc = <<>>
  /\ window = FALSE
  /\ drained = <<>>
  /\ writes = 0

Around(name, shown) == IF name \in shown THEN <<>> ELSE <<name>>

\* configure(): every library whose SHOW flag is off is turned down, and its
\* wrapper goes around those installed before it.
Configure(shown) ==
  /\ ~configured
  /\ configured' = TRUE
  /\ quiet' = (Libraries \ shown) \cup {"transformers"}
  /\ chain' = Around("tool", shown) \o Around("llmcompressor", shown) \o Around("vllm", shown) \o Around("trt", shown)
  /\ buffers' = [w \in Writers |-> [k \in DOMAIN chain' |-> <<>>]]
  /\ UNCHANGED <<io, libc, window, drained, writes>>

\* An atom remembers who wrote it and whether that was inside the window.
Marked(writer, words) == [i \in DOMAIN words |-> [word |-> words[i], writer |-> writer, inside |-> window]]

Write(writer, words) ==
  LET through == Descend(FALSE, buffers[writer], Marked(writer, words)) IN
  /\ writes < MaxLogWrites
  /\ writes' = writes + 1
  /\ io' = io \o through.sent
  /\ buffers' = [buffers EXCEPT ![writer] = through.held]
  /\ UNCHANGED <<configured, quiet, chain, libc, window, drained>>

Drains(text) == [i \in DOMAIN text |-> [atom |-> text[i], to |-> IF window THEN "null" ELSE "terminal"]]

\* A flush of the outermost wrapper ends in a flush of the stream.
Flush(writer) ==
  LET through == Descend(TRUE, buffers[writer], <<>>) IN
  /\ drained' = drained \o Drains(io \o through.sent)
  /\ io' = <<>>
  /\ buffers' = [buffers EXCEPT ![writer] = through.held]
  /\ UNCHANGED <<configured, quiet, chain, libc, window, writes>>

\* Native code writes past the wrappers.
NativeWrite(words) ==
  /\ writes < MaxLogWrites
  /\ writes' = writes + 1
  /\ libc' = libc \o Marked("native", words)
  /\ UNCHANGED <<configured, quiet, chain, buffers, io, window, drained>>

\* A full stream buffer is written out at any time.
Drain ==
  /\ io # <<>>
  /\ drained' = drained \o Drains(io)
  /\ io' = <<>>
  /\ UNCHANGED <<configured, quiet, chain, buffers, libc, window, writes>>

NativeDrain ==
  /\ libc # <<>>
  /\ drained' = drained \o Drains(libc)
  /\ libc' = <<>>
  /\ UNCHANGED <<configured, quiet, chain, buffers, io, window, writes>>

\* Mutant of FlushAll: the C library is not flushed.
FlushAllButLibc ==
  LET through == Descend(TRUE, buffers.stdout, <<>>) IN
  /\ drained' = drained \o Drains(io \o through.sent)
  /\ io' = <<>>
  /\ buffers' = [buffers EXCEPT !.stdout = through.held]
  /\ UNCHANGED <<configured, quiet, chain, libc, writes>>

\* SuppressedFDContext flushes the Python streams and the C library before it
\* moves the descriptor, on the way in and, in the other order, on the way out.
FlushAll ==
  LET through == Descend(TRUE, buffers.stdout, <<>>) IN
  /\ drained' = drained \o (IF window THEN Drains(libc) \o Drains(io \o through.sent)
                            ELSE Drains(io \o through.sent) \o Drains(libc))
  /\ io' = <<>>
  /\ libc' = <<>>
  /\ buffers' = [buffers EXCEPT !.stdout = through.held]
  /\ UNCHANGED <<configured, quiet, chain, writes>>

EnterWindow ==
  /\ ~window
  /\ FlushAll
  /\ window' = TRUE

LeaveWindow ==
  /\ window
  /\ FlushAll
  /\ window' = FALSE

Next ==
  \/ \E shown \in ShowFlags: Configure(shown)
  \/ \E words \in LogTexts: NativeWrite(words) \/ \E w \in Writers: Write(w, words)
  \/ \E w \in Writers: Flush(w)
  \/ Drain \/ NativeDrain \/ EnterWindow \/ LeaveWindow

Spec == Init /\ [][Next]_logVars

-----------------------------------------------------------------------------

\* The lines of a text, each with its end, and what follows the last one.
Split(text) ==
  LET at[i \in 0 .. Len(text)] ==
        IF i = 0 THEN [lines |-> <<>>, rest |-> <<>>]
        ELSE LET before == at[i - 1]
                 line == Append(before.rest, text[i])
             IN IF text[i].word = "NL" THEN [lines |-> Append(before.lines, line), rest |-> <<>>]
                ELSE [lines |-> before.lines, rest |-> line]
  IN at[Len(text)]

Lines(text) == Split(text).lines
Rest(text) == Split(text).rest

\* What the Python writers wrote, of what left the process.
Python(out) ==
  LET at[i \in 0 .. Len(out)] ==
        IF i = 0 THEN <<>>
        ELSE LET before == at[i - 1]
             IN IF out[i].atom.writer = "native" THEN before ELSE Append(before, out[i].atom)
  IN at[Len(out)]

\* However many wrappers stand in front of a stream, and wherever flushes and
\* windows fall, the output is what one filter with all their patterns lets
\* through: no line is dropped twice, held back by an inner wrapper, reordered or
\* cut (trt.py:50-75 and its three copies, installed one around the other).
Filter ==
  INSTANCE OneFilter WITH
    Texts <- {[i \in DOMAIN words |-> [word |-> words[i], writer |-> w, inside |-> b]] :
                words \in LogTexts, w \in Writers, b \in BOOLEAN},
    installed <- chain # <<>>,
    noise <- UNION {NoisePatterns[chain[k]] : k \in DOMAIN chain},
    held <- [w \in Writers |-> IF chain = <<>> THEN <<>> ELSE buffers[w][1]],
    shown <- Python(drained) \o io

ImplementsOneFilter == Filter!Spec

\* The window swallows what was written to sys.stdout and by native code while it
\* was open, and nothing else (fd.py:21-55): a line of the application that was
\* waiting in a buffer is not lost with the output of the library, and what the
\* library left in a buffer does not come out after the window has closed.
WindowIsExact ==
  \A i \in DOMAIN drained :
    drained[i].atom.writer # "__stdout__" => (drained[i].to = "null" <=> drained[i].atom.inside)
=============================================================================
