------------------------------- MODULE Outbound -------------------------------
(***************************************************************************)
(* One answer on its way to the client: the chunks of a generated text, as *)
(* the engine happens to cut it, through StreamingSanitizer                *)
(* (src/text/stream.py, driven by _stream_with_optional_sanitizer of       *)
(* src/execution/chat/runner.py).                                          *)
(***************************************************************************)
EXTENDS Sanitizer

CONSTANTS
  Steady,   \* generated texts whose constructs the guards know
  Late      \* generated texts in which a later part changes an earlier one

VARIABLES
  text,     \* what the engine generates
  raw,      \* _raw_tail: all of it that has come, until the flush
  emitted,  \* _emitted_parts, joined
  held,     \* _sanitized_tail
  sent,     \* what the client has received
  phase     \* "streaming", "complete", "broken"

vars == <<text, raw, emitted, held, sent, phase>>

Init ==
  /\ text \in Steady \cup Late
  /\ raw = "" /\ emitted = "" /\ held = "" /\ sent = ""
  /\ phase = "streaming"

\* Mutant of KeptWith: what was emitted is never cut back.
KeptWithAll(stable) == Least(Len(emitted), Len(stable))

\* How much of what was emitted the new text still begins with.
KeptWith(stable) == CommonPrefix(emitted, stable)

(* push. Text that is no longer the beginning of the new one is forgotten,   *)
(* though the client has it; with nothing stable nothing is compared.        *)
Push ==
  /\ phase = "streaming"
  /\ \E n \in (Len(raw) + 1)..Len(text) :
       LET all == SubSeq(text, 1, n)
           sanitized == Sanitize(all)
           stableLen == Len(sanitized) - HeldBack(all, sanitized)
           stable == SubSeq(sanitized, 1, stableLen)
           kept == KeptWith(stable)
           delta == SubSeq(stable, kept + 1, stableLen)
       IN /\ raw' = all
          /\ held' = SubSeq(sanitized, stableLen + 1, Len(sanitized))
          /\ IF stableLen > 0
             THEN emitted' = SubSeq(emitted, 1, kept) \o delta /\ sent' = sent \o delta
             ELSE UNCHANGED <<emitted, sent>>
  /\ UNCHANGED <<text, phase>>

\* Mutant of Flush: the text stays, and would be sent once more.
FlushKeepingText ==
  LET sanitized == Sanitize(raw)
      kept == KeptWith(sanitized)
      tail == RStrip(SubSeq(sanitized, kept + 1, Len(sanitized)))
  IN /\ phase = "streaming" /\ raw = text
     /\ emitted' = SubSeq(emitted, 1, kept) \o tail
     /\ sent' = sent \o tail
     /\ held' = "" /\ phase' = "complete"
     /\ UNCHANGED <<text, raw>>

\* flush, at the end of the stream.
Flush ==
  LET sanitized == Sanitize(raw)
      kept == KeptWith(sanitized)
      tail == RStrip(SubSeq(sanitized, kept + 1, Len(sanitized)))
  IN /\ phase = "streaming" /\ raw = text
     /\ emitted' = SubSeq(emitted, 1, kept) \o tail
     /\ sent' = sent \o tail
     /\ raw' = "" /\ held' = ""
     /\ phase' = "complete"
     /\ UNCHANGED text

\* The stream fails or is cancelled: what is held is not sent.
Break ==
  /\ phase = "streaming" /\ phase' = "broken"
  /\ UNCHANGED <<text, raw, emitted, held, sent>>

Next == Push \/ Flush \/ Break

Spec == Init /\ [][Next]_vars

-----------------------------------------------------------------------------
(* Properties *)

TypeOK ==
  /\ text \in Steady \cup Late
  /\ phase \in {"streaming", "complete", "broken"}
  /\ IsPrefixOf(raw, text)
  /\ phase = "complete" => raw = "" /\ held = ""

\* What the client gets when the text comes in one chunk.
OneChunk == RStrip(Sanitize(text))

(* "emits stable chunks" (stream.py, line 51): of a text whose constructs the *)
(* guards know, whatever way it is cut, only what belongs to the final answer *)
(* is ever sent, and in the end all of it. A blank may be sent twice: see     *)
(* ChunkBoundaryStable.                                                      *)
OnlyTheAnswerIsSent ==
  LET client == RStrip(Sub(sent, SpaceRun, LAMBDA m : " "))
  IN text \in Steady =>
       IF phase = "complete" THEN client = OneChunk ELSE IsPrefixOf(client, Sanitize(text))

(* The sanitizer's own record of the answer (full_text) is that of the text   *)
(* in one chunk, also when earlier text changed under it.                    *)
RecordIsOneChunk == phase = "complete" => RStrip(emitted) = OneChunk

(* "Bound the retained tail to avoid unbounded buffering" (suffix.py, line    *)
(* 159): the client is never further behind what there is.                   *)
DelayIsBounded ==
  phase = "streaming" => Len(sent) + MaxTail >= Len(Sanitize(raw))

(* test_streaming_sanitizer_is_chunk_boundary_stable                         *)
(* (tests/suites/integration/test_sanitizer.py, line 82) asserts that the     *)
(* client's text does not depend on the chunks. It does: a blank before a    *)
(* held part is sent, taken back and sent again; the guards measure the raw   *)
(* text and cut the longer sanitized one; and no guard knows of phrases.     *)
ChunkBoundaryStable == phase = "complete" => RStrip(sent) = OneChunk
=============================================================================
