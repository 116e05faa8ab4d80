--------------------------- MODULE MCEvidenceJobs ---------------------------
(***************************************************************************)
(* Two jobs and two workers.  The document says "within 5 business days".  *)
(* The parser reads it; a first prompt is asked in two chunks, which       *)
(* contradict each other on the floor; a second prompt of the same model   *)
(* takes business days for calendar days; a direct path answers twice on   *)
(* the floor; the output of the last path always misstates the document.   *)
(***************************************************************************)
EXTENDS EvidenceJobs, TLC

CONSTANTS parser, prompt, prompt2, direct, rogue, disputed, forged

MCExtractors == {parser, prompt, prompt2, direct, rogue}
MCRouteOf ==
  parser :> "PARSER" @@ prompt :> "CHAINGPT" @@ prompt2 :> "CHAINGPT"
  @@ direct :> "ZEROG" @@ rogue :> "ZEROG"
MCGroupOf ==
  parser :> "rules" @@ prompt :> "chaingpt" @@ prompt2 :> "chaingpt"
  @@ direct :> "zerog" @@ rogue :> "other"

MCTexts ==
  [d \in {disputed, forged} |->
     [phrases |-> {"may redeem", "fully backed", "freely transferable", "restricted"},
      periods |-> <<[n |-> 5, unit |-> "business days"]>>]]

Says(field, value, quote) == [field |-> field, value |-> value, fits |-> TRUE, quote |-> quote]
Misfit(field, value) == [field |-> field, value |-> value, fits |-> FALSE, quote |-> "verbatim"]

MCAnswersTo ==
  prompt :> <<<<Says(Supported, 1, "verbatim"), Says(Floor, 7, "reflowed"), Says(Transfer, 0, "foreign"),
                Says("maxLtv", 10, "verbatim")>>,
              <<Says(Floor, 9, "verbatim"), Says(Window, 7 * 86400, "verbatim"), Misfit(Backing, 2)>>>>
  @@ prompt2 :> <<<<Says(Supported, 1, "verbatim"), Says(Floor, 7, "short"), Says(Window, 5 * 86400, "verbatim")>>>>
  @@ direct :> <<<<Says(Supported, 1, "verbatim"), Says(Window, UNKNOWN, "none"), Says(Backing, 2, "reflowed"),
                   Says(Floor, 7, "verbatim"), Says(Floor, 9, "verbatim")>>>>
  @@ rogue :> <<<<Says(Floor, 9, "empty")>>>>

MCAnswers == [d \in {disputed, forged} |-> MCAnswersTo]

MCDocumentOf == 1 :> disputed @@ 2 :> forged
MCVersionOf == 1 :> 1 @@ 2 :> 2

-----------------------------------------------------------------------------
(* Chunking in windows of 8, whose last quarter holds any of the separators. *)

ShortTexts ==
  UNION {[1..n -> {"x", "nl"}] \cup [1..n -> {"dot", "space"}] : n \in 8..11}

\* Every span no longer than the overlap lies whole in one of the chunks, none of
\* which is longer than the target: a fact that crosses a boundary is still read
\* ("visible whole in at least one chunk", chunk.ts CHUNK_OVERLAP_CHARS).
SpansSurviveChunking ==
  \A text \in ShortTexts, overlap \in {1, 3, 5} :
    LET chunks == chunkDocument(text, 8, overlap) IN
    /\ \A first \in 1..Len(text) - overlap + 1 :
         \E i \in DOMAIN chunks : chunks[i].start < first /\ first + overlap - 1 <= chunks[i].end
    /\ \A i \in DOMAIN chunks : chunks[i].end - chunks[i].start <= 8

ASSUME SpansSurviveChunking
=============================================================================
