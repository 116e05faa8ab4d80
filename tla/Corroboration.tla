--------------------------- MODULE Corroboration ---------------------------
(***************************************************************************)
(* What each extraction path reads in one document (packages/chaingpt,     *)
(* packages/zerog), what the paths establish together                      *)
(* (packages/schemas/src/corroborate.ts) and which of it reaches the       *)
(* Passport header (services/evidence/src/candidate.ts).                   *)
(*                                                                         *)
(* A reading gives each field a number or UNKNOWN; a claim set is a        *)
(* function from the paths that answered to their readings.                *)
(***************************************************************************)
EXTENDS Integers, FiniteSets, SequencesExt

CONSTANTS
  Extractors,     \* extraction paths
  RouteOf,        \* extractor -> "PARSER", "CHAINGPT" or "ZEROG"
  GroupOf,        \* extractor -> independence group
  Descriptive     \* fields whose value cannot reach the chain

Supported == "redemption.supported"
Floor == "redemption.floorBps"
Window == "redemption.estimatedWindowSeconds"
Transfer == "transfer.permissionModel"
Backing == "backing.model"
Mechanism == "corporateActions.mechanism"
RiskBearing == {Supported, Floor, Window, Transfer, Backing, "legal.holderRights", Mechanism}
Fields == RiskBearing \cup Descriptive
UNKNOWN == -1

ASSUME CorroborationConstants ==
  /\ IsFiniteSet(Extractors) /\ DOMAIN GroupOf = Extractors
  /\ RouteOf \in [Extractors -> {"PARSER", "CHAINGPT", "ZEROG"}]

-----------------------------------------------------------------------------
(* The deterministic parser.  A text is what the patterns find in it: its    *)
(* phrases, and its settlement periods in the order of the patterns.         *)

\* For each field its patterns, in the order they are tried: the restrictive
\* form comes first, as "not redeemable" contains "redeemable".
ParserRules ==
  [f \in Fields |->
     CASE f = Supported -> <<[phrase |-> "no redemption", value |-> 0], [phrase |-> "may redeem", value |-> 1]>>
       [] f = Transfer  -> <<[phrase |-> "restricted", value |-> 1], [phrase |-> "freely transferable", value |-> 0]>>
       [] f = Backing   -> <<[phrase |-> "fully backed", value |-> 1], [phrase |-> "synthetic", value |-> 2]>>
       [] f = Mechanism -> <<[phrase |-> "rebase", value |-> 1], [phrase |-> "dividends paid", value |-> 2]>>
       [] OTHER         -> <<>>]

firstMatch(phrases, rules) ==
  LET hits == {i \in DOMAIN rules : rules[i].phrase \in phrases}
  IN  IF hits = {} THEN UNKNOWN ELSE rules[Min(hits)].value

\* Business days are stretched to calendar days, rounding up.
findRedemptionWindow(periods) ==
  IF periods = <<>> \/ Head(periods).n > 3650 THEN UNKNOWN
  ELSE LET n == Head(periods).n IN
       CASE Head(periods).unit = "hours"         -> n * 3600
         [] Head(periods).unit = "business days" -> ((n * 7 + 4) \div 5) * 86400
         [] Head(periods).unit = "days"          -> n * 86400

parse(text) ==
  [f \in Fields |-> IF f = Window THEN findRedemptionWindow(text.periods)
                    ELSE firstMatch(text.phrases, ParserRules[f])]

-----------------------------------------------------------------------------
(* The models.  A chunk is answered by a sequence of claims [field, value,   *)
(* fits, quote]: whether the value is of the field's kind, and how the quote *)
(* stands to the document: "verbatim", "reflowed" (but for case and white    *)
(* space), "short" (foreign to it and under 8 characters), "foreign",        *)
(* "empty" or "none".                                                        *)

Claims == [field : STRING, value : Int, fits : BOOLEAN, quote : STRING]

quoteAppearsInDocument(quote) == quote \in {"verbatim", "reflowed", "short"}

materialise(claims) ==
  {c \in claims :
     c.field \in Fields /\ (c.value = UNKNOWN \/ (c.fits /\ quoteAppearsInDocument(c.quote)))}

About(f, claims) == {c \in claims : c.field = f}
Stated(f, claims) == {c.value : c \in About(f, claims)} \ {UNKNOWN}

\* Chunks that disagree abstain.
mergeChunkClaims(claims) ==
  [f \in Fields |-> IF \E v \in Stated(f, claims) : Stated(f, claims) = {v}
                    THEN CHOOSE v \in Stated(f, claims) : TRUE ELSE UNKNOWN]

\* String.includes: the empty quote is part of every document.
materialiseZeroG(answer) ==
  {i \in DOMAIN answer :
     /\ answer[i].field \in Fields
     /\ answer[i].value = UNKNOWN \/ (answer[i].fits /\ answer[i].quote \in {"verbatim", "empty"})}

\* corroborate looks up the first claim of a field.
firstClaims(answer) ==
  [f \in Fields |->
     LET about == {i \in materialiseZeroG(answer) : answer[i].field = f}
     IN  IF about = {} THEN UNKNOWN ELSE answer[Min(about)].value]

\* What came back from the chunks that were heard.
Heard(answers, chunks) == UNION {Range(answers[i]) : i \in chunks}

\* ChainGPT is asked chunk by chunk, and a chunk whose request failed or whose
\* answer is unusable does not take the others with it: nothing may be left.
\* 0G is asked once.
Hearable(x, answers) ==
  IF RouteOf[x] = "CHAINGPT" THEN SUBSET DOMAIN answers ELSE {DOMAIN answers}

extract(x, text, answers, chunks) ==
  CASE RouteOf[x] = "PARSER"   -> parse(text)
    [] RouteOf[x] = "CHAINGPT" -> mergeChunkClaims(materialise(Heard(answers, chunks)))
    [] RouteOf[x] = "ZEROG"    -> firstClaims(answers[1])

-----------------------------------------------------------------------------
(* Chunks of a text, a sequence of characters.  Offsets count from 0.        *)

\* A chunk ends after a paragraph, else a line, else a sentence in the last
\* quarter of its window, else where the window ends.
ChunkEnd(text, cursor, targetChars) ==
  LET hardEnd == IF cursor + targetChars < Len(text) THEN cursor + targetChars ELSE Len(text)
      after(sep) ==
        {e \in cursor + ((3 * targetChars) \div 4) + Len(sep) .. hardEnd :
           SubSeq(text, e - Len(sep) + 1, e) = sep}
      breaks == SelectSeq(<<after(<<"nl", "nl">>), after(<<"nl">>), after(<<"dot", "space">>)>>,
                          LAMBDA ends : ends # {})
  IN  IF hardEnd = Len(text) \/ breaks = <<>> THEN hardEnd ELSE Max(Head(breaks))

chunkDocument(text, targetChars, overlapChars) ==
  LET from[cursor \in 0..Len(text)] ==
        LET end  == ChunkEnd(text, cursor, targetChars)
            next == Max({end - overlapChars, cursor + 1})
        IN  <<[start |-> cursor, end |-> end]>> \o (IF end >= Len(text) THEN <<>> ELSE from[next])
  IN  from[0]

-----------------------------------------------------------------------------
(* Corroboration.                                                            *)

Contributors(sets, f) == {x \in DOMAIN sets : sets[x][f] # UNKNOWN}
Values(sets, f) == {sets[x][f] : x \in Contributors(sets, f)}

\* Variant: two prompts to one model count as two paths.
GroupsByExtractor(paths) == paths

Groups(paths) == {GroupOf[x] : x \in paths}

FieldOutcome(sets, f) ==
  CASE Contributors(sets, f) = {}         -> "ABSENT"
    [] Cardinality(Values(sets, f)) > 1   -> "CONFLICT"
    [] /\ Cardinality(Values(sets, f)) = 1
       /\ Cardinality(Groups(Contributors(sets, f))) = 1 -> "SINGLE"
    [] OTHER                              -> "AGREED"

independentPathCount(sets) ==
  Cardinality(Groups(UNION {Contributors(sets, f) : f \in Fields}))

conflictingRiskFields(sets) == {f \in RiskBearing : FieldOutcome(sets, f) = "CONFLICT"}

corroborate(sets) ==
  IF conflictingRiskFields(sets) # {} THEN "CLAIM_CONFLICT"
  ELSE IF /\ independentPathCount(sets) >= 2
          /\ \E f \in Fields : FieldOutcome(sets, f) = "AGREED"
       THEN "CORROBORATED"
       ELSE "SINGLE_SOURCE"

\* Only used where the field is not in conflict: all values are then equal.
firstValue(sets, f) ==
  IF Contributors(sets, f) = {} THEN UNKNOWN ELSE CHOOSE v \in Values(sets, f) : TRUE

\* The floor that goes on the header; 0 stands for redemptionSupported = FALSE,
\* since the two are carried together or not at all.
resolveRedemption(sets) ==
  IF /\ firstValue(sets, Supported) = 1
     /\ FieldOutcome(sets, Floor) = "AGREED"
     /\ firstValue(sets, Floor) > 0
  THEN firstValue(sets, Floor)
  ELSE 0
=============================================================================
