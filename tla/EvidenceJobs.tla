---------------------------- MODULE EvidenceJobs ----------------------------
(***************************************************************************)
(* Evidence documents go through the pipeline as queue jobs                *)
(* (services/evidence/src: jobs.ts, pipeline.ts, extract.ts, ingest.ts).   *)
(*                                                                         *)
(* A worker claims a job, reads the document, runs the pipeline, hands the *)
(* outcome on and reports to the queue.  Between the awaits other workers, *)
(* the clock and the death of the worker come in.  The queue itself        *)
(* outlives a worker, as the table described in queue.ts does.             *)
(***************************************************************************)
EXTENDS WorkQueue, Corroboration, Sequences

CONSTANTS
  Workers,
  Documents,
  DocumentOf,      \* job -> its document
  VersionOf,       \* job -> the Passport version it was enqueued for
  Texts,           \* document -> what the parser's patterns find in it
  Answers,         \* document -> model path -> what it answers to each chunk
  Unusable,        \* documents that ingest refuses: forged source, low trust, media type
  Misstating,      \* extractors whose output fails validation against the document
  MaxChunks,       \* bound on the chunks of a document
  MaxDeaths        \* bound on workers that die

ASSUME JobConstants ==
  /\ DocumentOf \in [Jobs -> Documents] /\ VersionOf \in [Jobs -> Nat \ {0}] /\ 0 \notin Jobs
  /\ Unusable \subseteq Documents /\ Misstating \subseteq Extractors /\ MaxDeaths \in Nat
  /\ IsFiniteSet(Workers)

\* Models answer in claims, chunk by chunk; 0G is asked once.
ASSUME AnswerConstants ==
  \A d \in Documents, x \in Extractors : RouteOf[x] # "PARSER" =>
    Answers[d][x] \in Seq(Seq(Claims)) /\ (RouteOf[x] = "ZEROG" => Len(Answers[d][x]) = 1)

VARIABLES
  inFlight,     \* worker -> its call in flight
  handed,     \* job -> [times, outcome, backing]: how often an outcome was handed on, the last
              \* one and, if it carries a redemption floor, what the paths said of it
  reclaims,   \* job -> how often it was claimed from an expired lease
  deaths

jobVars == <<queue, inFlight, handed, reclaims, deaths>>

\* Older than this, a report makes a job as late as can be told apart.
MaxAge == BackoffCap - 1 + MaxLate
NoJob == 0
Idle == [job |-> NoJob, age |-> 0, handing |-> FALSE]

FreeWorker(w) == inFlight[w] = Idle
Runs(w, j) == inFlight[w].job = j /\ ~inFlight[w].handing

-----------------------------------------------------------------------------
(* The pipeline on one document, with the paths that are left this time. *)

AnswersOf(document, x) == IF RouteOf[x] = "PARSER" THEN <<>> ELSE Answers[document][x]

\* The paths that may be left, with the chunks each was heard on: one that does
\* not answer is skipped, and validateExtraction drops one whose output
\* misstates the document.
Surviving(document) ==
  UNION {{heard \in [paths -> SUBSET (1..MaxChunks)] :
            \A x \in paths : heard[x] \in Hearable(x, AnswersOf(document, x))}
         : paths \in SUBSET (Extractors \ Misstating)}

runExtractors(document, heard) ==
  [x \in DOMAIN heard |-> extract(x, Texts[document], AnswersOf(document, x), heard[x])]

runPipeline(document, version, heard) ==
  LET sets == runExtractors(document, heard)
      invalid(terminal) == [kind |-> "SCHEMA_INVALID", terminal |-> terminal, calls |-> <<>>]
  IN  IF document \in Unusable THEN invalid(TRUE)
      ELSE IF DOMAIN sets = {} THEN invalid(FALSE)
      ELSE IF corroborate(sets) = "CLAIM_CONFLICT"
      THEN [kind |-> "CLAIM_CONFLICT",
            calls |-> (IF version > 1 THEN <<"restrict">> ELSE <<>>) \o <<"bumpEpoch">>]
      ELSE [kind |-> "READY_TO_COMMIT",
            calls |-> <<"commitEvidence", "commitPassport", "bumpEpoch">>,
            floor |-> resolveRedemption(sets),
            singleSource |-> corroborate(sets) = "SINGLE_SOURCE"]

Nothing == [kind |-> "NONE"]
CarriesFloor(outcome) == outcome.kind = "READY_TO_COMMIT" /\ outcome.floor > 0

\* What each path was heard to say of the floor.
FloorClaims(document, heard) ==
  [x \in DOMAIN heard |-> About(Floor, Heard(AnswersOf(document, x), heard[x]))]

\* How a job's run may end, with what stands behind a redemption floor.
Conclusions ==
  [j \in Jobs |->
     {LET outcome == runPipeline(DocumentOf[j], VersionOf[j], heard) IN
      [outcome |-> outcome,
       backing |-> IF CarriesFloor(outcome) THEN FloorClaims(DocumentOf[j], heard) ELSE <<>>]
      : heard \in Surviving(DocumentOf[j])}]

-----------------------------------------------------------------------------
JobsInit ==
  /\ queue = [j \in Jobs |-> Absent]
  /\ inFlight = [w \in Workers |-> Idle]
  /\ handed = [j \in Jobs |-> [times |-> 0, outcome |-> Nothing, backing |-> <<>>]]
  /\ reclaims = [j \in Jobs |-> 0]
  /\ deaths = 0

Enqueue(j) ==
  /\ enqueue(j)
  /\ UNCHANGED <<inFlight, handed, reclaims, deaths>>

Claim(w, j) ==
  /\ FreeWorker(w)
  /\ claim(j)
  /\ inFlight' = [inFlight EXCEPT ![w] = [Idle EXCEPT !.job = j]]
  /\ reclaims' = IF LeaseExpired(queue[j]) THEN [reclaims EXCEPT ![j] = @ + 1] ELSE reclaims
  /\ UNCHANGED <<handed, deaths>>

\* The object is missing from the store, or the outcome could not be handed on:
\* retryable.
Stumble(w, j) ==
  /\ Runs(w, j)
  /\ fail(j, FALSE, inFlight[w].age)
  /\ inFlight' = [inFlight EXCEPT ![w] = Idle]
  /\ UNCHANGED <<handed, reclaims, deaths>>

\* The pipeline reached no conclusion.
Reject(w, j) ==
  /\ Runs(w, j)
  /\ \E c \in Conclusions[j] :
       c.outcome.kind = "SCHEMA_INVALID" /\ fail(j, c.outcome.terminal, inFlight[w].age)
  /\ inFlight' = [inFlight EXCEPT ![w] = Idle]
  /\ UNCHANGED <<handed, reclaims, deaths>>

\* onOutcome: a conflict is a conclusion and a successful job.
HandOn(w, j) ==
  /\ Runs(w, j)
  /\ \E c \in Conclusions[j] :
       /\ c.outcome.kind # "SCHEMA_INVALID"
       /\ handed' = [handed EXCEPT ![j] =
            [times |-> @.times + 1, outcome |-> c.outcome, backing |-> c.backing]]
  /\ inFlight' = [inFlight EXCEPT ![w].handing = TRUE]
  /\ UNCHANGED <<queue, reclaims, deaths>>

Report(w) ==
  /\ inFlight[w].handing
  /\ succeed(inFlight[w].job)
  /\ inFlight' = [inFlight EXCEPT ![w] = Idle]
  /\ UNCHANGED <<handed, reclaims, deaths>>

\* The worker's lease stays behind.
Die(w) ==
  /\ ~FreeWorker(w) /\ deaths < MaxDeaths
  /\ inFlight' = [inFlight EXCEPT ![w] = Idle]
  /\ deaths' = deaths + 1
  /\ UNCHANGED <<queue, handed, reclaims>>

JobsTick ==
  /\ elapse
  /\ inFlight' = [w \in Workers |->
       IF FreeWorker(w) \/ inFlight[w].age = MaxAge THEN inFlight[w] ELSE [inFlight[w] EXCEPT !.age = @ + 1]]
  /\ UNCHANGED <<handed, reclaims, deaths>>

Proceed(w) == Report(w) \/ \E j \in Jobs : Stumble(w, j) \/ Reject(w, j) \/ HandOn(w, j)

JobsNext ==
  \/ \E j \in Jobs : Enqueue(j)
  \/ \E w \in Workers, j \in Jobs : Claim(w, j)
  \/ \E w \in Workers : Proceed(w) \/ Die(w)
  \/ JobsTick

\* A promise goes on, time passes, and the host calls runPipelineJobOnce again.
JobsSpec ==
  /\ JobsInit /\ [][JobsNext]_jobVars
  /\ \A w \in Workers : WF_jobVars(Proceed(w))
  /\ WF_jobVars(\E w \in Workers, j \in Jobs : Claim(w, j))
  /\ WF_jobVars(JobsTick)

-----------------------------------------------------------------------------
(* Properties. *)

\* A conclusion is handed on a second time only if the job was taken from an
\* expired lease: a duplicate submission, a retry or a report never repeats it
\* (jobs.ts runPipelineJobOnce, queue.ts enqueue and claim).
RepeatsNeedAReclaim == \A j \in Jobs : handed[j].times <= 1 + reclaims[j]

\* A path stands behind a floor if it gave it with a quote that is not foreign to
\* the document, and no other chunk that was heard gave another with a true quote.
StandsBehind(x, claims, floor) ==
  /\ \E c \in claims : c.value = floor /\ c.fits /\ c.quote \notin {"foreign", "none"}
  /\ RouteOf[x] = "CHAINGPT" =>
       \A c \in claims : c.fits /\ c.quote \in {"verbatim", "reflowed"} => c.value \in {floor, UNKNOWN}

\* A redemption floor reaches a Passport only if paths of two independent groups
\* stand behind that very floor, whichever chunks were lost: a single model asked
\* twice does not corroborate itself, and one that contradicts itself abstains
\* (corroborate.ts independenceGroup, candidate.ts resolveRedemption,
\* extractor.ts mergeChunkClaims).
FloorNeedsTwoPaths ==
  \A j \in Jobs :
    LET outcome == handed[j].outcome
        backing == handed[j].backing IN
    CarriesFloor(outcome) =>
      \E x, y \in DOMAIN backing :
        /\ GroupOf[x] # GroupOf[y]
        /\ StandsBehind(x, backing[x], outcome.floor)
        /\ StandsBehind(y, backing[y], outcome.floor)

\* Every job comes to rest although workers die: an expired lease is taken up
\* again and the attempts run out (queue.ts claim: "a crashed worker does not
\* wedge a job forever").
EveryJobSettles ==
  \A j \in Jobs : queue[j] # Absent ~> [](queue[j].state \in Terminal)
=============================================================================
