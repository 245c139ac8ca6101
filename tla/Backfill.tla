------------------------------ MODULE Backfill ------------------------------
(***************************************************************************)
(* One bar backfill job of xstockstrat-ingest: TriggerBackfill, the        *)
(* detached runner with its concurrent chunks, CancelBackfill, and what a  *)
(* restart makes of it.                                                    *)
(*                                                                         *)
(* One asyncio process: a step is what runs between two awaits, together   *)
(* with the statement it awaits.  Retries of a chunk end in one of three   *)
(* ways: every symbol fetched ("clean"), some symbols failed ("lacking",   *)
(* the row says COMPLETED all the same), nothing fetched ("failed").       *)
(* Failed symbols are known to the running process only.                   *)
(***************************************************************************)
EXTENDS Naturals, FiniteSets

CONSTANTS
  Chunks,     \* chunks the job is planned into
  Width,      \* ingest.backfill.max_concurrent_chunks
  Cancels,    \* CancelBackfill calls, each made once
  MaxTroubles \* bound: crashes and failed statements

VARIABLES
  job,       \* status of the row in ingest.backfill_jobs
  chunk,     \* rows of ingest.backfill_chunks
  registry,  \* the job is in _canceled_jobs
  runner,    \* _run_backfill or _resume_job
  planned,   \* the chunks this job may be planned into: none, if all is covered
  taken,     \* the chunks the runner was handed
  worker,    \* run_one of a chunk
  outcome,   \* what it fetched in this life
  resumed,   \* the process was restarted since the job was triggered
  cancel,    \* a CancelBackfill call
  troubles

jobRows == <<job, chunk>>
runnerVars == <<runner, taken, worker, outcome, resumed>>
backfillVars == <<jobRows, registry, runnerVars, planned, cancel, troubles>>

Outcomes == {"clean", "lacking", "failed"}

BackfillTypeOK ==
  /\ job \in {"none", "queued", "running", "completed", "partial", "failed", "canceled"}
  /\ chunk \in [Chunks -> {"none", "pending", "running"} \cup Outcomes]
  /\ registry \in BOOLEAN
  /\ runner \in {"none", "created", "resumed", "plan", "chunks", "completed", "partial",
                 "failed"}
  /\ resumed \in BOOLEAN
  /\ planned \subseteq Chunks
  /\ taken \subseteq planned
  /\ worker \in [Chunks -> {"none", "ready", "fetch", "record", "over"}]
  /\ outcome \in [Chunks -> {"none"} \cup Outcomes]
  /\ \A b \in Chunks : worker[b] # "none" => b \in taken
  /\ cancel \in [Cancels -> {"none", "read", "write", "over"}]
  /\ troubles \in Nat

BackfillInit ==
  /\ job = "none"
  /\ chunk = [b \in Chunks |-> "none"]
  /\ registry = FALSE
  /\ runner = "none"
  /\ planned \in {{}, Chunks}
  /\ taken = {}
  /\ worker = [b \in Chunks |-> "none"]
  /\ outcome = [b \in Chunks |-> "none"]
  /\ resumed = FALSE
  /\ cancel = [q \in Cancels |-> "none"]
  /\ troubles = 0

Trouble ==
  /\ troubles < MaxTroubles
  /\ troubles' = troubles + 1

-----------------------------------------------------------------------------
(* The runner. *)

\* The row is QUEUED before the task is created.
TriggerBackfill ==
  /\ job = "none"
  /\ job' = "queued"
  /\ runner' = "created"
  /\ UNCHANGED <<chunk, registry, planned, taken, worker, outcome, resumed, cancel, troubles>>

\* The limiter is free: a job canceled while queued does not start.
StartRun ==
  /\ runner = "created"
  /\ IF registry
     THEN registry' = FALSE /\ runner' = "none" /\ UNCHANGED job
     ELSE job' = "running" /\ runner' = "plan" /\ UNCHANGED registry
  /\ UNCHANGED <<chunk, planned, taken, worker, outcome, resumed, cancel, troubles>>

\* A resumed job keeps its chunks.
StartResumed ==
  /\ runner = "resumed"
  /\ IF job = "canceled"
     THEN runner' = "none" /\ UNCHANGED job
     ELSE runner' = "plan" /\ job' = "running"
  /\ UNCHANGED <<chunk, registry, planned, taken, worker, outcome, resumed, cancel, troubles>>

\* Nothing to fetch: COMPLETED, whatever happened to the job meanwhile.
NothingPlanned ==
  /\ runner = "plan"
  /\ planned = {}
  /\ job' = "completed"
  /\ runner' = "none"
  /\ UNCHANGED <<chunk, registry, planned, taken, worker, outcome, resumed, cancel, troubles>>

Incomplete == {b \in planned : chunk[b] \in {"none", "pending", "failed"}}

\* Chunks are inserted, if there are none, and the incomplete ones handed to
\* run_one: gather starts them together, and each looks at the registry first.
RunChunks ==
  /\ runner = "plan"
  /\ planned # {}
  /\ chunk' = [b \in Chunks |-> IF b \in planned /\ chunk[b] = "none" THEN "pending" ELSE chunk[b]]
  /\ taken' = Incomplete
  /\ worker' = [b \in Chunks |-> IF b \notin Incomplete THEN "none"
                                 ELSE IF registry THEN "over" ELSE "ready"]
  /\ runner' = "chunks"
  /\ UNCHANGED <<job, registry, planned, outcome, resumed, cancel, troubles>>

\* The semaphore admits a chunk, whose row becomes RUNNING.
MarkRunning(b) ==
  /\ worker[b] = "ready"
  /\ Cardinality({d \in Chunks : worker[d] \in {"fetch", "record"}}) < Width
  /\ worker' = [worker EXCEPT ![b] = "fetch"]
  /\ chunk' = [chunk EXCEPT ![b] = "running"]
  /\ UNCHANGED <<job, registry, runner, planned, taken, outcome, resumed, cancel, troubles>>

Fetch(b, got) ==
  /\ worker[b] = "fetch"
  /\ worker' = [worker EXCEPT ![b] = "record"]
  /\ outcome' = [outcome EXCEPT ![b] = got]
  /\ UNCHANGED <<jobRows, registry, runner, planned, taken, resumed, cancel, troubles>>

Record(b) ==
  /\ worker[b] = "record"
  /\ worker' = [worker EXCEPT ![b] = "over"]
  /\ chunk' = [chunk EXCEPT ![b] = outcome[b]]
  /\ UNCHANGED <<job, registry, runner, planned, taken, outcome, resumed, cancel, troubles>>

\* The state dict of _run_chunks.
Failed == {b \in Chunks : outcome[b] = "failed"}
Done == {b \in Chunks : outcome[b] \in {"clean", "lacking"}}
FailedSymbols == {b \in Chunks : outcome[b] \in {"failed", "lacking"}}

Verdict ==
  IF Failed # {} /\ Done = {} THEN "failed"
  ELSE IF FailedSymbols # {} THEN "partial" ELSE "completed"

Gathered == runner = "chunks" /\ \A b \in taken : worker[b] = "over"

\* Mutant: the registry is not asked again.
MutFinalize ==
  /\ Gathered
  /\ runner' = Verdict
  /\ UNCHANGED <<jobRows, registry, planned, taken, worker, outcome, resumed, cancel, troubles>>

\* _finalize_backfill looks at the registry and awaits its update.
Finalize ==
  /\ Gathered
  /\ IF registry
     THEN registry' = FALSE /\ runner' = "none"
     ELSE runner' = Verdict /\ UNCHANGED registry
  /\ UNCHANGED <<jobRows, planned, taken, worker, outcome, resumed, cancel, troubles>>

WriteVerdict ==
  /\ runner \in {"completed", "partial", "failed"}
  /\ job' = runner
  /\ runner' = "none"
  /\ UNCHANGED <<chunk, registry, planned, taken, worker, outcome, resumed, cancel, troubles>>

\* What the runner makes of an exception: FAILED unless the job was canceled;
\* a resumed job is left as it is.
Excepted ==
  IF resumed THEN runner' = "none" /\ UNCHANGED registry
  ELSE IF registry THEN registry' = FALSE /\ runner' = "none"
  ELSE runner' = "failed" /\ UNCHANGED registry

\* A statement of the runner fails, the one that says FAILED included.
RunnerFails ==
  /\ runner \notin {"none", "chunks"}
  /\ Trouble
  /\ \/ Excepted
     \/ runner = "failed" /\ runner' = "none" /\ UNCHANGED registry
  /\ UNCHANGED <<jobRows, planned, taken, worker, outcome, cancel, resumed>>

\* A statement of run_one fails: gather raises, and the other chunks go on.  The
\* job's progress is written after the chunk's row.
WorkerFails(b) ==
  /\ worker[b] \in {"ready", "record"}
  /\ Trouble
  /\ \/ UNCHANGED chunk
     \/ worker[b] = "record" /\ chunk' = [chunk EXCEPT ![b] = outcome[b]]
  /\ worker' = [worker EXCEPT ![b] = "over"]
  /\ IF runner = "chunks" THEN Excepted ELSE UNCHANGED <<runner, registry>>
  /\ UNCHANGED <<job, planned, taken, outcome, cancel, resumed>>

-----------------------------------------------------------------------------
(* CancelBackfill reads, registers and writes. *)

CancelRead(q) ==
  /\ cancel[q] = "none"
  /\ job # "none"
  /\ cancel' = [cancel EXCEPT ![q] = IF job \in {"queued", "running"} THEN "read" ELSE "over"]
  /\ UNCHANGED <<jobRows, registry, runnerVars, planned, troubles>>

CancelRegister(q) ==
  /\ cancel[q] = "read"
  /\ registry' = TRUE
  /\ cancel' = [cancel EXCEPT ![q] = "write"]
  /\ UNCHANGED <<jobRows, runnerVars, planned, troubles>>

CancelWrite(q) ==
  /\ cancel[q] = "write"
  /\ job' = "canceled"
  /\ cancel' = [cancel EXCEPT ![q] = "over"]
  /\ UNCHANGED <<chunk, registry, runnerVars, planned, troubles>>

-----------------------------------------------------------------------------
\* The process dies and starts: jobs it left QUEUED or RUNNING are FAILED, and
\* a job with PENDING or FAILED chunks is resumed.
RestartIngest ==
  /\ Trouble
  /\ job # "none"
  /\ job' = (IF job \in {"queued", "running"} THEN "failed" ELSE job)
  /\ registry' = FALSE
  /\ resumed' = TRUE
  /\ runner' = (IF \E b \in Chunks : chunk[b] \in {"pending", "failed"} THEN "resumed" ELSE "none")
  /\ taken' = {}
  /\ worker' = [b \in Chunks |-> "none"]
  /\ outcome' = [b \in Chunks |-> "none"]
  /\ cancel' = [q \in Cancels |-> IF cancel[q] = "none" THEN "none" ELSE "over"]
  /\ UNCHANGED <<chunk, planned>>

BackfillNext ==
  \/ TriggerBackfill \/ StartRun \/ StartResumed \/ NothingPlanned \/ RunChunks
  \/ \E b \in Chunks : MarkRunning(b) \/ Record(b) \/ WorkerFails(b) \/ \E got \in Outcomes : Fetch(b, got)
  \/ Finalize \/ WriteVerdict \/ RunnerFails
  \/ \E q \in Cancels : CancelRead(q) \/ CancelRegister(q) \/ CancelWrite(q)
  \/ RestartIngest

BackfillSpec == BackfillInit /\ [][BackfillNext]_backfillVars

-----------------------------------------------------------------------------
\* A job reports COMPLETED only if every chunk it was planned into was fetched
\* with every symbol: not while a chunk is missing because a cancellation kept
\* it from starting, nor if one failed or fetched a part.  Only a chunk that an
\* earlier life of the process left RUNNING, or COMPLETED in part, and that a
\* resumed runner is therefore not handed, may be lacking.
CompletedMeansFetched ==
  job = "completed" =>
    \A b \in planned :
      \/ chunk[b] = "clean"
      \/ resumed /\ b \notin taken /\ chunk[b] \in {"running", "lacking"}

\* What the comments of _execute_backfill and _finalize_backfill call COMPLETED
\* (clean): nothing of what was planned is missing.
CompletedIsClean == job = "completed" => \A b \in planned : chunk[b] = "clean"

=============================================================================
