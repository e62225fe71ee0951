------------------------------- MODULE MapRun -------------------------------
(***************************************************************************)
(* A resumable map run: internal/llmmap/llmmap.go.                         *)
(*                                                                         *)
(* A run admits its input, opens the state directory, feeds the unfinished *)
(* items through a bounded channel to a pool of workers, assembles the     *)
(* item states into one output file and removes the directory.  The state  *)
(* of an item is saved, by an atomic rename, before every attempt and      *)
(* after it, so a run that is cancelled, fails or is killed leaves what a  *)
(* later run of the same job goes on from.                                 *)
(*                                                                         *)
(* A job is an input and a configuration key (processor, prompt, schema);  *)
(* the limits the manifest also compares are constants here.  One run at a *)
(* time uses the directory.                                                *)
(***************************************************************************)
EXTENDS Integers, Sequences, FiniteSets

CONSTANTS
    Items,        \* number of items of every input
    Inputs,       \* inputs a job may have
    Keys,         \* configuration keys a job may have
    Workers,      \* the pool; its size is also the capacity of the channel
    MaxAttempts,  \* MaxRetries + 1
    MaxCalls,     \* budget of processor calls, 0 for none
    MaxFaults     \* bound: cancellations, failed saves and kills

ASSUME RunAssumption ==
    /\ Items \in Nat /\ MaxCalls \in Nat /\ MaxFaults \in Nat
    /\ MaxAttempts \in Nat \ {0}
    /\ IsFiniteSet(Workers) /\ Workers # {}

VARIABLES
    manifest,     \* the job manifest.json names, in a set; {} if there is none
    snapshot,     \* the input of input.jsonl, in a set; {} if there is none
    items,        \* the files of items/, a function on the items that have one
    output,       \* the output file, in a set; {} if there is none
    job,          \* the job of the current or last run
    pc,           \* where Run is
    next,         \* the item the scanner is at
    queue,        \* the channel pool.work
    workers,      \* each worker and the item it holds
    cancelled,    \* the run's context is done: interrupt or timeout
    workerError,  \* pool.errors holds an error, and the pool is cancelled
    scanError,    \* scanJSONL returned an error
    calls,        \* processor calls made for each item since it had no state
    torn,         \* a run died while it removed the directory
    faults        \* faults so far

durable == <<manifest, snapshot, items, output>>
process == <<job, pc, next, queue, workers, cancelled, workerError, scanError>>
ghosts  == <<calls, torn, faults>>
vars    == <<durable, process, ghosts>>

Index    == 1..Items
Job      == [input : Inputs, key : Keys]
Statuses == {"running", "completed", "failed"}

\* ItemState; key stands for its output, which was computed under that key.
ItemState == [input : Inputs, status : Statuses, attempts : 0..MaxAttempts, key : Keys]

PCs == {"idle", "snapshot", "scanning", "draining", "assembling", "removing"}

Held == [at : {"waiting", "attempting", "calling", "gone"}, item : 0..Items, attempts : 0..MaxAttempts]

Waiting == [at |-> "waiting", item |-> 0, attempts |-> 0]

Terminal(i) == i \in DOMAIN items /\ items[i].status \in {"completed", "failed"}

\* The pool's context is done.
PoolDone == cancelled \/ workerError

Init ==
    /\ manifest = {} /\ snapshot = {} /\ items = <<>> /\ output = {}
    /\ job \in Job
    /\ pc = "idle" /\ next = 1 /\ queue = <<>>
    /\ workers = [w \in Workers |-> Waiting]
    /\ cancelled = FALSE /\ workerError = FALSE /\ scanError = FALSE
    /\ calls = [i \in Index |-> 0] /\ torn = FALSE /\ faults = 0

(***************************************************************************)
(* Starting a run                                                          *)
(***************************************************************************)
\* Seeded fault: the manifest is not compared.
OpenAnyManifest(j) ==
    /\ pc = "idle"
    /\ MaxCalls > 0 => Items * MaxAttempts <= MaxCalls
    /\ manifest' = {j}
    /\ job' = j
    /\ pc' = "snapshot"
    /\ next' = 1 /\ queue' = <<>>
    /\ workers' = [w \in Workers |-> Waiting]
    /\ cancelled' = FALSE /\ workerError' = FALSE /\ scanError' = FALSE
    /\ UNCHANGED <<snapshot, items, output, ghosts>>

\* settings, preflight and openStateStore: the worst case must fit the budget,
\* and a manifest that is there must be this job's.
Open(j) ==
    /\ pc = "idle"
    /\ MaxCalls > 0 => Items * MaxAttempts <= MaxCalls
    /\ manifest \subseteq {j}
    /\ manifest' = {j}
    /\ job' = j
    /\ pc' = "snapshot"
    /\ next' = 1 /\ queue' = <<>>
    /\ workers' = [w \in Workers |-> Waiting]
    /\ cancelled' = FALSE /\ workerError' = FALSE /\ scanError' = FALSE
    /\ UNCHANGED <<snapshot, items, output, ghosts>>

\* Seeded fault: a snapshot that is there ends the run.
PrepareSnapshotOnce ==
    /\ pc = "snapshot"
    /\ pc' = IF snapshot = {} THEN "scanning" ELSE "idle"
    /\ snapshot' = IF snapshot = {} THEN {job.input} ELSE snapshot
    /\ UNCHANGED <<manifest, items, output, job, next, queue, workers, cancelled,
                   workerError, scanError, ghosts>>

\* prepareInputSnapshot: a snapshot of another input ends the run.
PrepareSnapshot ==
    /\ pc = "snapshot"
    /\ IF snapshot \subseteq {job.input}
         THEN snapshot' = {job.input} /\ pc' = "scanning"
         ELSE pc' = "idle" /\ UNCHANGED snapshot
    /\ UNCHANGED <<manifest, items, output, job, next, queue, workers, cancelled,
                   workerError, scanError, ghosts>>

(***************************************************************************)
(* The scanner                                                             *)
(***************************************************************************)
Scanning == pc = "scanning" /\ next <= Items

\* resumableWork: a state of another input is an error.
Mismatch(i) == i \in DOMAIN items /\ items[i].input # job.input

Skip ==
    /\ Scanning
    /\ Terminal(next) /\ ~Mismatch(next)
    /\ next' = next + 1
    /\ UNCHANGED <<durable, job, pc, queue, workers, cancelled, workerError, scanError, ghosts>>

\* Seeded fault: a resumed item starts counting its attempts again.
EnqueueAfresh ==
    /\ Scanning
    /\ ~Terminal(next) /\ ~Mismatch(next)
    /\ Len(queue) < Cardinality(Workers)
    /\ queue' = Append(queue, [item |-> next, attempts |-> 0])
    /\ next' = next + 1
    /\ UNCHANGED <<durable, job, pc, workers, cancelled, workerError, scanError, ghosts>>

\* The send of enqueue; a full channel blocks it.
Enqueue ==
    /\ Scanning
    /\ ~Terminal(next) /\ ~Mismatch(next)
    /\ Len(queue) < Cardinality(Workers)
    /\ queue' = Append(queue, [item |-> next,
                   attempts |-> IF next \in DOMAIN items THEN items[next].attempts ELSE 0])
    /\ next' = next + 1
    /\ UNCHANGED <<durable, job, pc, workers, cancelled, workerError, scanError, ghosts>>

\* The scan ends in an error: a mismatch, or the context is done while an item
\* is to be sent.
StopScan ==
    /\ Scanning
    /\ Mismatch(next) \/ (~Terminal(next) /\ PoolDone)
    /\ scanError' = TRUE /\ pc' = "draining"
    /\ UNCHANGED <<durable, job, next, queue, workers, cancelled, workerError, ghosts>>

\* finish closes the channel.
EndScan ==
    /\ pc = "scanning" /\ next > Items
    /\ pc' = "draining"
    /\ UNCHANGED <<durable, job, next, queue, workers, cancelled, workerError, scanError, ghosts>>

(***************************************************************************)
(* The workers                                                             *)
(***************************************************************************)
Take(w) ==
    /\ pc \in {"scanning", "draining"}
    /\ workers[w].at = "waiting" /\ queue # <<>>
    /\ workers' = [workers EXCEPT ![w] =
          [at |-> "attempting", item |-> Head(queue).item, attempts |-> Head(queue).attempts]]
    /\ queue' = Tail(queue)
    /\ UNCHANGED <<durable, job, pc, next, cancelled, workerError, scanError, ghosts>>

\* writeJSONAtomic: the item's file is replaced as a whole.
Save(i, status, attempts) ==
    items' = [j \in DOMAIN items \cup {i} |->
                IF j = i
                  THEN [input |-> job.input, status |-> status, attempts |-> attempts, key |-> job.key]
                  ELSE items[j]]

At(w, where) == workers[w].at = where

Rest(w) == workers' = [workers EXCEPT ![w] = Waiting]

\* The context is done before an attempt: the item stays unfinished.
Yield(w) ==
    /\ At(w, "attempting") /\ workers[w].attempts < MaxAttempts /\ PoolDone
    /\ Save(workers[w].item, "running", workers[w].attempts)
    /\ Rest(w)
    /\ UNCHANGED <<manifest, snapshot, output, job, pc, next, queue, cancelled, workerError,
                   scanError, ghosts>>

\* Seeded fault: the loop does not stop at MaxAttempts.
CallPastLimit(w) ==
    /\ At(w, "attempting") /\ ~PoolDone
    /\ Save(workers[w].item, "running", workers[w].attempts + 1)
    /\ calls' = [calls EXCEPT ![workers[w].item] = @ + 1]
    /\ workers' = [workers EXCEPT ![w].at = "calling", ![w].attempts = @ + 1]
    /\ UNCHANGED <<manifest, snapshot, output, job, pc, next, queue, cancelled, workerError,
                   scanError, torn, faults>>

\* The attempt is saved, then the processor is called.
Call(w) ==
    /\ At(w, "attempting") /\ workers[w].attempts < MaxAttempts /\ ~PoolDone
    /\ Save(workers[w].item, "running", workers[w].attempts + 1)
    /\ calls' = [calls EXCEPT ![workers[w].item] = @ + 1]
    /\ workers' = [workers EXCEPT ![w].at = "calling", ![w].attempts = @ + 1]
    /\ UNCHANGED <<manifest, snapshot, output, job, pc, next, queue, cancelled, workerError,
                   scanError, torn, faults>>

\* The processor returns a valid output.
Complete(w) ==
    /\ At(w, "calling")
    /\ Save(workers[w].item, "completed", workers[w].attempts)
    /\ Rest(w)
    /\ UNCHANGED <<manifest, snapshot, output, job, pc, next, queue, cancelled, workerError,
                   scanError, ghosts>>

\* The processor fails, or returns an output that is too large or not valid.
Reject(w) ==
    /\ At(w, "calling")
    /\ Save(workers[w].item, "running", workers[w].attempts)
    /\ workers' = [workers EXCEPT ![w].at = "attempting"]
    /\ UNCHANGED <<manifest, snapshot, output, job, pc, next, queue, cancelled, workerError,
                   scanError, ghosts>>

\* No attempt is left, in this run or from an earlier one.
GiveUp(w) ==
    /\ At(w, "attempting") /\ workers[w].attempts = MaxAttempts
    /\ Save(workers[w].item, "failed", workers[w].attempts)
    /\ Rest(w)
    /\ UNCHANGED <<manifest, snapshot, output, job, pc, next, queue, cancelled, workerError,
                   scanError, ghosts>>

(***************************************************************************)
(* Ending a run                                                            *)
(***************************************************************************)
AllReturned ==
    \A w \in Workers : At(w, "gone") \/ (At(w, "waiting") /\ queue = <<>>)

\* Seeded fault: the parent context is not looked at.
FinishIgnoringCancel ==
    /\ pc = "draining" /\ AllReturned
    /\ pc' = IF workerError \/ scanError THEN "idle" ELSE "assembling"
    /\ UNCHANGED <<durable, job, next, queue, workers, cancelled, workerError, scanError, ghosts>>

\* Every worker has returned: a worker's error, the scan's or the context's
\* ends the run with the state in place.
Finish ==
    /\ pc = "draining" /\ AllReturned
    /\ pc' = IF workerError \/ scanError \/ cancelled THEN "idle" ELSE "assembling"
    /\ UNCHANGED <<durable, job, next, queue, workers, cancelled, workerError, scanError, ghosts>>

\* assembleOutput: one record per item in input order, published by a rename;
\* an item without a terminal state ends the run.
Assemble ==
    /\ pc = "assembling"
    /\ IF \A i \in Index : Terminal(i)
         THEN /\ output' = {[job |-> job, records |-> items]}
              /\ pc' = "removing"
         ELSE pc' = "idle" /\ UNCHANGED output
    /\ UNCHANGED <<manifest, snapshot, items, job, next, queue, workers, cancelled,
                   workerError, scanError, ghosts>>

\* Seeded fault: the directory is emptied while an item has not been delivered.
RemoveFirst ==
    /\ pc \in {"assembling", "removing"}
    /\ \/ manifest # {} /\ manifest' = {} /\ UNCHANGED <<snapshot, items, calls>>
       \/ snapshot # {} /\ snapshot' = {} /\ UNCHANGED <<manifest, items, calls>>
       \/ \E i \in DOMAIN items :
            /\ items' = [j \in DOMAIN items \ {i} |-> items[j]]
            /\ calls' = [calls EXCEPT ![i] = 0]
            /\ UNCHANGED <<manifest, snapshot>>
    /\ UNCHANGED <<output, process, torn, faults>>

\* os.RemoveAll deletes one file after another, in the directory's order.
Remove ==
    /\ pc = "removing"
    /\ \/ manifest # {} /\ manifest' = {} /\ UNCHANGED <<snapshot, items, calls>>
       \/ snapshot # {} /\ snapshot' = {} /\ UNCHANGED <<manifest, items, calls>>
       \/ \E i \in DOMAIN items :
            /\ items' = [j \in DOMAIN items \ {i} |-> items[j]]
            /\ calls' = [calls EXCEPT ![i] = 0]
            /\ UNCHANGED <<manifest, snapshot>>
    /\ UNCHANGED <<output, process, torn, faults>>

Succeed ==
    /\ pc = "removing"
    /\ manifest = {} /\ snapshot = {} /\ items = <<>>
    /\ pc' = "idle" /\ torn' = FALSE
    /\ UNCHANGED <<durable, job, next, queue, workers, cancelled, workerError, scanError,
                   calls, faults>>

(***************************************************************************)
(* Faults                                                                  *)
(***************************************************************************)
Fault == faults < MaxFaults /\ faults' = faults + 1

\* An interrupt, or the run's timeout.
Cancel ==
    /\ Fault
    /\ pc \in {"scanning", "draining"} /\ ~cancelled
    /\ cancelled' = TRUE
    /\ UNCHANGED <<durable, job, pc, next, queue, workers, workerError, scanError, calls, torn>>

\* Seeded fault: the error is reported but the pool is not cancelled.
FailSaveQuietly(w) ==
    /\ Fault
    /\ workers[w].at \in {"attempting", "calling"}
    /\ workers' = [workers EXCEPT ![w].at = "gone"]
    /\ UNCHANGED <<durable, job, pc, next, queue, cancelled, workerError, scanError, calls, torn>>

\* A save fails: the worker reports the error, cancels the pool and returns.
FailSave(w) ==
    /\ Fault
    /\ workers[w].at \in {"attempting", "calling"}
    /\ workers' = [workers EXCEPT ![w].at = "gone"]
    /\ workerError' = TRUE
    /\ UNCHANGED <<durable, job, pc, next, queue, cancelled, scanError, calls, torn>>

\* The process is killed, or an I/O error outside the workers ends the run:
\* the durable files are all that is left.
Die ==
    /\ Fault
    /\ pc # "idle"
    /\ pc' = "idle"
    /\ torn' = (torn \/ (pc = "removing" /\ manifest = {}))
    /\ next' = 1 /\ queue' = <<>> /\ workers' = [w \in Workers |-> Waiting]
    /\ UNCHANGED <<durable, job, cancelled, workerError, scanError, calls>>

Step(w) == Take(w) \/ Yield(w) \/ Call(w) \/ Complete(w) \/ Reject(w) \/ GiveUp(w)

Scan == Skip \/ Enqueue \/ StopScan \/ EndScan

Conclude == PrepareSnapshot \/ Finish \/ Assemble \/ Remove \/ Succeed

Next ==
    \/ \E j \in Job : Open(j)
    \/ PrepareSnapshot
    \/ Skip \/ Enqueue \/ StopScan \/ EndScan
    \/ \E w \in Workers :
        \/ Take(w) \/ Yield(w) \/ Call(w) \/ Complete(w) \/ Reject(w) \/ GiveUp(w)
        \/ FailSave(w)
    \/ Finish \/ Assemble \/ Remove \/ Succeed
    \/ Cancel \/ Die

Spec == Init /\ [][Next]_vars

\* Goroutines are scheduled and a processor answers: the host commands it runs
\* are killed with the run's context or their own deadline.
FairSpec ==
    /\ Spec
    /\ WF_vars(Scan) /\ WF_vars(Conclude)
    /\ \A w \in Workers : WF_vars(Step(w))

(***************************************************************************)
(* Properties                                                              *)
(***************************************************************************)
\* Files, channel and workers hold what their Go types allow, and no item is
\* ever attempted more than MaxAttempts times.
TypeOK ==
    /\ manifest \subseteq Job /\ Cardinality(manifest) <= 1
    /\ snapshot \subseteq Inputs /\ Cardinality(snapshot) <= 1
    /\ DOMAIN items \subseteq Index
    /\ \A i \in DOMAIN items : items[i] \in ItemState
    /\ job \in Job /\ pc \in PCs /\ next \in 1..(Items + 1)
    /\ queue \in Seq([item : Index, attempts : 0..MaxAttempts])
    /\ workers \in [Workers -> Held]
    /\ {cancelled, workerError, scanError, torn} \subseteq BOOLEAN
    /\ calls \in [Index -> Nat]
    /\ faults \in 0..MaxFaults

\* However a job is interrupted and resumed, the processor is called for an
\* item at most MaxAttempts times and for all of them within --max-calls.
CallsWithinBudget ==
    /\ \A i \in Index : calls[i] <= MaxAttempts
    /\ MaxCalls > 0 => \A i \in Index : calls[i] * Items <= MaxCalls

\* When workers and scan have ended without an error every item is settled, so
\* assembleOutput never meets an unfinished item.
AssemblyReady == pc = "assembling" => \A i \in Index : Terminal(i)

\* Every record of an output just published was computed for the job that
\* publishes it, unless an earlier run died while it removed the directory.
OutputOf(file) == \A i \in Index : file.records[i].input = file.job.input
                                   /\ file.records[i].key = file.job.key

OutputMatchesJob == pc = "removing" /\ ~torn => \A file \in output : OutputOf(file)

\* What docs/configuration.md says of a changed job: state of another
\* configuration is never used.
StateNeverReused == \A file \in output : OutputOf(file)

\* The run implements the promise of MapJob: terminal items are settled and
\* the output file is what has been delivered.
Result(st) == [ok |-> st.status = "completed", attempts |-> st.attempts, key |-> st.key]

ResultsOf(files) ==
    LET done == {i \in DOMAIN files : files[i].status \in {"completed", "failed"}}
    IN  [i \in done |-> Result(files[i])]

Promise == INSTANCE MapJob WITH
    Items <- Index,
    Results <- [ok : BOOLEAN, attempts : 0..MaxAttempts, key : Keys],
    settled <- ResultsOf(items),
    delivered <- {ResultsOf(file.records) : file \in output}

PromiseSpec == Promise!Spec

\* Every run ends, even when its workers fail while the scanner is blocked.
RunEnds == pc # "idle" ~> pc = "idle"

\* A job whose run is restarted whenever it has not succeeded is published.
JobPublished == []<>(pc = "snapshot") => <>(output # {})
=============================================================================
