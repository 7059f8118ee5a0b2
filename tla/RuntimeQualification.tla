------------------------ MODULE RuntimeQualification ------------------------
(***************************************************************************)
(* Qualification of a model runtime (phase0/runtime_qualification.py and    *)
(* the worker scripts/runtime_qualification_worker.py): a machine's         *)
(* environment is frozen into a pin, an external candidate is verified      *)
(* against it and run in a worker process of its own, a built-in one in     *)
(* this process, and the measurement is judged.  Files may change at any    *)
(* time; the worker may hang, die, start processes or go for the network.   *)
(* A file is abstracted to its version; version 0 of the weights is the     *)
(* reviewed one.                                                            *)
(***************************************************************************)
EXTENDS Integers, FiniteSets

CONSTANTS
    MaxChanges    \* how often files change under the qualification

ASSUME QualificationConstants == MaxChanges \in Nat

VARIABLES
    spec,      \* the candidate: external, gpu, policy, and what bars it, if anything
    files,     \* the version of each file on disk
    pin,       \* the runtime pin, taken in two steps
    stage,     \* where run_runtime_qualification stands
    worker,    \* the worker process: where it stands and what it ran with
    helper,    \* a process the worker started
    reply,     \* the worker's last line
    lease,     \* GpuModelLease: "free", "job" or "other"
    result     \* the status of the result, or "raised"

qualVars == <<spec, files, pin, stage, worker, helper, reply, lease, result>>

Files == {"weights", "environment", "interpreter", "script"}
NotCached == MaxChanges + 1
PinnedFiles == {"environment", "interpreter", "script"}

ExternalBars == {"none", "inside repository", "terms", "in-process runner", "other lock"}
BuiltinBars == {"none", "transformers baseline", "no runner", "other family"}
Policies == {"deterministic_required", "seeded_reproducible", "stochastic_characterized"}

\* A measurement: do repeated outputs agree, are they valid, do they stay
\* under the ceiling, is memory back after unload, did the guard raise.
Measures == [same : BOOLEAN, valid : BOOLEAN, fits : BOOLEAN, released : BOOLEAN, net : BOOLEAN]
NoReply == [kind |-> "none"]

QualificationInit ==
    /\ \/ spec \in [external : {TRUE}, gpu : BOOLEAN, policy : Policies, bar : {"none"}]
       \/ spec \in [external : {FALSE}, gpu : {TRUE}, policy : Policies, bar : {"none"}]
       \/ spec \in [external : {TRUE}, gpu : {FALSE}, policy : {"deterministic_required"}, bar : ExternalBars]
       \/ spec \in [external : {FALSE}, gpu : {FALSE}, policy : {"deterministic_required"}, bar : BuiltinBars]
    /\ files = [f \in Files |-> 0]
    /\ pin = [st |-> "pending", of |-> [f \in PinnedFiles |-> -1]]
    /\ stage = "idle" /\ lease = "free" /\ result = "none" /\ reply = NoReply
    /\ worker = [at |-> "off", ran |-> files, id |-> pin.of]
    /\ helper = [at |-> "none", pipe |-> FALSE, seen |-> FALSE]

-----------------------------------------------------------------------------
(* The machine                                                             *)

Changes == Cardinality({f \in Files : files[f] > 0})

\* An upgrade, an edit or a lost download, at any time and for good.
ChangeFile(f) ==
    /\ spec.external /\ result = "none"
    /\ Changes < MaxChanges /\ files[f] = 0
    /\ \E v \in {1} \cup (IF f = "weights" THEN {NotCached} ELSE {}) : files' = [files EXCEPT ![f] = v]
    /\ UNCHANGED <<spec, pin, stage, worker, helper, reply, lease, result>>

\* freeze_runtime_pin: first the interpreter lists what is installed, then the
\* lock, the binary, pyvenv.cfg and the worker script are hashed.
FreezeInventory ==
    /\ spec.external /\ stage = "idle" /\ pin.st = "pending"
    /\ pin' = [st |-> "listed", of |-> [pin.of EXCEPT !["environment"] = files["environment"]]]
    /\ UNCHANGED <<spec, files, stage, worker, helper, reply, lease, result>>

FreezeHashes ==
    /\ pin.st = "listed" /\ stage = "idle"
    /\ pin' = [st |-> "approved",
               of |-> [pin.of EXCEPT !["interpreter"] = files["interpreter"], !["script"] = files["script"]]]
    /\ UNCHANGED <<spec, files, stage, worker, helper, reply, lease, result>>

\* Another qualification in this process holds the lease for a while.
OtherLease ==
    /\ spec.gpu /\ result = "none"
    /\ lease' = CASE lease = "free" -> "other" [] lease = "other" -> "free" [] OTHER -> lease
    /\ lease # "job"
    /\ UNCHANGED <<spec, files, pin, stage, worker, helper, reply, result>>

-----------------------------------------------------------------------------
(* run_runtime_qualification                                               *)

Verdict(r) ==
    /\ result' = r
    /\ stage' = "done"
    /\ lease' = IF lease = "job" THEN "free" ELSE lease

\* Paths, terms, the pin's admission, the runner and the lock, in turn; then
\* the lease, which does not wait: entering a held one raises.
Barred == spec.bar # "none" \/ (spec.external /\ pin.st # "approved")

BeginQualification ==
    /\ stage = "idle"
    /\ \/ Barred /\ Verdict("quarantined")
       \/ /\ ~Barred
          /\ IF spec.gpu /\ lease # "free"
             THEN Verdict("raised")
             ELSE /\ stage' = IF spec.external THEN "verify" ELSE "run"
                  /\ lease' = IF spec.gpu THEN "job" ELSE lease
                  /\ UNCHANGED result
    /\ UNCHANGED <<spec, files, pin, worker, helper, reply>>

\* Every cached file is of the reviewed closure, with its digest.
WeightsVerified == files["weights"] = 0

\* The lock, the interpreter and the script have the pinned hashes.  Of what is
\* installed only the manifest is compared.
RuntimeVerified == \A f \in {"interpreter", "script"} : files[f] = pin.of[f]

VerifyPins ==
    /\ stage = "verify"
    /\ IF WeightsVerified /\ RuntimeVerified
       THEN stage' = "recheck" /\ UNCHANGED <<result, lease>>
       ELSE Verdict("quarantined")
    /\ UNCHANGED <<spec, files, pin, worker, helper, reply>>

\* The hashes once more, just before the worker is started.
RecheckPins ==
    /\ stage = "recheck"
    /\ IF RuntimeVerified
       THEN stage' = "popen" /\ UNCHANGED <<result, lease>>
       ELSE Verdict("quarantined")
    /\ UNCHANGED <<spec, files, pin, worker, helper, reply>>

StartWorker ==
    /\ stage = "popen"
    /\ stage' = "wait"
    /\ worker' = [worker EXCEPT !.at = "started", !.ran = files]
    /\ UNCHANGED <<spec, files, pin, helper, reply, lease, result>>

-----------------------------------------------------------------------------
(* The worker                                                              *)

Exits(r) ==
    /\ worker' = [worker EXCEPT !.at = "exited"]
    /\ reply' = r
    /\ helper' = IF helper.at = "attached" THEN [helper EXCEPT !.at = "orphan"] ELSE helper
    /\ UNCHANGED <<spec, files, pin, stage, lease, result>>

\* What the worker finds out about itself.
ReportedAsAsked == pin.of
Reported == [f \in PinnedFiles |-> files[f]]

Identify ==
    /\ worker.at = "started"
    /\ IF Reported = pin.of
       THEN /\ worker' = [at |-> "identified", id |-> Reported,
                          ran |-> [worker.ran EXCEPT !["environment"] = files["environment"]]]
            /\ UNCHANGED <<spec, files, pin, stage, helper, reply, lease, result>>
       ELSE Exits([kind |-> "error"])

\* _load_real_model reads the cached weights; a library may go for the network,
\* where the guard raises, or raise for any other reason.
LoadModel ==
    /\ worker.at = "identified"
    /\ \/ /\ files["weights"] # NotCached
          /\ worker' = [worker EXCEPT !.at = "loaded", !.ran["weights"] = files["weights"]]
          /\ UNCHANGED <<spec, files, pin, stage, helper, reply, lease, result>>
       \/ \E k \in {"network", "error"} : Exits([kind |-> k])

\* What the repeated inferences and the batch may come to when nothing raises.
Inferences == {m \in Measures : ~m.net}

\* The inferences, the unloading and the reply.
InferAndReply ==
    /\ worker.at = "loaded"
    /\ \/ \E m \in Inferences :
            Exits([kind |-> "success", id |-> worker.id, m |-> m,
                   seeded |-> spec.policy = "seeded_reproducible"])
       \/ \E k \in {"network", "error"} : Exits([kind |-> k])

WorkerDies == worker.at \in {"started", "identified", "loaded"} /\ Exits(NoReply)

\* A library starts a process, with or without the worker's standard output.
StartHelper ==
    /\ worker.at \in {"identified", "loaded"} /\ helper.at = "none"
    /\ \E p \in BOOLEAN : helper' = [at |-> "attached", pipe |-> p, seen |-> FALSE]
    /\ UNCHANGED <<spec, files, pin, stage, worker, reply, lease, result>>

HelperEnds ==
    /\ helper.at \in {"attached", "orphan"}
    /\ helper' = [helper EXCEPT !.at = "gone"]
    /\ UNCHANGED <<spec, files, pin, stage, worker, reply, lease, result>>

\* The monitor samples the tree under the worker every ten milliseconds.
SampleTree ==
    /\ stage = "wait" /\ helper.at = "attached"
    /\ helper' = [helper EXCEPT !.seen = TRUE]
    /\ UNCHANGED <<spec, files, pin, stage, worker, reply, lease, result>>

-----------------------------------------------------------------------------
(* Waiting for the worker and judging it                                   *)

HelperAlive == helper.at \in {"attached", "orphan"}
PipeHeld == HelperAlive /\ helper.pipe

\* communicate returns when the pipes are closed and the worker has exited.
Collect ==
    /\ stage = "wait" /\ worker.at = "exited" /\ ~PipeHeld
    /\ IF reply.kind = "none"
       THEN Verdict("failed")
       ELSE stage' = "judge" /\ UNCHANGED <<result, lease>>
    /\ UNCHANGED <<spec, files, pin, worker, helper, reply>>

\* After 120 seconds the tree under the worker is killed, orphans excepted,
\* and the pipes are read to their end without a time limit.
TimeoutKeepsWorker ==
    /\ stage = "wait"
    /\ stage' = "drain"
    /\ UNCHANGED <<spec, files, pin, worker, helper, reply, lease, result>>

Timeout ==
    /\ stage = "wait"
    /\ stage' = "drain"
    /\ worker' = IF worker.at = "exited" THEN worker ELSE [worker EXCEPT !.at = "killed"]
    /\ helper' = IF helper.at = "attached" THEN [helper EXCEPT !.at = "gone"] ELSE helper
    /\ UNCHANGED <<spec, files, pin, reply, lease, result>>

Drain ==
    /\ stage = "drain" /\ worker.at \in {"exited", "killed"} /\ ~PipeHeld
    /\ Verdict("failed")
    /\ UNCHANGED <<spec, files, pin, worker, helper, reply>>

\* Equal digests, or for a stochastic candidate different ones.
Repeatable(m) == IF spec.policy = "stochastic_characterized" THEN ~m.same ELSE m.same

\* _isolated_worker_resource: memory counts as released when the worker says
\* so or when every process the monitor saw has left.
MemoryReleased(m) == m.released \/ ~(HelperAlive /\ helper.seen)

IdentityMatches == reply.id = pin.of
SeedsApplied == spec.policy = "seeded_reproducible" => reply.seeded
OutputsValid(m) == m.valid

\* A worker that reports a network attempt or an error fails before the rest
\* is looked at.
JudgeWorker ==
    /\ stage = "judge"
    /\ Verdict(IF /\ reply.kind = "success"
                  /\ IdentityMatches /\ SeedsApplied
                  /\ OutputsValid(reply.m) /\ Repeatable(reply.m)
                  /\ reply.m.fits /\ MemoryReleased(reply.m)
               THEN "measured" ELSE "failed")
    /\ UNCHANGED <<spec, files, pin, worker, helper, reply>>

\* network_blocked raises on the first attempt.
Guarded(m) == ~m.net

\* _run_loaded_qualification: a built-in runner in this process, the network
\* blocked for the time; there is no time limit and memory must come back.
RunLoaded ==
    /\ stage = "run"
    /\ \E m \in Measures :
         /\ Verdict(IF /\ Guarded(m) /\ OutputsValid(m) /\ Repeatable(m)
                       /\ m.fits /\ m.released
                    THEN "measured" ELSE "failed")
         /\ reply' = [kind |-> "in-process", m |-> m]
    /\ UNCHANGED <<spec, files, pin, worker, helper>>

-----------------------------------------------------------------------------
ParentStep ==
    \/ VerifyPins \/ RecheckPins \/ StartWorker
    \/ Collect \/ Timeout \/ Drain \/ JudgeWorker

QualificationNext ==
    \/ \E f \in Files : ChangeFile(f)
    \/ FreezeInventory \/ FreezeHashes \/ OtherLease
    \/ BeginQualification \/ RunLoaded
    \/ ParentStep
    \/ Identify \/ LoadModel \/ InferAndReply \/ WorkerDies
    \/ StartHelper \/ HelperEnds \/ SampleTree
QualificationSpec == QualificationInit /\ [][QualificationNext]_qualVars

-----------------------------------------------------------------------------
(* Properties                                                              *)

\* run_runtime_qualification: a measured external candidate ran under the
\* interpreter and the worker script of the pin with the packages the pin lists
\* installed, its outputs repeat as its policy asks, the guard never raised, and
\* its memory is back: the worker says so, or no process the monitor saw lives.
MeasuredIsEarned ==
    result = "measured" =>
      /\ ~reply.m.net /\ reply.m.fits /\ reply.m.valid
      /\ (reply.m.same <=> spec.policy # "stochastic_characterized")
      /\ IF spec.external
         THEN /\ \A f \in PinnedFiles : worker.ran[f] = pin.of[f]
              /\ worker.at = "exited"
              /\ (~reply.m.released /\ helper.seen => ~HelperAlive)
         ELSE reply.m.released

\* _run_isolated_runtime_qualification: a worker that hangs ends in a verdict and
\* gives the GPU back, unless a process it left behind keeps its output open.
VerdictUnlessHeldOpen ==
    stage \in {"verify", "wait"} ~> \/ result # "none" /\ lease # "job"
                                  \/ PipeHeld
=============================================================================
