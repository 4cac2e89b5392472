----------------------------- MODULE WorkerBoot -----------------------------
(***************************************************************************)
(* The worker registry (src/rust/crates/runtime/src/worker_boot.rs): a     *)
(* control plane that boots coding agents in terminals.  Its callers feed  *)
(* it screen texts and completions and send prompts; every operation runs  *)
(* under the registry's mutex, in whatever order the calls arrive, and     *)
(* push_event rewrites .claw/worker-state.json in the worker's directory.  *)
(*                                                                         *)
(* A screen text is abstracted to the cues the detectors find in it; old   *)
(* text may still be on the screen, so any combination occurs.  All the    *)
(* workers here share one directory and so one state file.  Its writing    *)
(* may fail, for all the events of one operation, and nobody is told; the  *)
(* file is then some older snapshot, of which nothing is claimed.          *)
(***************************************************************************)
EXTENDS Naturals

CONSTANTS Worker, Prompt, NoPrompt,
          MaxAttempts   \* bound: prompts sent to a worker between restarts

ASSUME NoPromptAssumption == NoPrompt \notin Prompt /\ NoPrompt \notin Worker
ASSUME MaxAttemptsAssumption == MaxAttempts \in Nat

VARIABLES
    workers,    \* the registry: a function of the workers created so far
    state_file, \* worker-state.json, Outdated when its last write failed
    confirmed   \* history: workers seen at work on the last prompt sent

workerVars == <<workers, state_file, confirmed>>

Status == {"Spawning", "TrustRequired", "ReadyForPrompt", "Running", "Finished", "Failed"}
FailureKind == {"None", "TrustGate", "PromptDelivery", "Provider"}

WorkerRecord ==
    [status : Status, auto_trust : BOOLEAN, trust_gate_cleared : BOOLEAN,
     auto_recover : BOOLEAN, attempts : Nat, prompt_in_flight : BOOLEAN,
     last_prompt : Prompt \cup {NoPrompt}, replay_prompt : Prompt \cup {NoPrompt},
     last_error : FailureKind]

\* The snapshot of emit_state_file; its is_ready is its status.
WorkerSnapshot(w, k) == [worker |-> w, status |-> k.status,
                   trust_gate_cleared |-> k.trust_gate_cleared,
                   prompt_in_flight |-> k.prompt_in_flight]
Outdated == [worker |-> NoPrompt]

WorkersInit ==
    /\ workers = [w \in {} |-> {}]
    /\ state_file = Outdated
    /\ confirmed = {}

\* emit_state_file: a temporary file and a rename; errors are ignored.
EmitStateFile(w, k) == state_file' \in {WorkerSnapshot(w, k), Outdated}

WorkerBecomes(w, k) == workers' = [workers EXCEPT ![w] = k]
\* push_event: the state as of now goes to the file.
BecomesWithEvent(w, k) == WorkerBecomes(w, k) /\ EmitStateFile(w, k)

Create(w) ==
    /\ w \notin DOMAIN workers
    /\ \E trust, recover \in BOOLEAN :
         LET k == [status |-> "Spawning", auto_trust |-> trust,
                   trust_gate_cleared |-> FALSE, auto_recover |-> recover,
                   attempts |-> 0, prompt_in_flight |-> FALSE,
                   last_prompt |-> NoPrompt, replay_prompt |-> NoPrompt,
                   last_error |-> "None"]
         IN  /\ workers' = [x \in DOMAIN workers \cup {w} |-> IF x = w THEN k ELSE workers[x]]
             /\ EmitStateFile(w, k)
    /\ UNCHANGED confirmed

-----------------------------------------------------------------------------
(***************************************************************************)
(* observe: the trust gate first, then a misdelivered prompt, then signs   *)
(* of work and of readiness.                                               *)
(***************************************************************************)
Gated(k, trust) == ~k.trust_gate_cleared /\ trust
\* Whether the screen asks for trust, which no longer matters once the gate is cleared.
TrustCue(k) == IF k.trust_gate_cleared THEN {FALSE} ELSE BOOLEAN

\* An allowlisted directory resolves the prompt at once.
PassGate(k, trust) ==
    IF Gated(k, trust)
    THEN [k EXCEPT !.status = "Spawning", !.trust_gate_cleared = TRUE, !.last_error = "None"]
    ELSE k

ObserveTrustGate(w) ==
    LET k == workers[w] IN
    /\ Gated(k, TRUE) /\ ~k.auto_trust
    /\ BecomesWithEvent(w, [k EXCEPT !.status = "TrustRequired", !.last_error = "TrustGate"])
    /\ UNCHANGED confirmed

ObserveMisdelivery(w) ==
    \E trust \in TrustCue(workers[w]) :
       LET k == PassGate(workers[w], trust)
           lost == [k EXCEPT !.last_error = "PromptDelivery", !.prompt_in_flight = FALSE]
       IN  /\ Gated(workers[w], trust) => workers[w].auto_trust
           /\ k.prompt_in_flight /\ k.last_prompt # NoPrompt
           /\ BecomesWithEvent(w,
                IF k.auto_recover
                THEN [lost EXCEPT !.status = "ReadyForPrompt", !.replay_prompt = k.last_prompt]
                ELSE [lost EXCEPT !.status = "Failed"])
           /\ UNCHANGED confirmed

\* A sign of work confirms the prompt in flight; no event is pushed.
ShowWork(k, running) ==
    IF running /\ k.prompt_in_flight
    THEN [k EXCEPT !.status = "Running", !.last_error = "None", !.prompt_in_flight = FALSE]
    ELSE k

BecomeReady(k) ==
    [k EXCEPT !.status = "ReadyForPrompt", !.prompt_in_flight = FALSE,
              !.last_error = IF @ = "TrustGate" THEN "None" ELSE @]

\* Mutant: readiness is no event either.
ObserveProgressQuietly(w) ==
    \E trust \in TrustCue(workers[w]), running, ready \in BOOLEAN :
       LET k == PassGate(workers[w], trust)
           shown == ShowWork(k, running)
       IN  /\ Gated(workers[w], trust) => workers[w].auto_trust
           /\ WorkerBecomes(w, IF ready /\ shown.status # "ReadyForPrompt"
                         THEN BecomeReady(shown) ELSE shown)
           /\ IF Gated(workers[w], trust)
              THEN EmitStateFile(w, k) ELSE UNCHANGED state_file
           /\ confirmed' = IF shown # k THEN confirmed \cup {w} ELSE confirmed

\* The screen shows no misdelivered prompt, or none was in flight.
ObserveProgress(w) ==
    \E trust \in TrustCue(workers[w]), running, ready \in BOOLEAN :
       LET k == PassGate(workers[w], trust)
           shown == ShowWork(k, running)
           becomesReady == ready /\ shown.status # "ReadyForPrompt"
       IN  /\ Gated(workers[w], trust) => workers[w].auto_trust
           /\ WorkerBecomes(w, IF becomesReady THEN BecomeReady(shown) ELSE shown)
           /\ CASE becomesReady -> EmitStateFile(w, BecomeReady(shown))
                [] ~becomesReady /\ Gated(workers[w], trust) -> EmitStateFile(w, k)
                [] OTHER -> UNCHANGED state_file
           /\ confirmed' = IF running /\ k.prompt_in_flight
                           THEN confirmed \cup {w} ELSE confirmed

ObserveScreen(w) == ObserveTrustGate(w) \/ ObserveMisdelivery(w) \/ ObserveProgress(w)

-----------------------------------------------------------------------------
ResolveTrust(w) ==
    LET k == workers[w] IN
    /\ k.status = "TrustRequired"
    /\ BecomesWithEvent(w, [k EXCEPT !.status = "Spawning", !.trust_gate_cleared = TRUE,
                                     !.last_error = "None"])
    /\ UNCHANGED confirmed

\* The prompt given, or else the one armed for replay.
SendPrompt(w) ==
    LET k == workers[w] IN
    /\ k.status = "ReadyForPrompt"
    /\ k.attempts < MaxAttempts
    /\ \E p \in Prompt \cup ({k.replay_prompt} \ {NoPrompt}) :
         BecomesWithEvent(w,
            [k EXCEPT !.attempts = @ + 1, !.prompt_in_flight = TRUE, !.last_prompt = p,
                      !.replay_prompt = NoPrompt, !.last_error = "None", !.status = "Running"])
    /\ confirmed' = confirmed \ {w}

Restart(w) ==
    /\ BecomesWithEvent(w,
          [workers[w] EXCEPT !.status = "Spawning", !.trust_gate_cleared = FALSE,
                             !.last_prompt = NoPrompt, !.replay_prompt = NoPrompt,
                             !.last_error = "None", !.attempts = 0,
                             !.prompt_in_flight = FALSE])
    /\ confirmed' = confirmed \ {w}

Terminate(w) ==
    /\ BecomesWithEvent(w, [workers[w] EXCEPT !.status = "Finished", !.prompt_in_flight = FALSE])
    /\ UNCHANGED confirmed

\* finish "error", or "unknown" without output, is a provider failure.
ObserveCompletion(w) ==
    /\ \E failure \in BOOLEAN :
         BecomesWithEvent(w,
            [workers[w] EXCEPT !.status = IF failure THEN "Failed" ELSE "Finished",
                               !.last_error = IF failure THEN "Provider" ELSE "None",
                               !.prompt_in_flight = FALSE])
    /\ UNCHANGED confirmed

WorkersNext ==
    \/ \E w \in Worker : Create(w)
    \/ \E w \in DOMAIN workers :
          \/ ObserveScreen(w) \/ ResolveTrust(w) \/ SendPrompt(w)
          \/ Restart(w) \/ Terminate(w) \/ ObserveCompletion(w)

WorkersSpec == WorkersInit /\ [][WorkersNext]_workerVars

-----------------------------------------------------------------------------
(***************************************************************************)
(* Properties.                                                             *)
(***************************************************************************)

\* A prompt is armed for replay only if the worker was never seen at work on
\* it: recovery does not run a prompt twice.
ReplayUnconfirmed ==
    \A w \in DOMAIN workers : workers[w].replay_prompt # NoPrompt => w \notin confirmed

\* Whoever polls the state file is never wrong about readiness: as long as the
\* file can be written, it says ready of the worker it names exactly when that
\* worker accepts a prompt.
FileTellsReadiness ==
    \A w \in DOMAIN workers :
       state_file.worker = w =>
          (state_file.status = "ReadyForPrompt" <=> workers[w].status = "ReadyForPrompt")

\* A blocked worker (await_ready) always has the error that explains the block,
\* whatever was observed on the way into it.
BlockedHasReason ==
    \A w \in DOMAIN workers :
       /\ workers[w].status = "TrustRequired" => workers[w].last_error = "TrustGate"
       /\ workers[w].status = "Failed" => workers[w].last_error \in {"PromptDelivery", "Provider"}

\* The type invariant.
WorkersTypeOK ==
    /\ DOMAIN workers \subseteq Worker
    /\ workers \in [DOMAIN workers -> WorkerRecord]
    /\ state_file = Outdated \/ state_file \in [worker : Worker, status : Status,
                                  trust_gate_cleared : BOOLEAN, prompt_in_flight : BOOLEAN]
    /\ confirmed \subseteq DOMAIN workers

\* What the registry tells of a worker is so: no prompt it was seen at work on is armed
\* for replay, its state file is right about readiness, and a block has its reason.
WorkersTold == WorkersTypeOK /\ ReplayUnconfirmed /\ FileTellsReadiness /\ BlockedHasReason
=============================================================================
