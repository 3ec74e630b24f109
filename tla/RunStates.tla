----------------------------- MODULE RunStates -----------------------------
(***************************************************************************)
(* The persisted run-state vocabulary (runtime/store.py, RunStateModel)    *)
(* and its legacy spellings.                                               *)
(***************************************************************************)
LaneState == {"preflight", "batch_selection", "lane_plan", "implement", "verify",
              "review_gate", "fix_retry", "integrate", "advance_or_stop"}

SandboxState == {"sandbox_preflight", "in_progress", "preflight_complete",
                 "blocked_waiting_for_gate", "review_required", "failed"}

State == LaneState \cup SandboxState

Terminal == {"advance_or_stop", "failed"}

LaneSuccessors ==
    [preflight       |-> {"batch_selection"},
     batch_selection |-> {"lane_plan", "advance_or_stop"},
     lane_plan       |-> {"implement"},
     implement       |-> {"verify"},
     verify          |-> {"review_gate", "fix_retry"},
     review_gate     |-> {"integrate", "fix_retry", "advance_or_stop"},
     fix_retry       |-> {"implement", "review_gate", "advance_or_stop"},
     integrate       |-> {"verify", "advance_or_stop"},
     advance_or_stop |-> {}]

SandboxSuccessors ==
    [sandbox_preflight |-> {"in_progress", "failed"},
     in_progress |-> {"preflight_complete", "blocked_waiting_for_gate",
                      "review_required", "failed"},
     preflight_complete       |-> {"in_progress", "review_required", "failed"},
     blocked_waiting_for_gate |-> {"in_progress", "review_required", "failed"},
     review_required          |-> {"in_progress", "failed"},
     failed                   |-> {}]

LegalTransitions(state) ==
    IF state \in LaneState THEN LaneSuccessors[state] ELSE SandboxSuccessors[state]

\* Uppercase values of older databases, accepted by the migration only.
LegacyAlias ==
    [SANDBOX_PREFLIGHT |-> "sandbox_preflight", IN_PROGRESS |-> "in_progress",
     PREFLIGHT_COMPLETE |-> "preflight_complete",
     BLOCKED_WAITING_FOR_GATE |-> "blocked_waiting_for_gate",
     REVIEW_REQUIRED |-> "review_required", FAILED |-> "failed",
     STOPPED_BEFORE_B06 |-> "advance_or_stop"]

Legacy == DOMAIN LegacyAlias
=============================================================================
