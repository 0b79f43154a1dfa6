---------------------------- MODULE BatchContract ----------------------------
(***************************************************************************)
(* What a batch detection promises its caller, without the semaphore, the  *)
(* AIMD controller or the collector: at most Ceiling probes run at once,   *)
(* no probe starts after cancellation, every target gets its answer        *)
(* exactly once, and the batch returns only when all answers are in.       *)
(* BatchDetect implements it in every configuration: with max_concurrency  *)
(* for a ceiling if the concurrency is fixed, else with none but the       *)
(* number of targets.                                                      *)
(***************************************************************************)
EXTENDS Naturals, FiniteSets

CONSTANTS
  Task,     \* the targets of the batch, one task each
  Ceiling   \* how many probes may run at once

VARIABLES
  running,    \* tasks whose probe is on the wire
  answer,     \* what became of each task: "none" until it is decided
  cancelled,  \* the caller's cancellation token
  returned    \* the batch call has returned

vars == <<running, answer, cancelled, returned>>

Answer == {"none", "ok", "err", "cancelled", "lost"}

Init ==
  /\ running = {}
  /\ answer = [t \in Task |-> "none"]
  /\ cancelled = FALSE
  /\ returned = FALSE

\* A probe goes out: only below the ceiling, and never after cancellation.
StartProbe(t) ==
  /\ answer[t] = "none"
  /\ t \notin running
  /\ ~cancelled
  /\ Cardinality(running) < Ceiling
  /\ running' = running \cup {t}
  /\ UNCHANGED <<answer, cancelled, returned>>

\* A running probe is decided; "cancelled" needs the token to have fired.
EndProbe(t, a) ==
  /\ t \in running
  /\ a \in Answer \ {"none"}
  /\ a = "cancelled" => cancelled
  /\ running' = running \ {t}
  /\ answer' = [answer EXCEPT ![t] = a]
  /\ UNCHANGED <<cancelled, returned>>

\* A task that never got to probe is given up after cancellation.
SkipProbe(t) ==
  /\ cancelled
  /\ answer[t] = "none"
  /\ t \notin running
  /\ answer' = [answer EXCEPT ![t] = "cancelled"]
  /\ UNCHANGED <<running, cancelled, returned>>

Cancel ==
  /\ ~cancelled
  /\ ~returned
  /\ cancelled' = TRUE
  /\ UNCHANGED <<running, answer, returned>>

Return ==
  /\ ~returned
  /\ \A t \in Task : answer[t] # "none"
  /\ returned' = TRUE
  /\ UNCHANGED <<running, answer, cancelled>>

Next ==
  \/ \E t \in Task : \/ StartProbe(t)
                     \/ \E a \in Answer : EndProbe(t, a)
                     \/ SkipProbe(t)
  \/ Cancel
  \/ Return

Spec == Init /\ [][Next]_vars
==============================================================================
