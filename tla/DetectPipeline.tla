---------------------------- MODULE DetectPipeline ----------------------------
(***************************************************************************)
(* Detector::detect and its copy detect_impl for one target: the TLS probe *)
(* with its candidate SNIs, the root request, the verdict, and the trace   *)
(* request of an edge.  Every request goes through with_retry.  The        *)
(* network is free: each attempt of each request may end in any way the    *)
(* caller tells apart.                                                     *)
(***************************************************************************)
EXTENDS Integers, Sequences, FiniteSets

CONSTANTS
  Domain,       \* what a caller may pass for domain: "none", "empty" (the
                \* empty text), "default" (the configured SNI) or "own"
  MaxAttempts   \* retry.max_attempts

ASSUME PipelineAssumption ==
  /\ Domain \subseteq {"none", "empty", "default", "own"}
  /\ MaxAttempts \in Nat

VARIABLES
  domain, inRange,  \* the question
  stage,            \* "tls", "root", "trace" or "done"
  candidates,       \* SNIs the TLS probe has not given up on
  host,             \* SNI and Host of the root and trace requests
  attempt,          \* failed attempts of the current request
  result,           \* the DetectionResult under construction
  answer,           \* "pending", "ok" or "err"
  error,            \* of an "err": its stage, and RetriesExceeded's attempts or 0
  log               \* history: every attempt that has ended

vars == <<domain, inRange, stage, candidates, host, attempt, result, answer, error, log>>

Statuses == {"2xx", "3xx", "other"}
Failures == {"transient", "permanent"}
Hosts == {"empty", "default", "own"}
Reasons == {"range", "tls", "server", "ray", "success"}

\* unique_snis: the caller's domain, the default, and at the end the empty
\* SNI, for which the probe connects with the default again.
Candidates ==
  IF domain = "own" THEN <<"own", "default", "empty">> ELSE <<"default", "empty">>

HostOf(sni) == IF sni = "empty" THEN "default" ELSE sni

\* The Host of a target without TLS: the caller's text as it came.
PlainHost == IF domain = "none" THEN "default" ELSE domain

Init ==
  /\ domain \in Domain
  /\ inRange \in BOOLEAN
  /\ stage = "tls"
  /\ candidates = Candidates
  /\ host = "default"
  /\ attempt = 0
  /\ result = [edge |-> inRange, isTls |-> FALSE, usable |-> FALSE,
               confidence |-> "none", colo |-> "absent",
               reasons |-> IF inRange THEN {"range"} ELSE {}]
  /\ answer = "pending"
  /\ error = [stage |-> "none", attempts |-> 0]
  /\ log = <<>>

-----------------------------------------------------------------------------
(* with_retry.                                                             *)

\* Mutant: every failure is tried again.
GivesUpAtLimit(failure) == attempt + 1 >= MaxAttempts

GivesUp(failure) == attempt + 1 >= MaxAttempts \/ failure = "permanent"

\* One attempt ends with r.
Ended(r) ==
  log' = Append(log, [stage |-> stage, end |-> r,
                      tls |-> stage = "tls" \/ result.isTls,
                      sni |-> IF stage = "tls" THEN Head(candidates) ELSE host])

Retry ==
  /\ stage # "done"
  /\ \E f \in Failures : ~GivesUp(f) /\ Ended(f)
  /\ attempt' = attempt + 1
  /\ UNCHANGED <<domain, inRange, stage, candidates, host, result, answer, error>>

-----------------------------------------------------------------------------
(* tls_probe.                                                              *)

\* Mutant: the caller's domain wins over the SNI that worked.
CallersHost(sni) == PlainHost

WorkingHost(sni) == HostOf(sni)

TlsAnswers ==
  /\ stage = "tls"
  /\ \E status \in {"2xx", "3xx"}, server \in BOOLEAN :
       /\ Ended(status)
       /\ result' = [result EXCEPT !.isTls = TRUE,
                       !.reasons = @ \cup IF server THEN {"tls"} ELSE {}]
  /\ stage' = "root"
  /\ host' = WorkingHost(Head(candidates))
  /\ candidates' = <<>>
  /\ attempt' = 0
  /\ UNCHANGED <<domain, inRange, answer, error>>

\* Mutant: a candidate that answered badly is asked again.
TlsFailsAgain ==
  /\ stage = "tls"
  /\ \/ \E f \in Failures : GivesUp(f) /\ Ended(f) /\ candidates' = Tail(candidates)
     \/ Ended("other") /\ UNCHANGED candidates
  /\ attempt' = 0
  /\ IF candidates' # <<>>
     THEN UNCHANGED <<stage, host>>
     ELSE stage' = "root" /\ host' = PlainHost
  /\ UNCHANGED <<domain, inRange, result, answer, error>>

\* A candidate that failed for good, or answered with any other status, gives
\* way to the next one; without candidates the target is taken for plain HTTP.
TlsFails ==
  /\ stage = "tls"
  /\ \/ \E f \in Failures : GivesUp(f) /\ Ended(f)
     \/ Ended("other")
  /\ candidates' = Tail(candidates)
  /\ attempt' = 0
  /\ IF Len(candidates) > 1
     THEN UNCHANGED <<stage, host>>
     ELSE stage' = "root" /\ host' = PlainHost
  /\ UNCHANGED <<domain, inRange, result, answer, error>>

-----------------------------------------------------------------------------
(* The root request, the verdict and the trace request.                    *)

Confidence(usable, shown) ==
  IF inRange
  THEN IF usable \/ shown THEN "high" ELSE "medium"
  ELSE IF usable \/ shown THEN "low" ELSE "none"

\* Mutant: only the address makes an edge.
EdgeByAddress(usable, shown) == inRange

Edge(usable, shown) == Confidence(usable, shown) # "none"

\* analyze_headers and the verdict on a response with or without the two
\* headers that show Cloudflare.
RootAnswers ==
  /\ stage = "root"
  /\ \E status \in Statuses, shown \in SUBSET {"server", "ray"} :
       LET usable == status \in {"2xx", "3xx"}
           edge == Edge(usable, shown # {})
       IN  /\ Ended(status)
           /\ result' = [result EXCEPT !.usable = usable, !.edge = edge,
                           !.confidence = Confidence(usable, shown # {}),
                           !.reasons = @ \cup shown
                                         \cup IF usable THEN {"success"} ELSE {}]
           /\ stage' = IF edge THEN "trace" ELSE "done"
           /\ answer' = IF edge THEN answer ELSE "ok"
  /\ attempt' = 0
  /\ UNCHANGED <<domain, inRange, candidates, host, error>>

\* fetch_edge_info looks at the body only, whatever the status.
TraceAnswers ==
  /\ stage = "trace"
  /\ \E status \in Statuses, colo \in {"absent", "unknown", "located"} :
       /\ Ended(status)
       /\ result' = [result EXCEPT !.colo = colo]
  /\ stage' = "done"
  /\ answer' = "ok"
  /\ attempt' = 0
  /\ UNCHANGED <<domain, inRange, candidates, host, error>>

\* A failure of either request is the answer; a finished verdict is dropped.
\* It is wrapped in RetriesExceeded if there was more than one attempt.
RequestFails ==
  /\ stage \in {"root", "trace"}
  /\ \E f \in Failures : GivesUp(f) /\ Ended(f)
  /\ error' = [stage |-> stage, attempts |-> IF attempt > 0 THEN attempt + 1 ELSE 0]
  /\ stage' = "done"
  /\ answer' = "err"
  /\ attempt' = 0
  /\ UNCHANGED <<domain, inRange, candidates, host, result>>

Next ==
  \/ Retry
  \/ TlsAnswers \/ TlsFails
  \/ RootAnswers
  \/ TraceAnswers
  \/ RequestFails

Spec == Init /\ [][Next]_vars

-----------------------------------------------------------------------------
(* Properties.                                                             *)

Attempt == [stage : {"tls", "root", "trace"}, end : Statuses \cup Failures,
            tls : BOOLEAN, sni : Hosts]

\* Every variable keeps its type; no request is attempted more often than
\* max_attempts allows, or once if that is 0 (with_retry).
TypeOK ==
  /\ domain \in Domain /\ inRange \in BOOLEAN
  /\ stage \in {"tls", "root", "trace", "done"}
  /\ candidates \in Seq(Hosts)
  /\ host \in Hosts
  /\ attempt \in Nat /\ (attempt > 0 => attempt < MaxAttempts)
  /\ result \in [edge : BOOLEAN, isTls : BOOLEAN, usable : BOOLEAN,
                 confidence : {"none", "low", "medium", "high"},
                 colo : {"absent", "unknown", "located"},
                 reasons : SUBSET Reasons]
  /\ answer \in {"pending", "ok", "err"}
  /\ error \in [stage : {"none", "root", "trace"}, attempts : 0..MaxAttempts]
  /\ log \in Seq(Attempt)

Tls == {i \in 1..Len(log) : log[i].stage = "tls"}
Works(i) == log[i].stage = "tls" /\ log[i].end \in {"2xx", "3xx"}

\* detect: a result is consistent with itself and with what the network
\* answered.  An edge has a confidence and a reason, and only an edge has a
\* location; usable means that the root request was answered well; is_tls
\* means that a handshake of this detection was.
VerdictHasEvidence ==
  answer = "ok" =>
    /\ result.edge <=> result.confidence # "none"
    /\ result.edge => result.reasons # {}
    /\ result.colo # "absent" => result.edge /\ log[Len(log)].stage = "trace"
    /\ result.usable <=>
         \E i \in 1..Len(log) : log[i].stage = "root" /\ log[i].end \in {"2xx", "3xx"}
    /\ result.isTls <=> \E i \in 1..Len(log) : Works(i)

\* tls_probe and its use: what follows the TLS probe goes to the SNI that
\* worked, over TLS; without one it goes over plain HTTP with the caller's
\* own host, and only after every candidate was tried.
RequestsFollowProbe ==
  \A i \in 1..Len(log) : log[i].stage # "tls" =>
    \/ \E j \in 1..(i - 1) :
         Works(j) /\ log[i].tls /\ log[i].sni = HostOf(log[j].sni)
    \/ /\ ~log[i].tls /\ log[i].sni = PlainHost
       /\ {log[j].sni : j \in Tls} = {Candidates[k] : k \in 1..Len(Candidates)}

Made(s) == {i \in 1..Len(log) : log[i].stage = s}
SameRequest(i, j) == log[i].stage = log[j].stage /\ log[i].sni = log[j].sni

\* with_retry: only a transient failure is tried again, and an error that
\* names a number of attempts names the number that was made.
RetriesHonest ==
  /\ \A i \in 1..(Len(log) - 1) :
       SameRequest(i, i + 1) => log[i].end = "transient"
  /\ error.attempts > 0 => error.attempts = Cardinality(Made(error.stage))

\* Whatever the network does, a detection makes a bounded number of attempts:
\* the candidates run out, and so do the retries of each request.  As every
\* step ends an attempt, and attempts end by their timeouts, it answers.
DetectionBounded ==
  Len(log) <= (Len(Candidates) + 2) * (IF MaxAttempts > 1 THEN MaxAttempts ELSE 1)

==============================================================================
