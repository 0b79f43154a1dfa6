------------------------ MODULE DetectPipeline_proofs ------------------------
(***************************************************************************)
(* For any retry policy and any kinds of domain: the types, the way of the *)
(* requests after the probe, and the evidence behind a verdict.            *)
(***************************************************************************)
EXTENDS DetectPipeline, FiniteSetTheorems, TLAPS

\* What is left of the candidates while the probe goes on.
Suffixes ==
  {s \in {<<"own", "default", "empty">>, <<"default", "empty">>, <<"empty">>} :
     s = <<"own", "default", "empty">> => domain = "own"}

TypeInv == TypeOK /\ (stage = "tls" => candidates \in Suffixes)

-----------------------------------------------------------------------------
(* The candidates and the history.                                         *)

Tried == {log[j].sni : j \in Tls}
All == {Candidates[k] : k \in 1..Len(Candidates)}
Left == {candidates[k] : k \in 1..Len(candidates)}

LEMMA HostLists ==
  /\ <<"own", "default", "empty">> \in Seq(Hosts) /\ Len(<<"own", "default", "empty">>) = 3
  /\ <<"default", "empty">> \in Seq(Hosts) /\ Len(<<"default", "empty">>) = 2
  /\ <<"empty">> \in Seq(Hosts) /\ Len(<<"empty">>) = 1
<1>1. "own" \in Hosts /\ "default" \in Hosts /\ "empty" \in Hosts
  BY DEF Hosts
<1> QED BY <1>1

LEMMA AllCandidates ==
  /\ Candidates \in Suffixes /\ Candidates \in Seq(Hosts)
  /\ domain = "own" => Len(Candidates) = 3
  /\ domain # "own" => Len(Candidates) = 2
<1>1. CASE domain = "own"
  <2>1. Candidates = <<"own", "default", "empty">>
    BY <1>1 DEF Candidates
  <2> QED BY <1>1, <2>1, HostLists DEF Suffixes
<1>2. CASE domain # "own"
  <2>1. Candidates = <<"default", "empty">>
    BY <1>2 DEF Candidates
  <2> QED BY <1>2, <2>1, HostLists DEF Suffixes
<1> QED BY <1>1, <1>2

\* The first candidate and what remains without it.
LEMMA Heads ==
  ASSUME NEW s \in Suffixes
  PROVE  /\ Len(s) \in 1..3 /\ Head(s) \in Hosts /\ Tail(s) \in Seq(Hosts)
         /\ Len(Tail(s)) = Len(s) - 1
         /\ Len(s) > 1 => Tail(s) \in Suffixes
         /\ Len(s) = 1 => Tail(s) = <<>>
<1>1. CASE s = <<"own", "default", "empty">>
  <2>1. Head(s) = "own" /\ Tail(s) = <<"default", "empty">> /\ Len(s) = 3
    BY <1>1
  <2>2. <<"default", "empty">> \in Suffixes /\ "own" \in Hosts
    BY DEF Suffixes, Hosts
  <2>3. Len(Tail(s)) = 2 /\ Tail(s) \in Seq(Hosts)
    BY <2>1, HostLists
  <2>4. Len(s) \in 1..3 /\ Len(Tail(s)) = Len(s) - 1 /\ Len(s) # 1
    BY <2>1, <2>3, SMT
  <2> QED BY <2>1, <2>2, <2>3, <2>4
<1>2. CASE s = <<"default", "empty">>
  <2>1. Head(s) = "default" /\ Tail(s) = <<"empty">> /\ Len(s) = 2
    BY <1>2
  <2>2. <<"empty">> \in Suffixes /\ "default" \in Hosts
    BY DEF Suffixes, Hosts
  <2>3. Len(Tail(s)) = 1 /\ Tail(s) \in Seq(Hosts)
    BY <2>1, HostLists
  <2>4. Len(s) \in 1..3 /\ Len(Tail(s)) = Len(s) - 1 /\ Len(s) # 1
    BY <2>1, <2>3, SMT
  <2> QED BY <2>1, <2>2, <2>3, <2>4
<1>3. CASE s = <<"empty">>
  BY <1>3, SMT DEF Hosts
<1> QED BY <1>1, <1>2, <1>3 DEF Suffixes

LEMMA PlainHostType == TypeOK => PlainHost \in Hosts
BY PipelineAssumption DEF TypeOK, PlainHost, Hosts

Entry(r) == [stage |-> stage, end |-> r,
             tls |-> stage = "tls" \/ result.isTls,
             sni |-> IF stage = "tls" THEN Head(candidates) ELSE host]

\* An attempt that ends is the last entry of the history.
LEMMA HistoryGrows ==
  ASSUME TypeInv, stage # "done", NEW r \in Statuses \cup Failures, Ended(r)
  PROVE  /\ log' \in Seq(Attempt) /\ Len(log) \in Nat /\ Len(log') = Len(log) + 1
         /\ log'[Len(log) + 1] = Entry(r)
         /\ \A i \in 1..Len(log) : log'[i] = log[i]
<1>1. Entry(r) \in Attempt
  <2>1. stage = "tls" => Head(candidates) \in Hosts
    BY Heads DEF TypeInv
  <2>2. stage \in {"tls", "root", "trace"} /\ result.isTls \in BOOLEAN /\ host \in Hosts
    BY DEF TypeInv, TypeOK
  <2>3. (stage = "tls" \/ result.isTls) \in BOOLEAN
    OBVIOUS
  <2> QED BY <2>1, <2>2, <2>3 DEF Entry, Attempt
<1>2. log' = Append(log, Entry(r)) /\ log \in Seq(Attempt)
  BY DEF Ended, Entry, TypeInv, TypeOK
<1> HIDE DEF Entry
<1> QED BY <1>1, <1>2, SMT

-----------------------------------------------------------------------------
(* Types.                                                                  *)

Verdicts == [edge : BOOLEAN, isTls : BOOLEAN, usable : BOOLEAN,
             confidence : {"none", "low", "medium", "high"},
             colo : {"absent", "unknown", "located"},
             reasons : SUBSET Reasons]

LEMMA InitType == Init => TypeInv
<1> SUFFICES ASSUME Init PROVE TypeInv
  OBVIOUS
<1>1. result \in Verdicts
  BY DEF Init, Verdicts, Reasons
<1>2. error \in [stage : {"none", "root", "trace"}, attempts : 0..MaxAttempts]
  <2>1. 0 \in 0..MaxAttempts
    BY PipelineAssumption, SMT
  <2> QED BY <2>1 DEF Init
<1>3. log \in Seq(Attempt) /\ attempt \in Nat /\ ~(attempt > 0)
  BY SMT DEF Init
<1> QED BY <1>1, <1>2, <1>3, AllCandidates DEF Init, TypeInv, TypeOK, Verdicts, Hosts

\* A step that ends an attempt with r and a request with it.
LEMMA RequestEndsType ==
  ASSUME TypeInv, stage # "done", NEW r \in Statuses \cup Failures, Ended(r),
         attempt' = 0, UNCHANGED <<domain, inRange>>,
         stage' \in {"tls", "root", "trace", "done"},
         stage' = "tls" => candidates' \in Suffixes,
         candidates' \in Seq(Hosts), host' \in Hosts, result' \in Verdicts,
         answer' \in {"pending", "ok", "err"},
         error' \in [stage : {"none", "root", "trace"}, attempts : 0..MaxAttempts]
  PROVE  TypeInv'
<1>1. log' \in Seq(Attempt)
  BY HistoryGrows
<1>2. attempt' \in Nat /\ ~(attempt' > 0)
  BY SMT
<1>3. Suffixes' = Suffixes
  BY DEF Suffixes
<1> QED BY <1>1, <1>2, <1>3 DEF TypeInv, TypeOK, Verdicts

LEMMA RetryType == TypeInv /\ Retry => TypeInv'
<1> SUFFICES ASSUME TypeInv, Retry PROVE TypeInv'
  OBVIOUS
<1>1. PICK f \in Failures : ~GivesUp(f) /\ Ended(f)
  BY DEF Retry
<1>2. log' \in Seq(Attempt)
  BY <1>1, HistoryGrows DEF Retry
<1>3. attempt' \in Nat /\ attempt' < MaxAttempts
  BY <1>1, PipelineAssumption, SMT DEF Retry, GivesUp, TypeInv, TypeOK
<1>4. Suffixes' = Suffixes
  BY DEF Retry, Suffixes
<1> QED BY <1>2, <1>3, <1>4 DEF Retry, TypeInv, TypeOK

LEMMA TlsAnswersType == TypeInv /\ TlsAnswers => TypeInv'
<1> SUFFICES ASSUME TypeInv, TlsAnswers PROVE TypeInv'
  OBVIOUS
<1>1. PICK status \in {"2xx", "3xx"}, server \in BOOLEAN :
        /\ Ended(status)
        /\ result' = [result EXCEPT !.isTls = TRUE,
                        !.reasons = @ \cup IF server THEN {"tls"} ELSE {}]
  BY DEF TlsAnswers
<1>2. result' \in Verdicts
  <2>1. result \in Verdicts
    BY DEF TypeInv, TypeOK, Verdicts
  <2> QED BY <1>1, <2>1 DEF Verdicts, Reasons
<1>3. Head(candidates) \in Hosts
  BY Heads DEF TypeInv, TlsAnswers
<1>4. host' \in Hosts
  BY <1>3 DEF TlsAnswers, WorkingHost, HostOf, Hosts
<1>5. /\ stage = "tls" /\ stage' = "root" /\ attempt' = 0
      /\ UNCHANGED <<domain, inRange, answer, error>>
  BY DEF TlsAnswers
<1>6. candidates' \in Seq(Hosts)
  BY SMT DEF TlsAnswers
<1> QED BY <1>1, <1>2, <1>4, <1>5, <1>6, RequestEndsType
        DEF TypeInv, TypeOK, Statuses

LEMMA TlsFailsType == TypeInv /\ TlsFails => TypeInv'
<1> SUFFICES ASSUME TypeInv, TlsFails PROVE TypeInv'
  OBVIOUS
<1>1. PICK r \in Statuses \cup Failures : Ended(r)
  BY DEF TlsFails, Statuses
<1>2. /\ stage = "tls" /\ candidates \in Suffixes /\ candidates' = Tail(candidates)
      /\ attempt' = 0 /\ UNCHANGED <<domain, inRange, result, answer, error>>
  BY DEF TlsFails, TypeInv
<1>3. CASE Len(candidates) > 1
  BY <1>1, <1>2, <1>3, Heads, RequestEndsType DEF TlsFails, TypeInv, TypeOK, Verdicts
<1>4. CASE ~(Len(candidates) > 1)
  <2>1. stage' = "root" /\ host' = PlainHost
    BY <1>4 DEF TlsFails
  <2> QED BY <1>1, <1>2, <2>1, Heads, PlainHostType, RequestEndsType
          DEF TypeInv, TypeOK, Verdicts
<1> QED BY <1>3, <1>4

\* What a root response makes of the result.
RootVerdict(status, shown) ==
  LET usable == status \in {"2xx", "3xx"}
  IN  [result EXCEPT !.usable = usable, !.edge = Edge(usable, shown # {}),
         !.confidence = Confidence(usable, shown # {}),
         !.reasons = @ \cup shown \cup IF usable THEN {"success"} ELSE {}]

LEMMA RootVerdictType ==
  ASSUME TypeInv, NEW status, NEW shown \in SUBSET {"server", "ray"}
  PROVE  RootVerdict(status, shown) \in Verdicts
<1>1. result \in Verdicts
  BY DEF TypeInv, TypeOK, Verdicts
<1>2. \A u, s \in BOOLEAN : Confidence(u, s) \in {"none", "low", "medium", "high"}
                         /\ Edge(u, s) \in BOOLEAN
  BY DEF Confidence, Edge
<1>3. (status \in {"2xx", "3xx"}) \in BOOLEAN /\ (shown # {}) \in BOOLEAN
  OBVIOUS
<1> HIDE DEF Confidence, Edge
<1> QED BY <1>1, <1>2, <1>3 DEF RootVerdict, Verdicts, Reasons

LEMMA RootAnswersType == TypeInv /\ RootAnswers => TypeInv'
<1> SUFFICES ASSUME TypeInv, RootAnswers PROVE TypeInv'
  OBVIOUS
<1>1. PICK status \in Statuses, shown \in SUBSET {"server", "ray"} :
        /\ Ended(status)
        /\ result' = RootVerdict(status, shown)
        /\ stage' \in {"trace", "done"}
        /\ answer' \in {answer, "ok"}
  BY DEF RootAnswers, RootVerdict
<1>2. result' \in Verdicts
  BY <1>1, RootVerdictType
<1>3. stage = "root" /\ attempt' = 0 /\ UNCHANGED <<domain, inRange, candidates, host, error>>
  BY DEF RootAnswers
<1> QED BY <1>1, <1>2, <1>3, RequestEndsType DEF TypeInv, TypeOK

LEMMA TraceAnswersType == TypeInv /\ TraceAnswers => TypeInv'
<1> SUFFICES ASSUME TypeInv, TraceAnswers PROVE TypeInv'
  OBVIOUS
<1>1. PICK status \in Statuses, colo \in {"absent", "unknown", "located"} :
        Ended(status) /\ result' = [result EXCEPT !.colo = colo]
  BY DEF TraceAnswers
<1>2. result' \in Verdicts
  BY <1>1 DEF TypeInv, TypeOK, Verdicts
<1>3. /\ stage = "trace" /\ stage' = "done" /\ answer' = "ok" /\ attempt' = 0
      /\ UNCHANGED <<domain, inRange, candidates, host, error>>
  BY DEF TraceAnswers
<1> QED BY <1>1, <1>2, <1>3, RequestEndsType DEF TypeInv, TypeOK

LEMMA RequestFailsType == TypeInv /\ RequestFails => TypeInv'
<1> SUFFICES ASSUME TypeInv, RequestFails PROVE TypeInv'
  OBVIOUS
<1>1. PICK f \in Failures : Ended(f)
  BY DEF RequestFails
<1>2. error' \in [stage : {"none", "root", "trace"}, attempts : 0..MaxAttempts]
  <2>1. (IF attempt > 0 THEN attempt + 1 ELSE 0) \in 0..MaxAttempts
    BY PipelineAssumption, SMT DEF TypeInv, TypeOK
  <2> QED BY <2>1 DEF RequestFails
<1>3. /\ stage \in {"root", "trace"} /\ stage' = "done" /\ answer' = "err" /\ attempt' = 0
      /\ UNCHANGED <<domain, inRange, candidates, host, result>>
  BY DEF RequestFails
<1> QED BY <1>1, <1>2, <1>3, RequestEndsType DEF TypeInv, TypeOK, Verdicts

LEMMA NextType == TypeInv /\ [Next]_vars => TypeInv'
<1> SUFFICES ASSUME TypeInv, [Next]_vars PROVE TypeInv'
  OBVIOUS
<1>1. CASE UNCHANGED vars
  BY <1>1 DEF vars, TypeInv, TypeOK, Suffixes
<1> QED BY <1>1, RetryType, TlsAnswersType, TlsFailsType, RootAnswersType,
           TraceAnswersType, RequestFailsType DEF Next

LEMMA TypesInvariant == Spec => []TypeInv
BY InitType, NextType, PTL DEF Spec

(* The types hold for every retry policy, that of no attempt at all        *)
(* included: no request is attempted more often than it allows             *)
(* (connector.rs, with_retry).                                             *)
THEOREM DetectTypes == Spec => []TypeOK
BY TypesInvariant, PTL DEF TypeInv

-----------------------------------------------------------------------------
(* The way of the requests.                                                *)

\* Where the requests after the probe go is decided by how the probe ended.
HostDecided ==
  \/ /\ result.isTls
     /\ \E j \in 1..Len(log) : Works(j) /\ host = HostOf(log[j].sni)
  \/ ~result.isTls /\ host = PlainHost /\ Tried = All

TlsShown == result.isTls <=> \E j \in 1..Len(log) : Works(j)

ProbeInv ==
  /\ stage = "tls" =>
       /\ ~result.isTls /\ All = Tried \cup Left
       /\ \A i \in 1..Len(log) : log[i].stage = "tls" /\ ~Works(i)
  /\ stage # "tls" => TlsShown
  /\ stage \in {"root", "trace"} => HostDecided
  /\ RequestsFollowProbe

LEMMA LeftShrinks ==
  ASSUME NEW s \in Suffixes
  PROVE  {s[k] : k \in 1..Len(s)} = {Head(s)} \cup {Tail(s)[k] : k \in 1..Len(Tail(s))}
<1>1. s \in Seq(Hosts) /\ Len(s) >= 1
  <2>1. CASE s = <<"own", "default", "empty">>
    BY <2>1, HostLists
  <2>2. CASE s = <<"default", "empty">>
    BY <2>2, HostLists
  <2>3. CASE s = <<"empty">>
    BY <2>3, HostLists
  <2> QED BY <2>1, <2>2, <2>3 DEF Suffixes
<1>2. Head(s) = s[1] /\ Len(Tail(s)) = Len(s) - 1
      /\ \A k \in 1..(Len(s) - 1) : Tail(s)[k] = s[k + 1]
  BY <1>1
<1>3. \A k \in 1..Len(s) :
        k # 1 => k - 1 \in 1..(Len(s) - 1) /\ s[k] = Tail(s)[k - 1]
  <2>1. Len(s) \in Nat
    BY <1>1
  <2>2. ASSUME NEW k \in 1..Len(s), k # 1
        PROVE  k - 1 \in 1..(Len(s) - 1) /\ s[k] = Tail(s)[k - 1]
    <3>1. k - 1 \in 1..(Len(s) - 1) /\ (k - 1) + 1 = k
      BY <2>1, <2>2, SMT
    <3> QED BY <1>2, <3>1
  <2> QED BY <2>2
<1>4. 1 \in 1..Len(s) /\ \A k \in 1..(Len(s) - 1) : k + 1 \in 1..Len(s)
  BY <1>1, SMT
<1> QED BY <1>2, <1>3, <1>4

\* What one more attempt adds to what the history shows.
LEMMA HistorySets ==
  ASSUME TypeInv, stage # "done", NEW r \in Statuses \cup Failures, Ended(r)
  PROVE  /\ Tried' = IF stage = "tls" THEN Tried \cup {Head(candidates)} ELSE Tried
         /\ \A i \in 1..Len(log) : Works(i)' <=> Works(i)
         /\ \A i : i = Len(log) + 1 => (Works(i)' <=> stage = "tls" /\ r \in {"2xx", "3xx"})
         /\ 1..Len(log') = 1..Len(log) \cup {Len(log) + 1}
         /\ Len(log) + 1 \notin 1..Len(log)
<1>1. /\ Len(log) \in Nat /\ Len(log') = Len(log) + 1
      /\ log'[Len(log) + 1] = Entry(r)
      /\ \A i \in 1..Len(log) : log'[i] = log[i]
  BY HistoryGrows
<1>2. 1..Len(log') = 1..Len(log) \cup {Len(log) + 1} /\ Len(log) + 1 \notin 1..Len(log)
  BY <1>1, SMT
<1>3. /\ Entry(r).stage = stage /\ Entry(r).end = r
      /\ stage = "tls" => Entry(r).sni = Head(candidates)
  BY DEF Entry
<1>4. Tls' = IF stage = "tls" THEN Tls \cup {Len(log) + 1} ELSE Tls
  BY <1>1, <1>2, <1>3 DEF Tls
<1>5. Tried' = IF stage = "tls" THEN Tried \cup {Head(candidates)} ELSE Tried
  <2>1. Tls \subseteq 1..Len(log)
    BY DEF Tls
  <2>2. Tried' = {log'[j].sni : j \in Tls'}
    BY DEF Tried
  <2>3. \A j \in Tls : log'[j].sni = log[j].sni
    BY <1>1, <2>1
  <2>4. stage = "tls" => log'[Len(log) + 1].sni = Head(candidates)
    BY <1>1, <1>3
  <2> QED BY <1>4, <2>2, <2>3, <2>4 DEF Tried
<1>6. \A i \in 1..Len(log) : Works(i)' <=> Works(i)
  BY <1>1 DEF Works
<1>7. ASSUME NEW i, i = Len(log) + 1
      PROVE  Works(i)' <=> stage = "tls" /\ r \in {"2xx", "3xx"}
  <2>1. log'[i].stage = stage /\ log'[i].end = r
    BY <1>1, <1>3, <1>7
  <2> QED BY <2>1 DEF Works
<1> QED BY <1>2, <1>5, <1>6, <1>7

\* An attempt of the probe asks nothing of the order.
LEMMA ProbingFollows ==
  ASSUME TypeInv, ProbeInv, stage = "tls", NEW r \in Statuses \cup Failures, Ended(r)
  PROVE  /\ RequestsFollowProbe'
         /\ \A i \in 1..Len(log') : log'[i].stage = "tls"
<1>1. \A i \in 1..Len(log') : log'[i].stage = "tls"
  <2>1. log'[Len(log) + 1].stage = "tls"
    <3>1. log'[Len(log) + 1] = Entry(r)
      BY HistoryGrows
    <3> QED BY <3>1 DEF Entry
  <2>2. 1..Len(log') = 1..Len(log) \cup {Len(log) + 1}
        /\ \A i \in 1..Len(log) : log'[i] = log[i]
    BY HistoryGrows, HistorySets
  <2> QED BY <2>1, <2>2 DEF ProbeInv
<1> QED BY <1>1 DEF RequestsFollowProbe

\* An attempt of a later request goes where the probe decided.
LEMMA RequestFollows ==
  ASSUME TypeInv, ProbeInv, stage \in {"root", "trace"},
         NEW r \in Statuses \cup Failures, Ended(r),
         domain' = domain, result'.isTls = result.isTls
  PROVE  /\ RequestsFollowProbe' /\ TlsShown'
         /\ host' = host => HostDecided'
<1>1. /\ \A i \in 1..Len(log) : log'[i] = log[i]
      /\ log'[Len(log) + 1] = Entry(r)
      /\ Len(log) \in Nat /\ Len(log') = Len(log) + 1
  BY HistoryGrows
<1>2. /\ Tried' = Tried
      /\ \A i \in 1..Len(log) : Works(i)' <=> Works(i)
      /\ \A i : i = Len(log) + 1 => ~(Works(i)')
      /\ 1..Len(log') = 1..Len(log) \cup {Len(log) + 1}
  BY HistorySets
<1>3. All' = All /\ PlainHost' = PlainHost
  BY DEF All, Candidates, PlainHost
<1>4. TlsShown'
  BY <1>2 DEF TlsShown, ProbeInv
<1>5. host' = host => HostDecided'
  BY <1>1, <1>2, <1>3 DEF HostDecided, ProbeInv
<1>6. Entry(r).tls = result.isTls /\ Entry(r).sni = host
  BY DEF Entry, TypeInv, TypeOK
<1>7. RequestsFollowProbe <=>
        \A i \in 1..Len(log) : log[i].stage # "tls" =>
          \/ \E j \in 1..(i - 1) :
               Works(j) /\ log[i].tls /\ log[i].sni = HostOf(log[j].sni)
          \/ ~log[i].tls /\ log[i].sni = PlainHost /\ Tried = All
  BY DEF RequestsFollowProbe, Tried, All
<1>8. RequestsFollowProbe' <=>
        \A i \in 1..Len(log') : log'[i].stage # "tls" =>
          \/ \E j \in 1..(i - 1) :
               Works(j)' /\ log'[i].tls /\ log'[i].sni = HostOf(log'[j].sni)
          \/ ~log'[i].tls /\ log'[i].sni = PlainHost' /\ Tried' = All'
  BY DEF RequestsFollowProbe, Tried, All
<1>9. ASSUME NEW i \in 1..Len(log'), log'[i].stage # "tls"
      PROVE  \/ \E j \in 1..(i - 1) :
                  Works(j)' /\ log'[i].tls /\ log'[i].sni = HostOf(log'[j].sni)
             \/ ~log'[i].tls /\ log'[i].sni = PlainHost' /\ Tried' = All'
  <2>1. CASE i \in 1..Len(log)
    <3>1. 1..(i - 1) \subseteq 1..Len(log)
      BY <1>1, <2>1, SMT
    <3> QED BY <1>1, <1>2, <1>3, <1>7, <1>9, <2>1, <3>1 DEF ProbeInv
  <2>2. CASE i = Len(log) + 1
    <3>1. 1..(i - 1) = 1..Len(log)
      BY <1>1, <2>2, SMT
    <3>2. log'[i].tls = result.isTls /\ log'[i].sni = host
      BY <1>1, <1>6, <2>2
    <3> QED BY <1>1, <1>2, <1>3, <3>1, <3>2 DEF ProbeInv, HostDecided
  <2> QED BY <1>2, <2>1, <2>2
<1> QED BY <1>4, <1>5, <1>8, <1>9

LEMMA InitProbe == Init => ProbeInv
<1> SUFFICES ASSUME Init PROVE ProbeInv
  OBVIOUS
<1>1. 1..Len(log) = {}
  BY SMT DEF Init
<1>2. All = Tried \cup Left
  <2>1. Tried = {}
    BY <1>1 DEF Tried, Tls
  <2>2. Left = All
    BY DEF Init, Left, All
  <2> QED BY <2>1, <2>2
<1> QED BY <1>1, <1>2 DEF Init, ProbeInv, RequestsFollowProbe

LEMMA RetryProbe == TypeInv /\ ProbeInv /\ Retry => ProbeInv'
<1> SUFFICES ASSUME TypeInv, ProbeInv, Retry PROVE ProbeInv'
  OBVIOUS
<1>1. PICK f \in Failures : Ended(f)
  BY DEF Retry
<1>2. UNCHANGED <<domain, stage, candidates, host, result>> /\ stage # "done"
      /\ f \in Statuses \cup Failures /\ f \notin {"2xx", "3xx"}
  BY DEF Retry, Failures
<1>3. CASE stage = "tls"
  <2>1. RequestsFollowProbe' /\ \A i \in 1..Len(log') : log'[i].stage = "tls"
    BY <1>1, <1>2, <1>3, ProbingFollows
  <2>2. \A i \in 1..Len(log') : ~(Works(i)')
    BY <1>1, <1>2, <1>3, HistorySets DEF ProbeInv
  <2>3. All' = All /\ Left' = Left
    BY <1>2 DEF All, Candidates, Left
  <2>4. Tried' = Tried \cup {Head(candidates)}
    BY <1>1, <1>2, <1>3, HistorySets
  <2>5. Head(candidates) \in Left
    <3>1. candidates \in Suffixes
      BY <1>3 DEF TypeInv
    <3>2. Left = {Head(candidates)} \cup {Tail(candidates)[k] : k \in 1..Len(Tail(candidates))}
      BY <3>1, LeftShrinks DEF Left
    <3> QED BY <3>2
  <2>6. All' = Tried' \cup Left'
    BY <1>3, <2>3, <2>4, <2>5 DEF ProbeInv
  <2> QED BY <1>2, <1>3, <2>1, <2>2, <2>6 DEF ProbeInv
<1>4. CASE stage # "tls"
  <2>1. stage \in {"root", "trace"}
    BY <1>2, <1>4 DEF TypeInv, TypeOK
  <2> QED BY <1>1, <1>2, <1>4, <2>1, RequestFollows DEF ProbeInv
<1> QED BY <1>3, <1>4

LEMMA TlsAnswersProbe == TypeInv /\ ProbeInv /\ TlsAnswers => ProbeInv'
<1> SUFFICES ASSUME TypeInv, ProbeInv, TlsAnswers PROVE ProbeInv'
  OBVIOUS
<1>1. PICK status \in {"2xx", "3xx"}, server \in BOOLEAN :
        /\ Ended(status)
        /\ result' = [result EXCEPT !.isTls = TRUE,
                        !.reasons = @ \cup IF server THEN {"tls"} ELSE {}]
  BY DEF TlsAnswers
<1>2. stage = "tls" /\ stage' = "root" /\ host' = HostOf(Head(candidates))
      /\ status \in Statuses \cup Failures
  BY DEF TlsAnswers, WorkingHost, Statuses
<1>3. RequestsFollowProbe'
  BY <1>1, <1>2, ProbingFollows
<1>4. result'.isTls
  BY <1>1 DEF TypeInv, TypeOK
<1>5. \E j \in 1..Len(log') : Works(j)' /\ host' = HostOf(log'[j].sni)
  <2> DEFINE n == Len(log) + 1
  <2>1. n \in 1..Len(log') /\ \A i : i = n => Works(i)'
    BY <1>1, <1>2, HistorySets
  <2>2. log'[n] = Entry(status)
    BY <1>1, <1>2, HistoryGrows
  <2>3. log'[n].sni = Head(candidates)
    BY <1>2, <2>2 DEF Entry
  <2>4. HostOf(log'[n].sni) = host'
    BY <1>2, <2>3
  <2> HIDE DEF n
  <2> QED BY <2>1, <2>4
<1> QED BY <1>2, <1>3, <1>4, <1>5 DEF ProbeInv, HostDecided, TlsShown

LEMMA TlsFailsProbe == TypeInv /\ ProbeInv /\ TlsFails => ProbeInv'
<1> SUFFICES ASSUME TypeInv, ProbeInv, TlsFails PROVE ProbeInv'
  OBVIOUS
<1>1. PICK r \in Failures \cup {"other"} : Ended(r)
  BY DEF TlsFails
<1>2. /\ stage = "tls" /\ candidates \in Suffixes /\ candidates' = Tail(candidates)
      /\ UNCHANGED <<domain, result>>
      /\ r \in Statuses \cup Failures /\ r \notin {"2xx", "3xx"}
  BY DEF TlsFails, TypeInv, Statuses, Failures
<1>3. RequestsFollowProbe' /\ \A i \in 1..Len(log') : log'[i].stage = "tls"
  BY <1>1, <1>2, ProbingFollows
<1>4. \A i \in 1..Len(log') : ~(Works(i)')
  BY <1>1, <1>2, HistorySets DEF ProbeInv
<1>5. ~result'.isTls
  BY <1>2 DEF ProbeInv
<1>6. All' = Tried' \cup Left'
  <2>1. All' = All
    BY <1>2 DEF All, Candidates
  <2>2. Tried' = Tried \cup {Head(candidates)}
    BY <1>1, <1>2, HistorySets
  <2>3. Left = {Head(candidates)} \cup Left'
    BY <1>2, LeftShrinks DEF Left
  <2> QED BY <1>2, <2>1, <2>2, <2>3 DEF ProbeInv
<1>7. CASE Len(candidates) > 1
  <2>1. stage' = "tls"
    BY <1>2, <1>7 DEF TlsFails
  <2> QED BY <1>3, <1>4, <1>5, <1>6, <2>1 DEF ProbeInv
<1>8. CASE ~(Len(candidates) > 1)
  <2>1. stage' = "root" /\ host' = PlainHost'
    BY <1>2, <1>8 DEF TlsFails, PlainHost
  <2>2. Left' = {}
    <3>1. candidates' = <<>>
      BY <1>2, <1>8, Heads, SMT
    <3>2. 1..Len(candidates') = {}
      BY <3>1, SMT
    <3> QED BY <3>2 DEF Left
  <2> QED BY <1>3, <1>4, <1>5, <1>6, <2>1, <2>2 DEF ProbeInv, HostDecided, TlsShown
<1> QED BY <1>7, <1>8

LEMMA RootAnswersProbe == TypeInv /\ ProbeInv /\ RootAnswers => ProbeInv'
<1> SUFFICES ASSUME TypeInv, ProbeInv, RootAnswers PROVE ProbeInv'
  OBVIOUS
<1>1. PICK status \in Statuses, shown \in SUBSET {"server", "ray"} :
        Ended(status) /\ result' = RootVerdict(status, shown)
  BY DEF RootAnswers, RootVerdict
<1>2. stage = "root" /\ stage' \in {"trace", "done"} /\ UNCHANGED <<domain, host>>
  BY DEF RootAnswers
<1>3. result'.isTls = result.isTls
  BY <1>1 DEF RootVerdict, TypeInv, TypeOK
<1> QED BY <1>1, <1>2, <1>3, RequestFollows DEF ProbeInv

LEMMA TraceAnswersProbe == TypeInv /\ ProbeInv /\ TraceAnswers => ProbeInv'
<1> SUFFICES ASSUME TypeInv, ProbeInv, TraceAnswers PROVE ProbeInv'
  OBVIOUS
<1>1. PICK status \in Statuses, colo \in {"absent", "unknown", "located"} :
        Ended(status) /\ result' = [result EXCEPT !.colo = colo]
  BY DEF TraceAnswers
<1>2. stage = "trace" /\ stage' = "done" /\ UNCHANGED domain
  BY DEF TraceAnswers
<1>3. result'.isTls = result.isTls
  BY <1>1 DEF TypeInv, TypeOK
<1> QED BY <1>1, <1>2, <1>3, RequestFollows DEF ProbeInv

LEMMA RequestFailsProbe == TypeInv /\ ProbeInv /\ RequestFails => ProbeInv'
<1> SUFFICES ASSUME TypeInv, ProbeInv, RequestFails PROVE ProbeInv'
  OBVIOUS
<1>1. PICK f \in Failures : Ended(f)
  BY DEF RequestFails
<1>2. stage \in {"root", "trace"} /\ stage' = "done" /\ UNCHANGED <<domain, result>>
  BY DEF RequestFails
<1> QED BY <1>1, <1>2, RequestFollows DEF ProbeInv

LEMMA NextProbe == TypeInv /\ ProbeInv /\ [Next]_vars => ProbeInv'
<1> SUFFICES ASSUME TypeInv, ProbeInv, [Next]_vars PROVE ProbeInv'
  OBVIOUS
<1>1. CASE UNCHANGED vars
  <2>1. \A i : Works(i)' <=> Works(i)
    BY <1>1 DEF vars, Works
  <2>2. /\ UNCHANGED <<log, stage, host, result, candidates>>
        /\ Tried' = Tried /\ All' = All /\ Left' = Left /\ PlainHost' = PlainHost
    BY <1>1 DEF vars, Tried, Tls, All, Candidates, Left, PlainHost
  <2>3. RequestsFollowProbe'
    BY <2>1, <2>2 DEF RequestsFollowProbe, ProbeInv, Tried, All
  <2> QED BY <2>1, <2>2, <2>3 DEF ProbeInv, HostDecided, TlsShown
<1> QED BY <1>1, RetryProbe, TlsAnswersProbe, TlsFailsProbe, RootAnswersProbe,
           TraceAnswersProbe, RequestFailsProbe DEF Next

LEMMA ProbeInvariant == Spec => [](TypeInv /\ ProbeInv)
BY InitType, InitProbe, NextType, NextProbe, PTL DEF Spec

(* Whatever the network answers, the requests after the probe go to the    *)
(* SNI that worked, and to plain HTTP only when none did (detector.rs,     *)
(* detect_impl, and probe.rs, tls_probe).                                  *)
THEOREM RequestsFollow == Spec => []RequestsFollowProbe
<1>1. ProbeInv => RequestsFollowProbe
  BY DEF ProbeInv
<1> QED BY <1>1, ProbeInvariant, PTL

-----------------------------------------------------------------------------
(* The evidence behind a verdict.                                          *)

RootWell(i) == log[i].stage = "root" /\ log[i].end \in {"2xx", "3xx"}

UsableShown == result.usable <=> \E i \in 1..Len(log) : RootWell(i)

EvidenceInv ==
  /\ inRange => "range" \in result.reasons
  /\ stage # "done" => answer = "pending" /\ result.colo = "absent"
  /\ stage \in {"tls", "root"} => ~result.usable
  /\ stage = "trace" => /\ result.edge /\ result.confidence # "none"
                        /\ result.reasons # {}
  /\ stage # "done" \/ answer = "ok" => UsableShown
  /\ VerdictHasEvidence

LEMMA InitEvidence == Init => EvidenceInv
<1> SUFFICES ASSUME Init PROVE EvidenceInv
  OBVIOUS
<1>1. 1..Len(log) = {}
  BY SMT DEF Init
<1> QED BY <1>1 DEF Init, EvidenceInv, UsableShown, VerdictHasEvidence

\* An attempt that is no good answer of the root request.
LEMMA UsableKept ==
  ASSUME TypeInv, stage # "done", NEW r \in Statuses \cup Failures, Ended(r),
         UsableShown, result'.usable = result.usable,
         stage # "root" \/ r \notin {"2xx", "3xx"}
  PROVE  UsableShown'
<1>1. /\ log'[Len(log) + 1] = Entry(r)
      /\ \A i \in 1..Len(log) : log'[i] = log[i]
  BY HistoryGrows
<1>2. 1..Len(log') = 1..Len(log) \cup {Len(log) + 1}
  BY HistorySets
<1>3. Entry(r).stage = stage /\ Entry(r).end = r
  BY DEF Entry
<1> QED BY <1>1, <1>2, <1>3 DEF UsableShown, RootWell

\* A step of the probe, or a retry.
LEMMA ProbeStepEvidence ==
  ASSUME TypeInv, EvidenceInv, stage # "done", NEW r \in Statuses \cup Failures, Ended(r),
         stage = "tls" \/ r \in Failures,
         stage' = stage \/ (stage = "tls" /\ stage' = "root"),
         result.reasons \subseteq result'.reasons,
         result'.usable = result.usable, result'.colo = result.colo,
         result'.edge = result.edge, result'.confidence = result.confidence,
         UNCHANGED <<inRange, answer>>
  PROVE  EvidenceInv'
<1>1. UsableShown'
  BY UsableKept DEF EvidenceInv, Failures
<1>2. answer' = "pending" /\ stage' # "done"
  BY DEF EvidenceInv
<1>3. VerdictHasEvidence'
  BY <1>2 DEF VerdictHasEvidence
<1> QED BY <1>1, <1>2, <1>3 DEF EvidenceInv

LEMMA RootAnswersEvidence ==
  TypeInv /\ ProbeInv /\ ProbeInv' /\ EvidenceInv /\ RootAnswers => EvidenceInv'
<1> SUFFICES ASSUME TypeInv, ProbeInv', EvidenceInv, RootAnswers PROVE EvidenceInv'
  OBVIOUS
<1>1. PICK status \in Statuses, shown \in SUBSET {"server", "ray"} :
        /\ Ended(status)
        /\ result' = RootVerdict(status, shown)
        /\ stage' = IF Edge(status \in {"2xx", "3xx"}, shown # {}) THEN "trace" ELSE "done"
        /\ answer' = IF Edge(status \in {"2xx", "3xx"}, shown # {}) THEN answer ELSE "ok"
  BY DEF RootAnswers, RootVerdict
<1>2. stage = "root" /\ inRange' = inRange /\ inRange \in BOOLEAN
  BY DEF RootAnswers, TypeInv, TypeOK
<1> DEFINE u == status \in {"2xx", "3xx"}
           s == shown # {}
<1>3. /\ result'.usable = u /\ result'.edge = Edge(u, s)
      /\ result'.confidence = Confidence(u, s) /\ result'.colo = result.colo
      /\ result'.reasons = result.reasons \cup shown \cup IF u THEN {"success"} ELSE {}
  <2> HIDE DEF u, s
  <2>1. result' = [result EXCEPT !.usable = u, !.edge = Edge(u, s),
                     !.confidence = Confidence(u, s),
                     !.reasons = @ \cup shown \cup IF u THEN {"success"} ELSE {}]
    BY <1>1 DEF RootVerdict, u, s
  <2>2. result \in Verdicts
    BY DEF TypeInv, TypeOK, Verdicts
  <2> QED BY <2>1, <2>2 DEF Verdicts
<1>4. Edge(u, s) <=> Confidence(u, s) # "none"
  BY DEF Edge
<1>5. Edge(u, s) => result'.reasons # {}
  BY <1>2, <1>3 DEF Edge, Confidence, EvidenceInv
<1>6. UsableShown'
  <2>1. /\ log'[Len(log) + 1] = Entry(status)
        /\ \A i \in 1..Len(log) : log'[i] = log[i]
    BY <1>1, <1>2, HistoryGrows
  <2>2. 1..Len(log') = 1..Len(log) \cup {Len(log) + 1}
    BY <1>1, <1>2, HistorySets
  <2>3. Entry(status).stage = "root" /\ Entry(status).end = status
    BY <1>2 DEF Entry
  <2>4. \A i \in 1..Len(log) : ~RootWell(i)
    BY <1>2 DEF EvidenceInv, UsableShown
  <2>5. \A i \in 1..Len(log) : ~(RootWell(i)')
    BY <2>1, <2>4 DEF RootWell
  <2>6. \A i : i = Len(log) + 1 => (RootWell(i)' <=> u)
    BY <2>1, <2>3 DEF RootWell
  <2>7. (\E i \in 1..Len(log') : RootWell(i)') <=> u
    BY <2>2, <2>5, <2>6
  <2> HIDE DEF u
  <2> QED BY <1>3, <2>7 DEF UsableShown
<1>7. answer = "pending" /\ result.colo = "absent"
  BY <1>2 DEF EvidenceInv
<1>8. inRange' => "range" \in result'.reasons
  BY <1>2, <1>3 DEF EvidenceInv
<1>9. TlsShown'
  BY <1>1 DEF ProbeInv
<1> HIDE DEF u, s
<1>10. CASE Edge(u, s)
  <2>1. stage' = "trace" /\ answer' = "pending"
    BY <1>1, <1>7, <1>10 DEF u, s
  <2> QED BY <1>3, <1>4, <1>5, <1>6, <1>7, <1>8, <1>10, <2>1
          DEF EvidenceInv, VerdictHasEvidence
<1>11. CASE ~Edge(u, s)
  <2>1. stage' = "done" /\ answer' = "ok"
    BY <1>1, <1>11 DEF u, s
  <2>2. ~result'.edge /\ result'.confidence = "none" /\ result'.colo = "absent"
    BY <1>3, <1>4, <1>7, <1>11
  <2>3. VerdictHasEvidence'
    BY <1>6, <1>9, <2>2 DEF VerdictHasEvidence, UsableShown, RootWell, TlsShown
  <2> QED BY <1>6, <1>8, <2>1, <2>3 DEF EvidenceInv
<1> QED BY <1>10, <1>11

LEMMA TraceAnswersEvidence ==
  TypeInv /\ ProbeInv' /\ EvidenceInv /\ TraceAnswers => EvidenceInv'
<1> SUFFICES ASSUME TypeInv, ProbeInv', EvidenceInv, TraceAnswers PROVE EvidenceInv'
  OBVIOUS
<1>1. PICK status \in Statuses, colo \in {"absent", "unknown", "located"} :
        Ended(status) /\ result' = [result EXCEPT !.colo = colo]
  BY DEF TraceAnswers
<1>2. stage = "trace" /\ stage' = "done" /\ inRange' = inRange
  BY DEF TraceAnswers
<1>3. /\ result'.usable = result.usable /\ result'.edge = result.edge
      /\ result'.confidence = result.confidence /\ result'.reasons = result.reasons
  BY <1>1 DEF TypeInv, TypeOK
<1>4. result.edge /\ result.confidence # "none" /\ result.reasons # {}
  BY <1>2 DEF EvidenceInv
<1>5. UsableShown'
  BY <1>1, <1>2, <1>3, UsableKept DEF EvidenceInv
<1>6. TlsShown'
  BY <1>2 DEF ProbeInv
<1>7. log'[Len(log')].stage = "trace"
  <2>1. log'[Len(log')] = Entry(status)
    BY <1>1, <1>2, HistoryGrows
  <2> QED BY <1>2, <2>1 DEF Entry
<1>8. VerdictHasEvidence'
  BY <1>3, <1>4, <1>5, <1>6, <1>7
     DEF VerdictHasEvidence, UsableShown, RootWell, TlsShown
<1> QED BY <1>2, <1>3, <1>5, <1>8 DEF EvidenceInv

LEMMA NextEvidence ==
  TypeInv /\ ProbeInv /\ ProbeInv' /\ EvidenceInv /\ [Next]_vars => EvidenceInv'
<1> SUFFICES ASSUME TypeInv, ProbeInv, ProbeInv', EvidenceInv, [Next]_vars
             PROVE  EvidenceInv'
  OBVIOUS
<1>1. CASE Retry
  <2>1. PICK f \in Failures : Ended(f)
    BY <1>1 DEF Retry
  <2> QED BY <1>1, <2>1, ProbeStepEvidence DEF Retry
<1>2. CASE TlsAnswers
  <2>1. PICK status \in {"2xx", "3xx"}, server \in BOOLEAN :
          /\ Ended(status)
          /\ result' = [result EXCEPT !.isTls = TRUE,
                          !.reasons = @ \cup IF server THEN {"tls"} ELSE {}]
    BY <1>2 DEF TlsAnswers
  <2>2. result \in Verdicts
    BY DEF TypeInv, TypeOK, Verdicts
  <2>3. /\ result'.usable = result.usable /\ result'.colo = result.colo
        /\ result'.edge = result.edge /\ result'.confidence = result.confidence
        /\ result.reasons \subseteq result'.reasons
    BY <2>1, <2>2 DEF Verdicts
  <2>4. stage = "tls" /\ stage' = "root" /\ UNCHANGED <<inRange, answer>>
    BY <1>2 DEF TlsAnswers
  <2>5. status \in Statuses \cup Failures /\ Ended(status)
    BY <2>1 DEF Statuses
  <2> QED BY <2>3, <2>4, <2>5, ProbeStepEvidence
<1>3. CASE TlsFails
  <2>1. PICK r \in Statuses \cup Failures : Ended(r)
    BY <1>3 DEF TlsFails, Statuses
  <2>2. stage = "tls" /\ stage' \in {"tls", "root"} /\ UNCHANGED <<inRange, result, answer>>
    BY <1>3 DEF TlsFails
  <2> QED BY <2>1, <2>2, ProbeStepEvidence
<1>4. CASE RootAnswers
  BY <1>4, RootAnswersEvidence
<1>5. CASE TraceAnswers
  BY <1>5, TraceAnswersEvidence
<1>6. CASE RequestFails
  BY <1>6 DEF RequestFails, EvidenceInv, VerdictHasEvidence
<1>7. CASE UNCHANGED vars
  <2>1. UNCHANGED <<inRange, stage, result, answer, log>>
    BY <1>7 DEF vars
  <2>2. VerdictHasEvidence'
    BY <2>1 DEF EvidenceInv, VerdictHasEvidence, Works
  <2>3. UsableShown' <=> UsableShown
    BY <2>1 DEF UsableShown, RootWell
  <2> QED BY <2>1, <2>2, <2>3 DEF EvidenceInv
<1> QED BY <1>1, <1>2, <1>3, <1>4, <1>5, <1>6, <1>7 DEF Next

(* Every verdict that is returned rests on answers that came: usable on a  *)
(* good root response, is_tls on a handshake, a location on the trace, an  *)
(* edge on a reason (detector.rs, detect_impl).                            *)
THEOREM VerdictsAreGrounded == Spec => []VerdictHasEvidence
<1>1. EvidenceInv => VerdictHasEvidence
  BY DEF EvidenceInv
<1> QED BY <1>1, InitEvidence, NextEvidence, ProbeInvariant, PTL DEF Spec

-----------------------------------------------------------------------------
(* The number of attempts.                                                 *)

M == IF MaxAttempts > 1 THEN MaxAttempts ELSE 1

\* The requests that have ended; a candidate of the probe counts as one.
Used ==
  CASE stage = "tls" -> Len(Candidates) - Len(candidates)
    [] stage = "root" -> Len(Candidates)
    [] stage = "trace" -> Len(Candidates) + 1
    [] stage = "done" -> Len(Candidates) + 2

BoundInv ==
  /\ stage = "tls" => Len(candidates) <= Len(Candidates)
  /\ stage # "done" => Len(log) <= Used * M + attempt
  /\ stage = "done" => Len(log) <= Used * M

LEMMA Products ==
  ASSUME NEW m \in Nat, NEW u \in 0..5, NEW v \in 0..5, u < v
  PROVE  u * m \in Nat /\ v * m \in Nat /\ u * m + m <= v * m
<1>1. u \in {0, 1, 2, 3, 4, 5} /\ v \in {0, 1, 2, 3, 4, 5}
  BY SMT
<1>2. \A k \in {0, 1, 2, 3, 4, 5} : k * m \in Nat
  BY SMT
<1>3. u * m + m <= v * m
  BY <1>1, SMT
<1> QED BY <1>1, <1>2, <1>3

LEMMA CountTypes ==
  ASSUME TypeInv
  PROVE  /\ M \in Nat /\ attempt \in Nat /\ attempt < M /\ Len(log) \in Nat
         /\ Len(Candidates) \in 2..3
         /\ stage = "tls" => Len(candidates) \in 1..3
<1>1. M \in Nat /\ attempt \in Nat /\ attempt < M
  BY PipelineAssumption, SMT DEF M, TypeInv, TypeOK
<1>2. Len(log) \in Nat
  BY DEF TypeInv, TypeOK
<1>3. Len(Candidates) \in 2..3
  <2>1. Len(Candidates) = 3 \/ Len(Candidates) = 2
    BY AllCandidates
  <2> QED BY <2>1, SMT
<1>4. stage = "tls" => Len(candidates) \in 1..3
  BY Heads DEF TypeInv
<1> QED BY <1>1, <1>2, <1>3, <1>4

LEMMA Places ==
  /\ \A n \in 2..3 : /\ n \in 0..4 /\ n + 1 \in 0..4 /\ n + 2 \in 0..5
                    /\ n < n + 1 /\ n < n + 2 /\ n + 1 < n + 2
  /\ \A n \in 2..3, l \in 1..3 : l <= n =>
       /\ n - l \in 0..4 /\ n - l < n /\ n - l < n + 2
       /\ n - (l - 1) \in 0..5 /\ n - l < n - (l - 1) /\ l - 1 <= n
  /\ 0..4 \subseteq 0..5
BY SMT

LEMMA UsedType ==
  ASSUME TypeInv, BoundInv
  PROVE  Used \in 0..5 /\ (stage # "done" => Used \in 0..4)
<1>1. CASE stage = "tls"
  <2>1. Used = Len(Candidates) - Len(candidates) /\ Len(candidates) <= Len(Candidates)
    BY <1>1 DEF Used, BoundInv
  <2>2. Used \in 0..4
    BY <1>1, <2>1, CountTypes, Places
  <2> QED BY <2>2, Places
<1>2. CASE stage = "root"
  <2>1. Used = Len(Candidates)
    BY <1>2 DEF Used
  <2> QED BY <2>1, CountTypes, Places
<1>3. CASE stage = "trace"
  <2>1. Used = Len(Candidates) + 1
    BY <1>3 DEF Used
  <2> QED BY <2>1, CountTypes, Places
<1>4. CASE stage = "done"
  <2>1. Used = Len(Candidates) + 2
    BY <1>4 DEF Used
  <2> QED BY <1>4, <2>1, CountTypes, Places
<1> QED BY <1>1, <1>2, <1>3, <1>4 DEF TypeInv, TypeOK

\* A step that ends a request.
LEMMA RequestEnds ==
  ASSUME TypeInv, BoundInv, stage # "done", NEW r \in Statuses \cup Failures, Ended(r),
         attempt' = 0, Used' \in 0..5, Used < Used',
         stage' = "tls" => Len(candidates') <= Len(Candidates')
  PROVE  BoundInv'
<1>1. Len(log') = Len(log) + 1 /\ Len(log) \in Nat
  BY HistoryGrows
<1>2. Used \in 0..5
  BY UsedType
<1>3. M \in Nat /\ attempt \in Nat /\ attempt < M
  BY CountTypes
<1>4. Used * M \in Nat /\ Used' * M \in Nat /\ Used * M + M <= Used' * M
  BY <1>2, <1>3, Products
<1>5. Len(log) <= Used * M + attempt
  BY DEF BoundInv
<1> DEFINE a == Used * M
           b == Used' * M
<1> HIDE DEF a, b
<1>6. a \in Nat /\ b \in Nat /\ a + M <= b /\ Len(log) <= a + attempt
  BY <1>4, <1>5 DEF a, b
<1>7. Len(log') <= b /\ Len(log') <= b + 0
  BY <1>1, <1>3, <1>6, SMT
<1> QED BY <1>7 DEF BoundInv, b, M

LEMMA InitBound == Init => BoundInv
<1> SUFFICES ASSUME Init PROVE BoundInv
  OBVIOUS
<1>1. TypeInv
  BY InitType
<1>2. stage = "tls" /\ candidates = Candidates /\ Len(log) = 0 /\ attempt = 0
  BY DEF Init
<1>3. Used = 0
  BY <1>1, <1>2, CountTypes, SMT DEF Used
<1>4. 0 * M + 0 = 0
  BY <1>1, CountTypes, SMT
<1> QED BY <1>1, <1>2, <1>3, <1>4, CountTypes, SMT DEF BoundInv

LEMMA NextBound == TypeInv /\ BoundInv /\ [Next]_vars => BoundInv'
<1> SUFFICES ASSUME TypeInv, BoundInv, [Next]_vars PROVE BoundInv'
  OBVIOUS
<1>0. Len(Candidates) \in 2..3 /\ (stage = "tls" => Len(candidates) \in 1..3)
  BY CountTypes
<1>1. CASE Retry
  <2>1. PICK f \in Failures : Ended(f)
    BY <1>1 DEF Retry
  <2>2. /\ stage # "done" /\ attempt' = attempt + 1
        /\ UNCHANGED <<domain, stage, candidates>>
    BY <1>1 DEF Retry
  <2>3. Len(log') = Len(log) + 1 /\ Len(log) \in Nat
    BY <2>1, <2>2, HistoryGrows
  <2>4. Used' = Used /\ Candidates' = Candidates
    BY <2>2 DEF Used, Candidates
  <2>5. Used * M \in Nat /\ attempt \in Nat
    <3>1. Used \in 0..5 /\ M \in Nat /\ attempt \in Nat
      BY UsedType, CountTypes
    <3> QED BY <3>1, SMT
  <2> DEFINE a == Used * M
  <2>6. a \in Nat /\ Len(log) <= a + attempt
    BY <2>2, <2>5 DEF BoundInv
  <2> HIDE DEF a
  <2>7. Len(log') <= a + attempt'
    BY <2>2, <2>3, <2>5, <2>6, SMT
  <2> QED BY <2>2, <2>4, <2>7 DEF BoundInv, a, M
<1>2. CASE TlsAnswers
  <2>1. \E status \in Statuses \cup Failures : Ended(status)
    BY <1>2 DEF TlsAnswers, Statuses
  <2>2. stage = "tls" /\ stage' = "root" /\ attempt' = 0 /\ Candidates' = Candidates
    BY <1>2 DEF TlsAnswers, Candidates
  <2>3. Used = Len(Candidates) - Len(candidates) /\ Used' = Len(Candidates)
    BY <2>2 DEF Used
  <2>4. Used' \in 0..5 /\ Used < Used'
    <3>1. Len(candidates) \in 1..3 /\ Len(candidates) <= Len(Candidates)
      BY <1>0, <2>2 DEF BoundInv
    <3> QED BY <1>0, <2>3, <3>1, Places
  <2> QED BY <2>1, <2>2, <2>4, RequestEnds
<1>3. CASE TlsFails
  <2>1. \E r \in Statuses \cup Failures : Ended(r)
    BY <1>3 DEF TlsFails, Statuses
  <2>2. /\ stage = "tls" /\ attempt' = 0 /\ Candidates' = Candidates
        /\ candidates' = Tail(candidates) /\ candidates \in Suffixes
    BY <1>3 DEF TlsFails, Candidates, TypeInv
  <2>3. Used = Len(Candidates) - Len(candidates) /\ Len(candidates) <= Len(Candidates)
    BY <2>2 DEF Used, BoundInv
  <2>4. Len(candidates') = Len(candidates) - 1
    BY <2>2, Heads
  <2>5. CASE Len(candidates) > 1
    <3>1. stage' = "tls"
      BY <1>3, <2>2, <2>5 DEF TlsFails
    <3>2. Used' = Len(Candidates) - Len(candidates')
      BY <2>2, <3>1 DEF Used
    <3>3. Used' \in 0..5 /\ Used < Used' /\ Len(candidates') <= Len(Candidates)
      BY <1>0, <2>2, <2>3, <2>4, <3>2, Places
    <3> QED BY <2>1, <2>2, <3>3, RequestEnds
  <2>6. CASE ~(Len(candidates) > 1)
    <3>1. stage' = "root"
      BY <1>3, <2>6 DEF TlsFails
    <3>2. Used' = Len(Candidates)
      BY <2>2, <3>1 DEF Used
    <3>3. Used' \in 0..5 /\ Used < Used'
      BY <1>0, <2>2, <2>3, <3>2, Places
    <3> QED BY <2>1, <2>2, <3>1, <3>3, RequestEnds
  <2> QED BY <2>5, <2>6
<1>4. CASE RootAnswers \/ TraceAnswers \/ RequestFails
  <2>1. \E r \in Statuses \cup Failures : Ended(r)
    BY <1>4 DEF RootAnswers, TraceAnswers, RequestFails
  <2>2. /\ attempt' = 0 /\ Candidates' = Candidates
        /\ \/ stage = "root" /\ stage' \in {"trace", "done"}
           \/ stage = "trace" /\ stage' = "done"
    BY <1>4 DEF RootAnswers, TraceAnswers, RequestFails, Candidates
  <2>3. CASE stage = "root"
    <3>1. Used = Len(Candidates) /\ Used' \in {Len(Candidates) + 1, Len(Candidates) + 2}
      BY <2>2, <2>3 DEF Used
    <3>2. Used' \in 0..5 /\ Used < Used'
      BY <1>0, <3>1, Places
    <3> QED BY <2>1, <2>2, <2>3, <3>2, RequestEnds
  <2>4. CASE stage = "trace"
    <3>1. Used = Len(Candidates) + 1 /\ Used' = Len(Candidates) + 2
      BY <2>2, <2>4 DEF Used
    <3>2. Used' \in 0..5 /\ Used < Used'
      BY <1>0, <3>1, Places
    <3> QED BY <2>1, <2>2, <2>4, <3>2, RequestEnds
  <2> QED BY <2>2, <2>3, <2>4
<1>5. CASE UNCHANGED vars
  <2>1. UNCHANGED <<stage, candidates, attempt, log>> /\ Candidates' = Candidates
    BY <1>5 DEF vars, Candidates
  <2>2. Used' = Used
    BY <2>1 DEF Used
  <2> QED BY <2>1, <2>2 DEF BoundInv, M
<1> QED BY <1>1, <1>2, <1>3, <1>4, <1>5 DEF Next

(* Whatever the network does, and for every retry policy, a detection      *)
(* makes no more attempts than its candidates and its two requests allow   *)
(* (probe.rs, tls_probe; connector.rs, with_retry).                        *)
THEOREM DetectionsEnd == Spec => []DetectionBounded
<1>1. TypeInv /\ BoundInv => DetectionBounded
  <2> SUFFICES ASSUME TypeInv, BoundInv PROVE DetectionBounded
    OBVIOUS
  <2>1. /\ Used \in 0..5 /\ M \in Nat /\ attempt \in Nat /\ attempt < M
        /\ Len(log) \in Nat /\ Len(Candidates) + 2 \in 0..5
    <3>1. Len(Candidates) + 2 \in 0..5
      BY CountTypes, Places
    <3> QED BY <3>1, UsedType, CountTypes
  <2> DEFINE a == Used * M
             b == (Len(Candidates) + 2) * M
  <2>2. CASE stage = "done"
    <3>1. Used = Len(Candidates) + 2
      BY <2>2 DEF Used
    <3> QED BY <2>2, <3>1 DEF BoundInv, DetectionBounded, M
  <2>3. CASE stage # "done"
    <3>1. Used < Len(Candidates) + 2
      <4>1. CASE stage = "tls"
        <5>1. Used = Len(Candidates) - Len(candidates) /\ Len(candidates) <= Len(Candidates)
          BY <4>1 DEF Used, BoundInv
        <5> QED BY <4>1, <5>1, CountTypes, Places
      <4>2. CASE stage = "root"
        <5>1. Used = Len(Candidates)
          BY <4>2 DEF Used
        <5> QED BY <5>1, CountTypes, Places
      <4>3. CASE stage = "trace"
        <5>1. Used = Len(Candidates) + 1
          BY <4>3 DEF Used
        <5> QED BY <5>1, CountTypes, Places
      <4> QED BY <2>3, <4>1, <4>2, <4>3 DEF TypeInv, TypeOK
    <3>2. a \in Nat /\ b \in Nat /\ a + M <= b
      BY <2>1, <3>1, Products
    <3>3. Len(log) <= a + attempt
      BY <2>3 DEF BoundInv
    <3> HIDE DEF a, b
    <3>4. Len(log) <= b
      BY <2>1, <3>2, <3>3, SMT
    <3> QED BY <3>4 DEF b, DetectionBounded, M
  <2> QED BY <2>2, <2>3
<1> QED BY <1>1, InitType, NextType, InitBound, NextBound, PTL DEF Spec

-----------------------------------------------------------------------------
(* The retries.                                                            *)

Current == IF stage = "tls" THEN Head(candidates) ELSE host

\* The last attempt was made for the request that is under way.
Again == Len(log) > 0 /\ log[Len(log)].stage = stage /\ log[Len(log)].sni = Current

OnlyTransientAgain ==
  \A i \in 1..(Len(log) - 1) : SameRequest(i, i + 1) => log[i].end = "transient"

RetryInv ==
  /\ OnlyTransientAgain
  /\ stage # "done" /\ Again => log[Len(log)].end = "transient"
  /\ stage \in {"tls", "root"} => Made("trace") = {}
  /\ stage = "tls" => Made("root") = {}
  /\ stage \in {"root", "trace"} => Cardinality(Made(stage)) = attempt
  /\ stage # "done" => error.attempts = 0
  /\ error.attempts > 0 => error.attempts = Cardinality(Made(error.stage))

\* One more attempt: what it adds for its stage, and what follows what.
LEMMA AttemptCounts ==
  ASSUME TypeInv, RetryInv, stage # "done", NEW r \in Statuses \cup Failures, Ended(r)
  PROVE  /\ OnlyTransientAgain'
         /\ \A s : s # stage => Made(s)' = Made(s)
         /\ \A s : s = stage => Cardinality(Made(s)') = Cardinality(Made(s)) + 1
         /\ log'[Len(log')] = Entry(r)
         /\ Entry(r).stage = stage /\ Entry(r).sni = Current /\ Entry(r).end = r
<1>1. /\ Len(log) \in Nat /\ Len(log') = Len(log) + 1
      /\ log'[Len(log) + 1] = Entry(r)
      /\ \A i \in 1..Len(log) : log'[i] = log[i]
  BY HistoryGrows
<1>2. 1..Len(log') = 1..Len(log) \cup {Len(log) + 1} /\ Len(log) + 1 \notin 1..Len(log)
  BY HistorySets
<1>3. Entry(r).stage = stage /\ Entry(r).sni = Current /\ Entry(r).end = r
  BY DEF Entry, Current
<1>4. OnlyTransientAgain'
  <2>1. ASSUME NEW i \in 1..(Len(log') - 1),
               log'[i].stage = log'[i + 1].stage, log'[i].sni = log'[i + 1].sni
        PROVE  log'[i].end = "transient"
    <3>1. CASE i \in 1..(Len(log) - 1)
      <4>1. i \in 1..Len(log) /\ i + 1 \in 1..Len(log)
        BY <1>1, <3>1, SMT
      <4>2. SameRequest(i, i + 1)
        BY <1>1, <2>1, <4>1 DEF SameRequest
      <4> QED BY <1>1, <3>1, <4>1, <4>2 DEF RetryInv, OnlyTransientAgain
    <3>2. CASE i = Len(log)
      <4>1. Len(log) \in 1..Len(log) /\ Len(log) > 0
        BY <1>1, <2>1, <3>2, SMT
      <4>2. log[Len(log)].stage = stage /\ log[Len(log)].sni = Current
        BY <1>1, <1>3, <2>1, <3>2, <4>1
      <4> QED BY <1>1, <3>2, <4>1, <4>2 DEF RetryInv, Again
    <3>3. i \in 1..(Len(log) - 1) \/ i = Len(log)
      BY <1>1, <2>1, SMT
    <3> QED BY <3>1, <3>2, <3>3
  <2> QED BY <2>1 DEF OnlyTransientAgain, SameRequest
<1>5. \A s : s # stage => Made(s)' = Made(s)
  BY <1>1, <1>2, <1>3 DEF Made
<1>6. ASSUME NEW s, s = stage PROVE Cardinality(Made(s)') = Cardinality(Made(s)) + 1
  <2>1. Made(s)' = Made(s) \cup {Len(log) + 1} /\ Len(log) + 1 \notin Made(s)
    BY <1>1, <1>2, <1>3, <1>6 DEF Made
  <2>2. IsFiniteSet(Made(s))
    <3>1. IsFiniteSet(1..Len(log)) /\ Made(s) \subseteq 1..Len(log)
      BY <1>1, FS_Interval, SMT DEF Made
    <3> QED BY <3>1, FS_Subset
  <2> QED BY <2>1, <2>2, FS_AddElement
<1> QED BY <1>1, <1>3, <1>4, <1>5, <1>6

LEMMA NextDiffers ==
  ASSUME NEW s \in Suffixes, Len(s) > 1
  PROVE  Head(Tail(s)) # Head(s)
<1>1. CASE s = <<"own", "default", "empty">>
  <2>1. Head(s) = "own" /\ Tail(s) = <<"default", "empty">>
    BY <1>1
  <2>2. Head(<<"default", "empty">>) = "default"
    OBVIOUS
  <2> QED BY <2>1, <2>2
<1>2. CASE s = <<"default", "empty">>
  <2>1. Head(s) = "default" /\ Tail(s) = <<"empty">>
    BY <1>2
  <2>2. Head(<<"empty">>) = "empty"
    OBVIOUS
  <2> QED BY <2>1, <2>2
<1>3. CASE s = <<"empty">>
  <2>1. Len(s) = 1
    BY <1>3, HostLists
  <2> QED BY <2>1, SMT
<1> QED BY <1>1, <1>2, <1>3 DEF Suffixes

LEMMA InitRetry == Init => RetryInv
<1> SUFFICES ASSUME Init PROVE RetryInv
  OBVIOUS
<1>1. 1..Len(log) = {} /\ 1..(Len(log) - 1) = {} /\ ~(Len(log) > 0)
  BY SMT DEF Init
<1>2. stage = "tls" /\ error.attempts = 0 /\ ~(0 > 0)
  BY SMT DEF Init
<1> QED BY <1>1, <1>2 DEF RetryInv, OnlyTransientAgain, Again, Made

LEMMA NextRetry == TypeInv /\ RetryInv /\ [Next]_vars => RetryInv'
<1> SUFFICES ASSUME TypeInv, RetryInv, [Next]_vars PROVE RetryInv'
  OBVIOUS
<1>0. ~(0 > 0)
  BY SMT
<1>1. CASE Retry
  <2>1. PICK f \in Failures : ~GivesUp(f) /\ Ended(f)
    BY <1>1 DEF Retry
  <2>2. /\ stage # "done" /\ attempt' = attempt + 1 /\ f = "transient"
        /\ UNCHANGED <<stage, candidates, host, error>>
    BY <1>1, <2>1 DEF Retry, GivesUp, Failures
  <2>3. /\ OnlyTransientAgain' /\ log'[Len(log')].end = "transient"
        /\ \A s : s # stage => Made(s)' = Made(s)
        /\ \A s : s = stage => Cardinality(Made(s)') = Cardinality(Made(s)) + 1
    BY <2>1, <2>2, AttemptCounts
  <2>4. error'.attempts = 0
    BY <2>2 DEF RetryInv
  <2>5. stage' \in {"root", "trace"} => Cardinality(Made(stage)') = attempt'
    BY <2>2, <2>3 DEF RetryInv
  <2> QED BY <1>0, <2>2, <2>3, <2>4, <2>5 DEF RetryInv
<1>2. CASE TlsAnswers \/ TlsFails
  <2>1. PICK r \in Statuses \cup Failures : Ended(r)
    BY <1>2 DEF TlsAnswers, TlsFails, Statuses
  <2>2. stage = "tls" /\ stage' \in {"tls", "root"} /\ attempt' = 0 /\ error' = error
    BY <1>2 DEF TlsAnswers, TlsFails
  <2>3. /\ OnlyTransientAgain' /\ log'[Len(log')] = Entry(r)
        /\ Entry(r).stage = "tls" /\ Entry(r).sni = Head(candidates)
        /\ Made("trace")' = Made("trace") /\ Made("root")' = Made("root")
    BY <2>1, <2>2, AttemptCounts DEF Current
  <2>4. Made("trace")' = {} /\ Made("root")' = {} /\ error'.attempts = 0
    BY <2>2, <2>3 DEF RetryInv
  \* The next candidate is another one.
  <2>5. ~Again'
    <3>1. CASE stage' = "root"
      BY <2>3, <3>1 DEF Again
    <3>2. CASE stage' = "tls"
      <4>1. candidates' = Tail(candidates) /\ Len(candidates) > 1 /\ candidates \in Suffixes
        BY <1>2, <2>2, <3>2 DEF TlsAnswers, TlsFails, TypeInv
      <4>2. Head(Tail(candidates)) # Head(candidates)
        BY <4>1, NextDiffers
      <4> QED BY <2>3, <3>2, <4>1, <4>2 DEF Again, Current
    <3> QED BY <2>2, <3>1, <3>2
  <2>6. Cardinality(Made("root")') = 0
    BY <2>4, FS_EmptySet
  <2> QED BY <1>0, <2>2, <2>3, <2>4, <2>5, <2>6 DEF RetryInv
<1>3. CASE RootAnswers \/ TraceAnswers
  <2>1. PICK r \in Statuses \cup Failures : Ended(r)
    BY <1>3 DEF RootAnswers, TraceAnswers
  <2>2. /\ attempt' = 0 /\ error' = error
        /\ \/ stage = "root" /\ stage' \in {"trace", "done"}
           \/ stage = "trace" /\ stage' = "done"
    BY <1>3 DEF RootAnswers, TraceAnswers
  <2>3. /\ OnlyTransientAgain' /\ log'[Len(log')].stage = stage
        /\ \A s : s # stage => Made(s)' = Made(s)
    BY <2>1, <2>2, AttemptCounts
  <2>4. error'.attempts = 0
    BY <2>2 DEF RetryInv
  <2>5. CASE stage' = "trace"
    <3>1. stage = "root" /\ Made("trace")' = {}
      BY <2>2, <2>3, <2>5 DEF RetryInv
    <3>2. ~Again'
      BY <2>3, <2>5, <3>1 DEF Again
    <3> QED BY <1>0, <2>2, <2>3, <2>4, <2>5, <3>1, <3>2, FS_EmptySet DEF RetryInv
  <2>6. CASE stage' = "done"
    BY <1>0, <2>3, <2>4, <2>6 DEF RetryInv
  <2> QED BY <2>2, <2>5, <2>6
<1>4. CASE RequestFails
  <2>1. PICK f \in Failures : Ended(f)
    BY <1>4 DEF RequestFails
  <2>2. /\ stage \in {"root", "trace"} /\ stage' = "done"
        /\ error'.stage = stage
        /\ error'.attempts = IF attempt > 0 THEN attempt + 1 ELSE 0
    BY <1>4 DEF RequestFails
  <2>3. OnlyTransientAgain' /\ Cardinality(Made(stage)) = attempt
    BY <2>1, <2>2, AttemptCounts DEF RetryInv
  <2>4. ASSUME NEW s, s = stage PROVE Cardinality(Made(s)') = attempt + 1
    <3>1. Made(s) = Made(stage)
      BY <2>4
    <3>2. stage # "done" /\ f \in Statuses \cup Failures
      BY <2>2
    <3>3. Cardinality(Made(s)') = Cardinality(Made(s)) + 1
      BY <2>1, <2>4, <3>2, AttemptCounts
    <3> QED BY <2>3, <3>1, <3>3
  <2>5. error'.attempts > 0 => error'.attempts = Cardinality(Made(error.stage)')
    <3>1. error'.attempts > 0 => error'.attempts = attempt + 1
      BY <1>0, <2>2
    <3>2. Made(error.stage)' = {i \in 1..Len(log') : log'[i].stage = stage}
      <4>1. error'.stage = stage
        BY <2>2
      <4> QED BY <4>1 DEF Made
    <3>3. \A s : s = stage => Made(s)' = {i \in 1..Len(log') : log'[i].stage = stage}
      BY DEF Made
    <3> QED BY <2>4, <3>1, <3>2, <3>3
  <2> QED BY <2>2, <2>3, <2>5 DEF RetryInv
<1>5. CASE UNCHANGED vars
  <2>1. UNCHANGED <<stage, candidates, host, attempt, error, log>>
    BY <1>5 DEF vars
  <2> QED BY <2>1 DEF RetryInv, OnlyTransientAgain, Again, Current, Made, SameRequest
<1> QED BY <1>1, <1>2, <1>3, <1>4, <1>5 DEF Next

(* Only a transient failure is tried again, and a RetriesExceeded tells    *)
(* the number of attempts its request really took (connector.rs,           *)
(* with_retry).                                                            *)
THEOREM RetriesTellTheTruth == Spec => []RetriesHonest
<1>1. RetryInv => RetriesHonest
  BY DEF RetryInv, RetriesHonest, OnlyTransientAgain
<1> QED BY <1>1, InitType, NextType, InitRetry, NextRetry, PTL DEF Spec
==============================================================================
