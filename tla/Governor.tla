------------------------------- MODULE Governor -------------------------------
(***************************************************************************)
(* ResourceGovernor: caps a proposed concurrency by the file descriptors   *)
(* the process has left and by the share of resource errors among the      *)
(* last outcomes.  Ratios are exact fractions: the code's f64 arithmetic   *)
(* is abstracted, and can round a scaled value down by one more.           *)
(***************************************************************************)
EXTENDS Integers, Sequences, FiniteSets

CONSTANTS
  Enabled,        \* config.enabled
  FdLimit,        \* FdCounter::fd_limit
  Headroom,       \* fd_safety_headroom
  UserMax,        \* user_max_concurrency
  ErrWindow,      \* resource_error_window
  ErrThreshold,   \* resource_error_threshold, in hundredths
  HardCap,        \* fd_ratio_hard_cap, in hundredths; negative: None
  SoftCap,        \* fd_ratio_soft_cap, in hundredths; negative: None
  MaxProposal     \* bound of the proposals TLC enumerates

\* A process that detects anything has a positive descriptor limit.
ASSUME GovernorAssumption ==
  /\ Enabled \in BOOLEAN
  /\ FdLimit \in Nat \ {0}
  /\ Headroom \in Nat /\ UserMax \in Nat /\ MaxProposal \in Nat
  /\ ErrWindow \in Nat /\ ErrThreshold \in Nat
  /\ HardCap \in Int /\ SoftCap \in Int
  /\ HardCap <= 100 /\ SoftCap <= 100

VARIABLES
  used,       \* descriptors the process has open now (the world outside)
  sample,     \* last_sample: the cached count; -1: never sampled
  fresh,      \* the cached count is younger than resource_sample_interval
  window,     \* error_window
  clean,      \* history: outcomes recorded since the last resource error, up to the window
  last        \* the last answer of cap_concurrency, with its question

vars == <<used, sample, fresh, window, clean, last>>

Least(a, b) == IF a < b THEN a ELSE b
Greatest(a, b) == IF a > b THEN a ELSE b
Minus(a, b) == Greatest(a - b, 0)    \* saturating_sub

Cap == Greatest(ErrWindow, 1)
NoAnswer == [proposed |-> 0, capped |-> 1, fd |-> FALSE, errors |-> FALSE]

-----------------------------------------------------------------------------
(* cap_concurrency, one constraint after the other, on a count of open     *)
(* descriptors u, a cached count s and an error window w.                  *)

FdBudget(s) == Greatest(Least(Minus(Minus(FdLimit, s), Headroom), UserMax), 1)

\* Mutant: the comparison the wrong way round.
RatioBelow(u, hundredths) == hundredths >= 0 /\ 100 * u <= hundredths * FdLimit

RatioReaches(u, hundredths) == hundredths >= 0 /\ 100 * u >= hundredths * FdLimit

AfterHard(c, u) ==
  IF RatioReaches(u, HardCap)
  THEN Least(c, Greatest(Minus(FdLimit, u) \div 4, 1))
  ELSE c

\* floor(c * max(1 - (ratio - soft) / (1 - soft), 0.25)); at soft = 1 the
\* division by zero leaves 0.25.
SoftScaled(c, u) ==
  Greatest(c \div 4,
           IF SoftCap = 100 THEN 0
           ELSE (c * Minus(FdLimit, u) * 100) \div (FdLimit * (100 - SoftCap)))

AfterSoft(c, u) ==
  IF RatioReaches(u, SoftCap) THEN Least(c, Greatest(SoftScaled(c, u), 1)) ELSE c

ErrorCount(w) == Cardinality({i \in 1..Len(w) : w[i]})

ErrorsHigh(w) == Len(w) > 0 /\ 100 * ErrorCount(w) > ErrThreshold * Len(w)

AfterErrors(c, w) ==
  IF ErrorsHigh(w) THEN Least(c, Greatest(c \div 2, 1)) ELSE c

AfterFds(p, u, s) ==
  AfterSoft(AfterHard(Least(Least(p, FdBudget(s)), UserMax), u), u)

Capped(p, u, s, w) ==
  IF Enabled THEN Greatest(AfterErrors(AfterFds(p, u, s), w), 1)
  ELSE Greatest(Least(p, UserMax), 1)

\* Mutant: the flag compares with the user's ceiling only.
FdFlagLate(p, u, s) == Enabled /\ AfterFds(p, u, s) < Least(p, FdBudget(s))

FdFlag(p, u, s) == Enabled /\ AfterFds(p, u, s) < p

Answer(p, u, s, w) ==
  [proposed |-> p,
   capped   |-> Capped(p, u, s, w),
   fd       |-> FdFlag(p, u, s),
   errors   |-> Enabled /\ AfterErrors(AfterFds(p, u, s), w) < AfterFds(p, u, s)]

-----------------------------------------------------------------------------
Init ==
  /\ used \in 0..FdLimit
  /\ sample = -1
  /\ fresh = FALSE
  /\ window = <<>>
  /\ clean = 0
  /\ last = NoAnswer

\* Anything in the process opens or closes descriptors.
FdsMove ==
  /\ used' \in 0..FdLimit
  /\ UNCHANGED <<sample, fresh, window, clean, last>>

\* resource_sample_interval has passed since the sample was taken.
SampleExpires ==
  /\ fresh
  /\ fresh' = FALSE
  /\ UNCHANGED <<used, sample, window, clean, last>>

\* Mutant: the window keeps one outcome more than it should.
TrimmedLate(w) == IF Len(w) > Cap + 1 THEN Tail(w) ELSE w

Trimmed(w) == IF Len(w) > Cap THEN Tail(w) ELSE w

RecordOutcome(e) ==
  /\ IF Enabled
     THEN /\ window' = Trimmed(Append(window, e))
          /\ clean' = IF e THEN 0 ELSE Least(clean + 1, Cap)
     ELSE UNCHANGED <<window, clean>>
  /\ UNCHANGED <<used, sample, fresh, last>>

\* The budget uses the cached count, the ratios a second, live count: the
\* descriptors may move between the two reads.
CapConcurrency(p) ==
  /\ used' \in 0..FdLimit
  /\ sample' = IF Enabled /\ ~fresh THEN used ELSE sample
  /\ fresh' = (Enabled \/ fresh)
  /\ last' = Answer(p, used', sample', window)
  /\ UNCHANGED <<window, clean>>

Next ==
  \/ FdsMove
  \/ SampleExpires
  \/ \E e \in BOOLEAN : RecordOutcome(e)
  \/ \E p \in 0..MaxProposal : CapConcurrency(p)

Spec == Init /\ [][Next]_vars

-----------------------------------------------------------------------------
(* Types; the error window never outgrows resource_error_window.           *)
TypeOK ==
  /\ used \in 0..FdLimit
  /\ sample \in -1..FdLimit
  /\ fresh \in BOOLEAN
  /\ window \in Seq(BOOLEAN)
  /\ Len(window) <= Cap
  /\ clean \in 0..Cap
  /\ last \in [proposed : 0..MaxProposal, capped : Int, fd : BOOLEAN, errors : BOOLEAN]

(* Every answer keeps the contract the batch engine asks by: it is what    *)
(* the user's ceiling grants, or lower than was asked for, never below 1,  *)
(* and then with a flag; whatever moved between the two descriptor counts. *)
(* And an enabled governor flags the ceiling too.                          *)
Contract == INSTANCE GovernorContract
Reason ==
  IF last.fd THEN "fd" ELSE IF last.errors THEN "errors" ELSE "clear"
AnswersByContract ==
  UserMax > 0 =>
    /\ [cap |-> last.capped, why |-> Reason] \in Contract!Verdicts(last.proposed)
    /\ Enabled /\ last.proposed > UserMax => Reason # "clear"

(* Resource errors are forgotten: once as many clean outcomes as the       *)
(* window holds have been recorded, errors no longer throttle anything.    *)
ErrorsForgotten == clean = Cap => ~ErrorsHigh(window)

(* A larger proposal never gets a smaller answer, and with more            *)
(* descriptors open (and just sampled) no proposal gets a larger one: the  *)
(* soft cap, the hard cap and the budget agree on the direction.           *)
CapMonotone ==
  \A p \in 0..MaxProposal, u \in 0..FdLimit :
    LET c == Capped(p, u, u, window)
    IN  /\ p < MaxProposal => c <= Capped(p + 1, u, u, window)
        /\ u < FdLimit => c >= Capped(p, u + 1, u + 1, window)
==============================================================================
