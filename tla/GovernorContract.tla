--------------------------- MODULE GovernorContract ---------------------------
(***************************************************************************)
(* What ResourceGovernor::cap_concurrency promises whoever asks, without   *)
(* descriptors, ratios and error windows: it grants what was asked for     *)
(* within the user's ceiling and 1, or grants less than was asked for and  *)
(* says why.  BatchDetect asks by this contract, Governor keeps to it.     *)
(***************************************************************************)
EXTENDS Integers

CONSTANT UserMax   \* user_max_concurrency

Least(a, b) == IF a < b THEN a ELSE b
Greatest(a, b) == IF a > b THEN a ELSE b

\* What is granted when nothing is short.
Unthrottled(p) == Greatest(Least(p, UserMax), 1)

\* What may be answered to a proposal p, and the reason the snapshot gives.
Verdicts(p) ==
  {[cap |-> Unthrottled(p), why |-> "clear"]} \cup
  [cap : 1..Least(p - 1, UserMax), why : {"fd", "errors"}]
==============================================================================
