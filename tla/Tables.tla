-------------------------------- MODULE Tables --------------------------------
(***************************************************************************)
(* What a detector's start makes of the resources it loads through the     *)
(* FileCache: CloudflareRanges of a list of networks, LocationStore of a   *)
(* JSON map.  A file being written is empty until its one write lands; a   *)
(* write that failed or a process that died in it leaves any beginning of  *)
(* the text, which the next loads may take for the resource.               *)
(*                                                                         *)
(* A list is a sequence of lines "net/bits"; a beginning of it ends with a *)
(* line that lacks its last digit, its length, or more.  Addresses have    *)
(* Width bits and one family; networks of the other family are in the list *)
(* and never match, as in the code.                                        *)
(***************************************************************************)
EXTENDS FileCache, Sequences

CONSTANTS
  Width,      \* bits of an address
  Network,    \* the official list: a sequence of [net, bits, family]
  Addresses   \* those looked up

Address == 0..(2^Width - 1)

ASSUME TablesAssumption ==
  /\ Width \in Nat
  /\ Network \in Seq([net : Nat, bits : Nat, family : {"same", "other"}])
  /\ \A i \in DOMAIN Network : Network[i].family = "same" => Network[i].net \in Address
  /\ Addresses \subseteq Address

\* IpNetLike::parse: a length that no address has makes no network.
Parses(line) == line.bits <= Width

\* A line whose text ends after the first digit of its length, and one that
\* ends before.
CutDigit(line) == IF line.bits < 10 THEN <<>> ELSE <<[line EXCEPT !.bits = @ \div 10]>>

\* The texts a file of these bytes may hold.
Beginnings ==
  {SubSeq(Network, 1, k) : k \in 0..Len(Network)}
    \cup {SubSeq(Network, 1, k - 1) \o CutDigit(Network[k]) : k \in DOMAIN Network}
Texts(bytes) ==
  CASE bytes = "whole" -> {Network}
    [] bytes = "torn" -> IF faults = 0 THEN {<<>>} ELSE Beginnings
    [] OTHER -> {}

-----------------------------------------------------------------------------
(* CloudflareRanges.                                                       *)

\* Mutant: the mask keeps the other end of the address.
MaskedLow(a, bits) == IF bits = 0 THEN 0 ELSE a - (a % 2^bits)

\* a & (MAX << (Width - bits)).
Masked(a, bits) == IF bits = 0 THEN 0 ELSE a - (a % 2^(Width - bits))

NetContains(line, a) ==
  /\ line.family = "same"
  /\ Masked(a, line.bits) = Masked(line.net, line.bits)

\* load_one and contains: lines that do not parse are dropped.
RangesContain(text, a) ==
  \E i \in DOMAIN text : Parses(text[i]) /\ NetContains(text[i], a)

-----------------------------------------------------------------------------

\* What the list means: addresses that begin with the bits of one of its
\* networks.
BitOf(a, k) == (a \div 2^(Width - k)) % 2
Official(a) ==
  \E i \in DOMAIN Network :
    /\ Network[i].family = "same" /\ Network[i].bits <= Width
    /\ \A k \in 1..Network[i].bits : BitOf(a, k) = BitOf(Network[i].net, k)

Loaded(p) == got[p].bytes # "none"

\* CloudflareRanges::load over load_or_fetch: while no write has failed and no
\* process has died, the ranges a load returns hold no address that is not
\* official, even if the load read the file another process was writing; and
\* those of an undamaged file hold every official address.  (A list cut within
\* a length, as a failed write leaves it, is a wider network.)
OnlyOfficialAddresses ==
  \A p \in Proc : Loaded(p) => \A text \in Texts(got[p].bytes), a \in Addresses :
    /\ faults = 0 /\ RangesContain(text, a) => Official(a)
    /\ got[p].bytes = "whole" /\ Official(a) => RangesContain(text, a)
===============================================================================
