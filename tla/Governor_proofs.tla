---------------------------- MODULE Governor_proofs ----------------------------
(***************************************************************************)
(* For every configuration of the governor: its types, the range of every  *)
(* answer, the flags that explain it, its monotony, and the forgetting of  *)
(* errors.                                                                 *)
(***************************************************************************)
EXTENDS Governor, FiniteSetTheorems, TLAPS

\* Halving, quartering and scaling stay within the naturals.
LEMMA DivNat == \A a \in Nat, b \in Nat \ {0} : a \div b \in Nat
BY SMT

\* The free descriptors are a natural number.
LEMMA FreeNat == ASSUME NEW u \in 0..FdLimit PROVE Minus(FdLimit, u) \in Nat
BY GovernorAssumption, SMT DEF Minus, Greatest

\* The hard cap keeps a natural number and never raises it.
LEMMA HardShrinks ==
  ASSUME NEW c \in Nat, NEW u \in 0..FdLimit
  PROVE  AfterHard(c, u) \in Nat /\ AfterHard(c, u) <= c
<1>1. Minus(FdLimit, u) \div 4 \in Nat
  BY FreeNat, DivNat, 4 \in Nat \ {0}
<1> QED BY <1>1, SMT DEF AfterHard, Least, Greatest

\* So does the soft cap, whatever the scaling factor is.
LEMMA SoftShrinks ==
  ASSUME NEW c \in Nat, NEW u \in 0..FdLimit
  PROVE  AfterSoft(c, u) \in Nat /\ AfterSoft(c, u) <= c
<1> USE GovernorAssumption
<1> DEFINE top == c * Minus(FdLimit, u) * 100
           bottom == FdLimit * (100 - SoftCap)
<1>1. c \div 4 \in Nat
  BY DivNat, 4 \in Nat \ {0}
<1>2. CASE SoftCap = 100
  <2>1. SoftScaled(c, u) \in Nat
    BY <1>1, <1>2, SMT DEF SoftScaled, Greatest
  <2> QED BY <2>1, SMT DEF AfterSoft, Least, Greatest
<1>3. CASE SoftCap # 100
  <2>1. top \in Nat
    BY FreeNat, SMT
  <2>2. bottom \in Nat \ {0}
    BY <1>3, SMT
  <2>3. SoftScaled(c, u) = Greatest(c \div 4, top \div bottom)
    BY <1>3 DEF SoftScaled
  <2> HIDE DEF top, bottom
  <2>4. top \div bottom \in Nat
    BY <2>1, <2>2, DivNat
  <2>5. SoftScaled(c, u) \in Nat
    BY <1>1, <2>3, <2>4, SMT DEF Greatest
  <2> QED BY <2>5, SMT DEF AfterSoft, Least, Greatest
<1> QED BY <1>2, <1>3

\* And the halving for resource errors.
LEMMA ErrorsShrink ==
  ASSUME NEW c \in Nat, NEW w
  PROVE  AfterErrors(c, w) \in Nat /\ AfterErrors(c, w) <= c
<1>1. c \div 2 \in Nat
  BY DivNat, 2 \in Nat \ {0}
<1> QED BY <1>1, SMT DEF AfterErrors, Least, Greatest

\* The descriptors never let more through than was asked for.
LEMMA FdsShrink ==
  ASSUME NEW p \in Nat, NEW u \in 0..FdLimit, NEW s \in -1..FdLimit
  PROVE  /\ AfterFds(p, u, s) \in Nat
         /\ AfterFds(p, u, s) <= Least(p, UserMax)
<1> USE GovernorAssumption
<1> DEFINE c == Least(Least(p, FdBudget(s)), UserMax)
<1>1. c \in Nat /\ c <= Least(p, UserMax)
  BY SMT DEF FdBudget, Minus, Least, Greatest
<1> HIDE DEF c
<1>2. AfterHard(c, u) \in Nat /\ AfterHard(c, u) <= c
  BY <1>1, HardShrinks
<1>3. /\ AfterSoft(AfterHard(c, u), u) \in Nat
      /\ AfterSoft(AfterHard(c, u), u) <= AfterHard(c, u)
  BY <1>2, SoftShrinks
<1>4. Least(p, UserMax) \in Nat
  BY SMT DEF Least
<1>5. AfterFds(p, u, s) = AfterSoft(AfterHard(c, u), u)
  BY DEF AfterFds, c
<1> QED BY <1>1, <1>2, <1>3, <1>4, <1>5, SMT

\* An answer lies between 1 and the proposal, below the user's ceiling.
LEMMA AnswerRange ==
  ASSUME NEW p \in Nat, NEW u \in 0..FdLimit, NEW s \in -1..FdLimit, NEW w
  PROVE  Capped(p, u, s, w) \in 1..Greatest(Least(p, UserMax), 1)
<1>1. AfterFds(p, u, s) \in Nat /\ AfterFds(p, u, s) <= Least(p, UserMax)
  BY FdsShrink
<1>2. /\ AfterErrors(AfterFds(p, u, s), w) \in Nat
      /\ AfterErrors(AfterFds(p, u, s), w) <= AfterFds(p, u, s)
  BY <1>1, ErrorsShrink
<1> QED BY <1>1, <1>2, GovernorAssumption, SMT DEF Capped, Least, Greatest

\* A disabled governor raises no flag; an enabled one raises one exactly when
\* it answers less than was asked for.
LEMMA FlagsOfAnswer ==
  ASSUME NEW p \in Nat \ {0}, NEW u \in 0..FdLimit, NEW s \in -1..FdLimit, NEW w,
         Enabled, UserMax > 0
  PROVE  Capped(p, u, s, w) < p
           <=> FdFlag(p, u, s) \/ AfterErrors(AfterFds(p, u, s), w) < AfterFds(p, u, s)
<1>1. AfterFds(p, u, s) \in Nat /\ AfterFds(p, u, s) <= Least(p, UserMax)
  BY FdsShrink
<1>2. /\ AfterErrors(AfterFds(p, u, s), w) \in Nat
      /\ AfterErrors(AfterFds(p, u, s), w) <= AfterFds(p, u, s)
  BY <1>1, ErrorsShrink
<1>3. AfterFds(p, u, s) >= 1
  <2> DEFINE b == Least(Least(p, FdBudget(s)), UserMax)
  <2>1. b \in Nat /\ b >= 1
    BY GovernorAssumption, SMT DEF FdBudget, Minus, Least, Greatest
  <2> HIDE DEF b
  <2>2. AfterHard(b, u) \in Nat /\ AfterHard(b, u) >= 1
    <3>1. Minus(FdLimit, u) \div 4 \in Nat
      BY FreeNat, DivNat, 4 \in Nat \ {0}
    <3> QED BY <2>1, <3>1, SMT DEF AfterHard, Least, Greatest
  <2>3. AfterSoft(AfterHard(b, u), u) \in Nat
    BY <2>2, SoftShrinks
  <2>4. AfterSoft(AfterHard(b, u), u) >= 1
    BY <2>2, <2>3, SMT DEF AfterSoft, Least, Greatest
  <2> QED BY <2>4 DEF AfterFds, b
<1>4. AfterErrors(AfterFds(p, u, s), w) >= 1
  <2>1. AfterFds(p, u, s) \div 2 \in Nat
    BY <1>1, DivNat, 2 \in Nat \ {0}
  <2> QED BY <1>1, <1>3, <2>1, SMT DEF AfterErrors, Least, Greatest
<1>5. Capped(p, u, s, w) = AfterErrors(AfterFds(p, u, s), w)
  BY <1>2, <1>4, SMT DEF Capped, Greatest
<1>6. AfterFds(p, u, s) <= p
  BY <1>1, GovernorAssumption, SMT DEF Least
<1>7. FdFlag(p, u, s) <=> AfterFds(p, u, s) < p
  BY DEF FdFlag
<1> QED BY <1>1, <1>2, <1>5, <1>6, <1>7, SMT

-----------------------------------------------------------------------------
(* More to ask for and fewer descriptors in use never give less.           *)

\* Multiplying and dividing keep the order.
LEMMA TimesMonotone == \A a, b, d \in Nat : a <= b => a * d <= b * d
BY SMT

LEMMA DivBounds ==
  \A a \in Nat, d \in Nat \ {0} :
    a \div d \in Nat /\ (a \div d) * d <= a /\ a < (a \div d + 1) * d
BY SMT

LEMMA DivMonotone == \A a, b \in Nat, d \in Nat \ {0} : a <= b => a \div d <= b \div d
<1> SUFFICES ASSUME NEW a \in Nat, NEW b \in Nat, NEW d \in Nat \ {0}, a <= b,
                    ~(a \div d <= b \div d)
             PROVE  FALSE
  OBVIOUS
<1> DEFINE q == a \div d
           r == b \div d
<1>1. /\ q \in Nat /\ q * d <= a
      /\ r \in Nat /\ b < (r + 1) * d
  BY DivBounds
<1> HIDE DEF q, r
<1>2. r + 1 <= q
  BY <1>1 DEF q, r
<1>3. (r + 1) * d <= q * d
  BY <1>1, <1>2, TimesMonotone
<1> QED BY <1>1, <1>3, SMT

\* More descriptors in use leave fewer, and reach every ratio sooner.
LEMMA FreeMonotone ==
  ASSUME NEW u \in 0..FdLimit, NEW v \in 0..FdLimit, v <= u
  PROVE  /\ Minus(FdLimit, u) <= Minus(FdLimit, v)
         /\ \A h \in Int : RatioReaches(v, h) => RatioReaches(u, h)
<1>1. Minus(FdLimit, u) <= Minus(FdLimit, v)
  BY GovernorAssumption, SMT DEF Minus, Greatest
<1>2. \A h \in Int : RatioReaches(v, h) => RatioReaches(u, h)
  <2> DEFINE bound(h) == h * FdLimit
  <2>1. \A h \in Int : bound(h) \in Int
    BY GovernorAssumption, SMT
  <2>2. \A h \in Int, w \in 0..FdLimit : RatioReaches(w, h) <=> h >= 0 /\ 100 * w >= bound(h)
    BY DEF RatioReaches
  <2> HIDE DEF bound
  <2> QED BY <2>1, <2>2, GovernorAssumption, SMT
<1> QED BY <1>1, <1>2

\* The hard cap keeps the order of what it is given.
LEMMA HardMonotone ==
  ASSUME NEW c \in Nat, NEW d \in Nat, c <= d,
         NEW u \in 0..FdLimit, NEW v \in 0..FdLimit, v <= u
  PROVE  AfterHard(c, u) <= AfterHard(d, v)
<1>1. Minus(FdLimit, u) \div 4 <= Minus(FdLimit, v) \div 4
  BY FreeNat, FreeMonotone, DivMonotone, 4 \in Nat \ {0}
<1>2. Minus(FdLimit, u) \div 4 \in Nat /\ Minus(FdLimit, v) \div 4 \in Nat
  BY FreeNat, DivNat, 4 \in Nat \ {0}
<1>3. RatioReaches(v, HardCap) => RatioReaches(u, HardCap)
  BY FreeMonotone, GovernorAssumption
<1> HIDE DEF RatioReaches
<1> QED BY <1>1, <1>2, <1>3, SMT DEF AfterHard, Least, Greatest

\* The soft cap too, and its scaling.
LEMMA ScaledMonotone ==
  ASSUME NEW c \in Nat, NEW d \in Nat, c <= d,
         NEW u \in 0..FdLimit, NEW v \in 0..FdLimit, v <= u
  PROVE  /\ SoftScaled(c, u) \in Nat /\ SoftScaled(d, v) \in Nat
         /\ SoftScaled(c, u) <= SoftScaled(d, v)
<1> DEFINE fu == Minus(FdLimit, u)
           fv == Minus(FdLimit, v)
           bottom == FdLimit * (100 - SoftCap)
<1>1. c \div 4 \in Nat /\ d \div 4 \in Nat /\ c \div 4 <= d \div 4
  BY DivNat, DivMonotone, 4 \in Nat \ {0}
<1>2. CASE SoftCap = 100
  BY <1>1, <1>2, SMT DEF SoftScaled, Greatest
<1>3. CASE SoftCap # 100
  <2>1. bottom \in Nat \ {0}
    BY <1>3, GovernorAssumption, SMT
  <2>2. fu \in Nat /\ fv \in Nat /\ fu <= fv
    BY FreeNat, FreeMonotone
  <2>3. /\ SoftScaled(c, u) = Greatest(c \div 4, (c * fu * 100) \div bottom)
        /\ SoftScaled(d, v) = Greatest(d \div 4, (d * fv * 100) \div bottom)
    BY <1>3 DEF SoftScaled
  <2> HIDE DEF fu, fv, bottom
  <2>4. c * fu <= d * fu /\ d * fu <= d * fv
    BY <2>2, TimesMonotone, SMT
  <2>5. c * fu \in Nat /\ d * fu \in Nat /\ d * fv \in Nat
    BY <2>2, SMT
  <2>6. /\ c * fu * 100 \in Nat /\ d * fv * 100 \in Nat
        /\ c * fu * 100 <= d * fv * 100
    <3> DEFINE x == c * fu
               y == d * fu
               z == d * fv
    <3>1. x \in Nat /\ y \in Nat /\ z \in Nat /\ x <= y /\ y <= z
      BY <2>4, <2>5
    <3> HIDE DEF x, y, z
    <3>2. x * 100 \in Nat /\ z * 100 \in Nat /\ x * 100 <= z * 100
      BY <3>1, SMT
    <3> QED BY <3>2 DEF x, z
  <2> DEFINE q == (c * fu * 100) \div bottom
             r == (d * fv * 100) \div bottom
  <2>7. q \in Nat /\ r \in Nat /\ q <= r
    BY <2>1, <2>6, DivNat, DivMonotone
  <2> HIDE DEF q, r
  <2>8. /\ SoftScaled(c, u) = Greatest(c \div 4, q)
        /\ SoftScaled(d, v) = Greatest(d \div 4, r)
    BY <2>3 DEF q, r
  <2> QED BY <1>1, <2>7, <2>8, SMT DEF Greatest
<1> QED BY <1>2, <1>3

LEMMA SoftMonotone ==
  ASSUME NEW c \in Nat, NEW d \in Nat, c <= d,
         NEW u \in 0..FdLimit, NEW v \in 0..FdLimit, v <= u
  PROVE  AfterSoft(c, u) <= AfterSoft(d, v)
<1>1. /\ SoftScaled(c, u) \in Nat /\ SoftScaled(d, v) \in Nat
      /\ SoftScaled(c, u) <= SoftScaled(d, v)
  BY ScaledMonotone
<1>2. RatioReaches(v, SoftCap) => RatioReaches(u, SoftCap)
  BY FreeMonotone, GovernorAssumption
<1> QED BY <1>1, <1>2, SMT DEF AfterSoft, Least, Greatest

\* And the whole composition: a larger proposal and fewer descriptors in use
\* never get a smaller answer.
LEMMA AnswerMonotone ==
  ASSUME NEW p \in Nat, NEW q \in Nat, p <= q,
         NEW u \in 0..FdLimit, NEW v \in 0..FdLimit, v <= u, NEW w
  PROVE  Capped(p, u, u, w) <= Capped(q, v, v, w)
<1> USE GovernorAssumption
<1> DEFINE b(x, s) == Least(Least(x, FdBudget(s)), UserMax)
<1>1. b(p, u) \in Nat /\ b(q, v) \in Nat /\ b(p, u) <= b(q, v)
  BY SMT DEF FdBudget, Minus, Least, Greatest
<1> HIDE DEF b
<1>2. /\ AfterHard(b(p, u), u) \in Nat /\ AfterHard(b(q, v), v) \in Nat
      /\ AfterHard(b(p, u), u) <= AfterHard(b(q, v), v)
  BY <1>1, HardShrinks, HardMonotone
<1>3. AfterSoft(AfterHard(b(p, u), u), u) <= AfterSoft(AfterHard(b(q, v), v), v)
  BY <1>2, SoftMonotone
<1>4. AfterFds(p, u, u) <= AfterFds(q, v, v)
  BY <1>3 DEF AfterFds, b
<1>5. u \in -1..FdLimit /\ v \in -1..FdLimit
  BY SMT
<1>6. AfterFds(p, u, u) \in Nat /\ AfterFds(q, v, v) \in Nat
  BY <1>5, FdsShrink
<1> DEFINE f == AfterFds(p, u, u)
           g == AfterFds(q, v, v)
<1>7. f \in Nat /\ g \in Nat /\ f <= g
  BY <1>4, <1>6
<1> HIDE DEF f, g
<1>8. f \div 2 \in Nat /\ g \div 2 \in Nat /\ f \div 2 <= g \div 2
  BY <1>7, DivNat, DivMonotone, 2 \in Nat \ {0}
<1>9. /\ AfterErrors(f, w) \in Nat /\ AfterErrors(g, w) \in Nat
      /\ AfterErrors(f, w) <= AfterErrors(g, w)
  BY <1>7, <1>8, SMT DEF AfterErrors, Least, Greatest
<1>10. CASE Enabled
  <2>1. /\ Capped(p, u, u, w) = Greatest(AfterErrors(f, w), 1)
        /\ Capped(q, v, v, w) = Greatest(AfterErrors(g, w), 1)
    BY <1>10 DEF Capped, f, g
  <2> QED BY <1>9, <2>1, SMT DEF Greatest
<1>11. CASE ~Enabled
  BY <1>11, SMT DEF Capped, Least, Greatest
<1> QED BY <1>10, <1>11

-----------------------------------------------------------------------------
(* The inductive invariant: types, and what `clean` remembers of the       *)
(* window: its last `clean` entries are clean.                             *)

CleanSuffix ==
  \A i \in 1..Len(window) : i > Len(window) - clean => ~window[i]

(* Every answer lies between 1 and the proposal, and never above the       *)
(* user's ceiling (1 when either is 0).                                    *)
CapWithinProposal ==
  last.capped \in 1..Greatest(Least(last.proposed, UserMax), 1)

(* An answer below the proposal says why, and an answer that grants the    *)
(* proposal raises no flag (cap_concurrency's snapshot, governor enabled). *)
FlagsExplainCap ==
  (Enabled /\ UserMax > 0 /\ last.proposed > 0)
     => (last.capped < last.proposed <=> last.fd \/ last.errors)

\* A governor that is switched off grants the proposal within the ceiling
\* and raises no flag; errors alone never lower a proposal of 0.
QuietWhenOff ==
  /\ ~Enabled => /\ ~last.fd /\ ~last.errors
                 /\ last.capped = Greatest(Least(last.proposed, UserMax), 1)
  /\ last.proposed = 0 => ~last.fd /\ ~last.errors

IInv == TypeOK /\ CleanSuffix /\ CapWithinProposal /\ FlagsExplainCap /\ QuietWhenOff

LEMMA InitIInv == Init => IInv
<1> SUFFICES ASSUME Init PROVE IInv
  OBVIOUS
<1> USE GovernorAssumption DEF Init
<1>1. TypeOK
  <2>1. Cap \in Nat /\ Cap >= 1
    BY SMT DEF Cap, Greatest
  <2>2. window \in Seq(BOOLEAN) /\ Len(window) = 0
    OBVIOUS
  <2>3. NoAnswer \in [proposed : 0..MaxProposal, capped : Int, fd : BOOLEAN, errors : BOOLEAN]
    BY SMT DEF NoAnswer
  <2>4. sample \in -1..FdLimit /\ clean \in 0..Cap /\ Len(window) <= Cap
    BY <2>1, <2>2, SMT
  <2> HIDE DEF NoAnswer
  <2> QED BY <2>2, <2>3, <2>4 DEF TypeOK
<1>2. CleanSuffix
  BY SMT DEF CleanSuffix
<1>3. CapWithinProposal
  BY SMT DEF CapWithinProposal, NoAnswer, Least, Greatest
<1>4. FlagsExplainCap
  BY SMT DEF FlagsExplainCap, NoAnswer
<1>5. QuietWhenOff
  BY SMT DEF QuietWhenOff, NoAnswer, Least, Greatest
<1> QED BY <1>1, <1>2, <1>3, <1>4, <1>5 DEF IInv

\* Recording an outcome keeps the window bounded and its clean suffix clean.
LEMMA RecordKeeps ==
  ASSUME TypeOK, CleanSuffix, NEW e \in BOOLEAN, RecordOutcome(e)
  PROVE  TypeOK' /\ CleanSuffix'
<1> USE GovernorAssumption
<1>1. CASE ~Enabled
  BY <1>1 DEF RecordOutcome, TypeOK, CleanSuffix
<1>2. CASE Enabled
  <2> DEFINE long == Append(window, e)
  <2>1. /\ window' = Trimmed(long)
        /\ clean' = IF e THEN 0 ELSE Least(clean + 1, Cap)
        /\ UNCHANGED <<used, sample, fresh, last>>
    BY <1>2 DEF RecordOutcome
  <2>2. Cap \in Nat /\ Cap >= 1
    BY SMT DEF Cap, Greatest
  <2>3. /\ long \in Seq(BOOLEAN) /\ Len(long) = Len(window) + 1
        /\ \A i \in 1..Len(window) : long[i] = window[i]
        /\ long[Len(window) + 1] = e
    BY DEF TypeOK
  <2>4. clean' \in 0..Cap
    BY <2>1, <2>2, SMT DEF TypeOK, Least
  <2>5. \A i \in 1..Len(long) : i > Len(long) - clean' => ~long[i]
    BY <2>1, <2>2, <2>3, SMT DEF CleanSuffix, TypeOK, Least
  <2> HIDE DEF long
  <2>6. CASE Len(long) > Cap
    <3>1. /\ window' = Tail(long) /\ window' \in Seq(BOOLEAN)
          /\ Len(window') = Len(long) - 1
          /\ \A i \in 1..Len(window') : window'[i] = long[i + 1]
      BY <2>1, <2>2, <2>3, <2>6 DEF Trimmed, TypeOK
    <3>2. CleanSuffix'
      BY <2>3, <2>4, <2>5, <3>1, <2>2, SMT DEF CleanSuffix, TypeOK
    <3>3. TypeOK'
      BY <2>1, <2>2, <2>3, <2>4, <3>1 DEF TypeOK, Cap
    <3> QED BY <3>2, <3>3
  <2>7. CASE ~(Len(long) > Cap)
    <3>1. window' = long
      BY <2>1, <2>7 DEF Trimmed
    <3> QED BY <2>1, <2>2, <2>3, <2>4, <2>5, <2>7, <3>1 DEF TypeOK, CleanSuffix, Cap
  <2> QED BY <2>6, <2>7
<1> QED BY <1>1, <1>2

\* An answer keeps its promises.
LEMMA AnswerKeeps ==
  ASSUME TypeOK, NEW p \in 0..MaxProposal, CapConcurrency(p)
  PROVE  TypeOK' /\ CapWithinProposal' /\ FlagsExplainCap' /\ QuietWhenOff'
<1> USE GovernorAssumption
<1>1. used' \in 0..FdLimit /\ sample' \in -1..FdLimit /\ fresh' \in BOOLEAN /\ p \in Nat
  BY SMT DEF CapConcurrency, TypeOK
<1>2. /\ last'.proposed = p
      /\ last'.capped = Capped(p, used', sample', window)
      /\ last'.fd = FdFlag(p, used', sample')
      /\ last'.errors = (Enabled /\ AfterErrors(AfterFds(p, used', sample'), window)
                                      < AfterFds(p, used', sample'))
  BY DEF CapConcurrency, Answer
<1>3. Capped(p, used', sample', window) \in 1..Greatest(Least(p, UserMax), 1)
  BY <1>1, AnswerRange
<1>4. TypeOK'
  <2>1. Capped(p, used', sample', window) \in Int
    BY <1>3
  <2>2. FdFlag(p, used', sample') \in BOOLEAN
    BY DEF FdFlag
  <2> QED BY <1>1, <2>1, <2>2 DEF CapConcurrency, TypeOK, Answer
<1>5. CapWithinProposal'
  BY <1>2, <1>3 DEF CapWithinProposal
<1>6. FlagsExplainCap'
  <2> SUFFICES ASSUME Enabled, UserMax > 0, p > 0
               PROVE  last'.capped < p <=> last'.fd \/ last'.errors
    BY <1>2 DEF FlagsExplainCap
  <2>1. p \in Nat \ {0}
    BY <1>1
  <2>2. Capped(p, used', sample', window) < p
          <=> \/ FdFlag(p, used', sample')
              \/ AfterErrors(AfterFds(p, used', sample'), window)
                   < AfterFds(p, used', sample')
    BY <1>1, <2>1, FlagsOfAnswer
  <2> QED BY <1>2, <2>2
<1>7. QuietWhenOff'
  <2>1. ASSUME ~Enabled
        PROVE  /\ ~last'.fd /\ ~last'.errors
               /\ last'.capped = Greatest(Least(last'.proposed, UserMax), 1)
    BY <1>2, <2>1 DEF FdFlag, Capped
  <2>2. ASSUME last'.proposed = 0 PROVE ~last'.fd /\ ~last'.errors
    <3>1. AfterFds(p, used', sample') = 0 /\ p = 0
      <4>1. /\ AfterFds(p, used', sample') \in Nat
            /\ AfterFds(p, used', sample') <= Least(p, UserMax)
        BY <1>1, FdsShrink
      <4> QED BY <1>2, <2>2, <4>1, SMT DEF Least
    <3>2. AfterErrors(0, window) \in Nat
      BY ErrorsShrink, 0 \in Nat
    <3>3. ~(AfterErrors(0, window) < 0)
      BY <3>2, SMT
    <3>4. ~FdFlag(p, used', sample')
      BY <3>1, SMT DEF FdFlag
    <3>5. ~(AfterErrors(AfterFds(p, used', sample'), window) < AfterFds(p, used', sample'))
      BY <3>1, <3>3
    <3> QED BY <1>2, <3>4, <3>5, Zenon
  <2> QED BY <2>1, <2>2 DEF QuietWhenOff
<1> QED BY <1>4, <1>5, <1>6, <1>7

LEMMA NextIInv == IInv /\ [Next]_vars => IInv'
<1> SUFFICES ASSUME IInv, [Next]_vars PROVE IInv'
  OBVIOUS
<1> USE DEF IInv
<1>1. CASE FdsMove
  BY <1>1 DEF FdsMove, TypeOK, CleanSuffix, CapWithinProposal, FlagsExplainCap,
             QuietWhenOff
<1>2. CASE SampleExpires
  BY <1>2 DEF SampleExpires, TypeOK, CleanSuffix, CapWithinProposal, FlagsExplainCap,
             QuietWhenOff
<1>3. ASSUME NEW e \in BOOLEAN, RecordOutcome(e) PROVE IInv'
  <2>1. TypeOK' /\ CleanSuffix'
    BY <1>3, RecordKeeps
  <2>2. UNCHANGED last
    BY <1>3 DEF RecordOutcome
  <2> QED BY <2>1, <2>2 DEF CapWithinProposal, FlagsExplainCap, QuietWhenOff
<1>4. ASSUME NEW p \in 0..MaxProposal, CapConcurrency(p) PROVE IInv'
  <2>1. TypeOK' /\ CapWithinProposal' /\ FlagsExplainCap' /\ QuietWhenOff'
    BY <1>4, AnswerKeeps
  <2>2. UNCHANGED <<window, clean>>
    BY <1>4 DEF CapConcurrency
  <2> QED BY <2>1, <2>2 DEF CleanSuffix
<1>5. CASE UNCHANGED vars
  BY <1>5 DEF vars, TypeOK, CleanSuffix, CapWithinProposal, FlagsExplainCap,
             QuietWhenOff
<1> QED BY <1>1, <1>2, <1>3, <1>4, <1>5 DEF Next

LEMMA Invariance == Spec => []IInv
BY InitIInv, NextIInv, PTL DEF Spec

(* The types hold in every configuration: the window never outgrows its    *)
(* bound (governor.rs, record_outcome).                                    *)
THEOREM TypeCorrect == Spec => []TypeOK
BY Invariance, PTL DEF IInv

(* Every answer of cap_concurrency lies between 1 and the proposal and     *)
(* never above user_max_concurrency, whatever that is.                     *)
THEOREM AnswersInRange == Spec => []CapWithinProposal
BY Invariance, PTL DEF IInv

(* The governor keeps the contract by which the batch engine asks it: a    *)
(* resize and the initial limit of BatchDetect meet no other answer than   *)
(* the verdicts modelled there; and its flags tell whatever lowered one.   *)
THEOREM AnswersKeepContract == Spec => []AnswersByContract
<1>1. IInv => AnswersByContract
  <2> SUFFICES ASSUME IInv, UserMax > 0
               PROVE  /\ [cap |-> last.capped, why |-> Reason] \in Contract!Verdicts(last.proposed)
                      /\ Enabled /\ last.proposed > UserMax => Reason # "clear"
    BY DEF AnswersByContract
  <2>1. /\ last.proposed \in Nat /\ UserMax \in Nat /\ last.capped \in Int
        /\ last.fd \in BOOLEAN /\ last.errors \in BOOLEAN
    BY GovernorAssumption DEF IInv, TypeOK
  <2>2. last.capped >= 1 /\ last.capped <= Greatest(Least(last.proposed, UserMax), 1)
    BY <2>1, SMT DEF IInv, CapWithinProposal, Least, Greatest
  <2>3. CASE last.fd \/ last.errors
    <3>1. Enabled /\ last.proposed # 0
      BY <2>3 DEF IInv, QuietWhenOff
    <3>2. last.proposed > 0
      BY <2>1, <3>1, SMT
    <3>3. last.capped < last.proposed
      BY <2>3, <3>1, <3>2 DEF IInv, FlagsExplainCap
    <3>4. last.capped \in 1..Contract!Least(last.proposed - 1, UserMax)
      BY <2>1, <2>2, <3>3, SMT DEF Contract!Least, Least, Greatest
    <3>5. Reason \in {"fd", "errors"}
      BY <2>3 DEF Reason
    <3> QED BY <3>4, <3>5 DEF Contract!Verdicts
  <2>4. CASE ~last.fd /\ ~last.errors
    <3>1. Enabled /\ last.proposed > 0 => ~(last.capped < last.proposed)
      BY <2>4 DEF IInv, FlagsExplainCap
    <3>2. last.capped = Contract!Unthrottled(last.proposed)
      <4>1. CASE ~Enabled
        BY <4>1 DEF IInv, QuietWhenOff, Least, Greatest,
                    Contract!Unthrottled, Contract!Least, Contract!Greatest
      <4>2. CASE Enabled
        BY <2>1, <2>2, <3>1, <4>2, SMT DEF Least, Greatest,
           Contract!Unthrottled, Contract!Least, Contract!Greatest
      <4> QED BY <4>1, <4>2
    <3>3. Reason = "clear"
      BY <2>4 DEF Reason
    <3>4. Enabled => ~(last.proposed > UserMax)
      BY <2>1, <2>2, <3>1, SMT DEF Least, Greatest
    <3> QED BY <3>2, <3>3, <3>4 DEF Contract!Verdicts
  <2> QED BY <2>3, <2>4
<1> QED BY <1>1, Invariance, PTL

(* After a window of clean outcomes no resource error throttles any more.  *)
THEOREM ErrorsAreForgotten == Spec => []ErrorsForgotten
<1>1. IInv => ErrorsForgotten
  <2> SUFFICES ASSUME IInv, clean = Cap PROVE ~ErrorsHigh(window)
    BY DEF ErrorsForgotten
  <2>1. \A i \in 1..Len(window) : ~window[i]
    BY GovernorAssumption, SMT DEF IInv, TypeOK, CleanSuffix, Cap, Greatest
  <2>2. {i \in 1..Len(window) : window[i]} = {}
    BY <2>1
  <2>3. ErrorCount(window) = 0
    BY <2>2, FS_EmptySet DEF ErrorCount
  <2>4. Len(window) \in Nat
    BY DEF IInv, TypeOK
  <2> QED BY <2>3, <2>4, GovernorAssumption, SMT DEF ErrorsHigh
<1> QED BY <1>1, Invariance, PTL

(* cap_concurrency is monotone in both directions in every state and for   *)
(* every configuration, whatever the window of errors holds.               *)
THEOREM AnswersAreMonotone == Spec => []CapMonotone
<1>1. CapMonotone
  <2> SUFFICES ASSUME NEW p \in 0..MaxProposal, NEW u \in 0..FdLimit
               PROVE  /\ p < MaxProposal =>
                           Capped(p, u, u, window) <= Capped(p + 1, u, u, window)
                      /\ u < FdLimit =>
                           Capped(p, u, u, window) >= Capped(p, u + 1, u + 1, window)
    BY DEF CapMonotone
  <2>1. p \in Nat /\ p + 1 \in Nat /\ p <= p + 1 /\ p <= p /\ u <= u
    BY GovernorAssumption, SMT
  <2>2. Capped(p, u, u, window) <= Capped(p + 1, u, u, window)
    BY <2>1, AnswerMonotone
  <2>3. ASSUME u < FdLimit
        PROVE  Capped(p, u, u, window) >= Capped(p, u + 1, u + 1, window)
    <3>1. u + 1 \in 0..FdLimit /\ u <= u + 1
      BY <2>3, GovernorAssumption, SMT
    <3>2. Capped(p, u + 1, u + 1, window) <= Capped(p, u, u, window)
      BY <2>1, <3>1, AnswerMonotone
    <3>3. Capped(p, u, u, window) \in Int /\ Capped(p, u + 1, u + 1, window) \in Int
      <4>1. u \in -1..FdLimit /\ u + 1 \in -1..FdLimit
        BY <3>1, GovernorAssumption, SMT
      <4> QED BY <2>1, <3>1, <4>1, AnswerRange
    <3> QED BY <3>2, <3>3, SMT
  <2> QED BY <2>2, <2>3
<1> QED BY <1>1, PTL
==============================================================================
