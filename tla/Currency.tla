------------------------------ MODULE Currency ------------------------------
(***************************************************************************)
(* The emission schedule (currency.py).  A policy is a record with the     *)
(* initial subsidy, the number of blocks between two halvings (0: never)   *)
(* and the emission cap (0: none).  Pure operators, no state.              *)
(***************************************************************************)
EXTENDS Integers

CONSTANT HalvingCutoff      \* no subsidy after so many halvings (63 in the code)

ASSUME CurrencyAssumption == HalvingCutoff \in Nat

Least(a, b)    == IF a <= b THEN a ELSE b
Greatest(a, b) == IF a >= b THEN a ELSE b

\* Halved(n)[k] is n >> k.
Halved(n) ==
    LET half[k \in 0..HalvingCutoff] == IF k = 0 THEN n ELSE half[k - 1] \div 2
    IN  half

UncappedSubsidy(p, h) ==
    LET halvings == h \div p.interval
    IN  IF h <= 0 \/ (p.interval > 0 /\ halvings >= HalvingCutoff) THEN 0
        ELSE IF p.interval = 0 THEN p.initial ELSE Halved(p.initial)[halvings]

\* A slip for the mutants: the segment includes the first block of the next one.
SegmentPastHalving(p, k, h) == Least(h, (k \div p.interval + 1) * p.interval)

\* The last height, at most h, of the stretch with the same subsidy as height k.
SegmentEnd(p, k, h) ==
    LET nextHalving == (k \div p.interval + 1) * p.interval
    IN  Least(h, Greatest(k, nextHalving - 1))

\* One term for each such stretch from height k on.
CumulativeUncapped(p, h) ==
    LET from[k \in 1..(h + 1)] ==
          LET subsidy == UncappedSubsidy(p, k)
          IN  IF k > h \/ subsidy = 0 THEN 0
              ELSE IF p.interval = 0 THEN subsidy * (h - k + 1)
              ELSE subsidy * (SegmentEnd(p, k, h) - k + 1) + from[SegmentEnd(p, k, h) + 1]
    IN  IF h <= 0 THEN 0 ELSE from[1]

SubsidyAtHeight(p, h) ==
    LET subsidy   == UncappedSubsidy(p, h)
        remaining == Greatest(0, p.cap - CumulativeUncapped(p, h - 1))
    IN  IF p.cap = 0 \/ subsidy = 0 THEN subsidy ELSE Least(subsidy, remaining)

CumulativeSubsidy(p, h) ==
    IF p.cap = 0 THEN CumulativeUncapped(p, h) ELSE Least(CumulativeUncapped(p, h), p.cap)
=============================================================================
