---------------------------- MODULE Utilisation ----------------------------
(***************************************************************************)
(* How the daily job rates a talent (internal/algo/stec.go, breakout.go,   *)
(* internal/jobs/daily_compute.go): the pattern of the outputs of a cycle, *)
(* measured against what was allocated, and the anomaly it reports.        *)
(*                                                                         *)
(* Means, ratios and deviations are compared without dividing and without  *)
(* taking roots: exactly, where the code's are in float64.                 *)
(***************************************************************************)
EXTENDS Integers, Sequences, FiniteSets, Functions

\* outputs: the conversions of each day that has any, the first day first.
\* pdc:     what a talent is expected to convert in a day.

SumOf(outputs) == SumFunction(outputs)
SumOfSquares(outputs) == SumFunction([i \in DOMAIN outputs |-> outputs[i] * outputs[i]])

\* The first half of the days, at least one of them; the rest may be none.
Early(outputs) == LET half == Len(outputs) \div 2 IN SubSeq(outputs, 1, IF half = 0 THEN 1 ELSE half)
Late(outputs) == SubSeq(outputs, Len(Early(outputs)) + 1, Len(outputs))

\* REL, the late mean by the early one, as a fraction.
Rel(outputs) ==
  CASE SumOf(Early(outputs)) = 0 -> <<1, 1>>
    [] SumOf(Early(outputs)) # 0 /\ Late(outputs) = <<>> -> <<0, 1>>
    [] OTHER -> <<SumOf(Late(outputs)) * Len(Early(outputs)), SumOf(Early(outputs)) * Len(Late(outputs))>>

AtMost(fraction, n, d) == fraction[1] * d <= fraction[2] * n
AtLeast(fraction, n, d) == fraction[1] * d >= fraction[2] * n

\* Days with at most a tenth of the expected output.
ZeroDays(outputs, pdc) == Cardinality({i \in DOMAIN outputs : 10 * outputs[i] <= pdc})

\* mu_ur, and the square of sigma_ur.
Mean(outputs, pdc) == <<SumOf(outputs), pdc * Len(outputs)>>
Variance(outputs, pdc) ==
  <<Len(outputs) * SumOfSquares(outputs) - SumOf(outputs) * SumOf(outputs),
    (Len(outputs) * pdc) * (Len(outputs) * pdc)>>

\* classifyPattern.  What it calls stable first is nothing the other patterns
\* would take.
Collapsed(outputs, pdc) ==
  10 * ZeroDays(outputs, pdc) >= 3 * Len(outputs) \/ AtMost(Rel(outputs), 1, 2)

BurntOut(outputs, pdc) ==
  /\ AtLeast(Mean(outputs, pdc), 6, 10) /\ ~AtLeast(Rel(outputs), 3, 4)
  /\ ~AtMost(Variance(outputs, pdc), 4, 100)

Volatile(outputs, pdc) ==
  /\ AtLeast(Variance(outputs, pdc), 1225, 10000)
  /\ AtLeast(Rel(outputs), 3, 5) /\ AtMost(Rel(outputs), 6, 5)

Pattern(outputs, pdc) ==
  CASE Collapsed(outputs, pdc) -> "collapse"
    [] ~Collapsed(outputs, pdc) /\ BurntOut(outputs, pdc) -> "burnout"
    [] ~Collapsed(outputs, pdc) /\ ~BurntOut(outputs, pdc) /\ Volatile(outputs, pdc) -> "volatile"
    [] OTHER -> "stable"

\* DetectBreakout: a fifth more than was allocated, more than the slot can pay
\* for, and no fatigue.
Breakout(outputs, pdc, days, tierMax) ==
  /\ 10 * SumOf(outputs) > 12 * pdc * days
  /\ SumOf(outputs) > tierMax
  /\ ZeroDays(outputs, pdc) = 0 /\ AtLeast(Rel(outputs), 17, 20)

\* A deviation: what the slot can pay for is spread over the days.
AllocatedPerDay(tier, cpa, days) == IF tier \div cpa < days THEN 1 ELSE (tier \div cpa) \div days

\* processTalent hands ComputeSTEC and DetectBreakout the tier, which is money.
Allocated(tier, cpa, days) == tier

\* The event of processTalent; a talent without outputs makes none.
Anomaly(outputs, tier, cpa, days) ==
  LET pdc == Allocated(tier, cpa, days) IN
  CASE outputs = <<>> -> "none"
    [] outputs # <<>> /\ Breakout(outputs, pdc, days, tier \div cpa) -> "breakout"
    [] outputs # <<>> /\ ~Breakout(outputs, pdc, days, tier \div cpa)
         /\ Pattern(outputs, pdc) = "collapse" -> "collapse"
    [] OTHER -> "none"
=============================================================================
