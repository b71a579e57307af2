-------------------------- MODULE HungarianSolver --------------------------
(***************************************************************************)
(* The assignment solver (internal/algo/hungarian.go) with the qualifier   *)
(* and the match score that price a talent for a slot.  One behaviour is   *)
(* one call of Solve: a step is one pass of a loop of hungarianSolve.      *)
(*                                                                         *)
(* A cost is in 150ths of a day, which makes every match adjustment a      *)
(* whole number.  The code calculates in float64, which keeps the first 53 *)
(* bits of a number: so does Near, with fewer.                             *)
(***************************************************************************)
EXTENDS Integers, Sequences, FiniteSets, FiniteSetsExt, Functions

CONSTANTS AllTiers,    \* all_tiers: ValidTiers of the default configuration
          CycleLength, \* days of the cycle
          Precision,   \* below it every whole number is a float: 2^53
          Spacings     \* distances between neighbouring floats: 1, 2, 4, 8, ...

\* The distance between the largest floats, and the largest.
Widest == Max(Spacings)
Forbidden == (Precision - 1) * Widest

\* inf, half of it.
Half == Forbidden \div 2

ASSUME SolverAssumption ==
  /\ CycleLength \in Nat \ {0}
  /\ Precision \in Nat /\ Precision >= 3
  /\ Spacings \subseteq Nat \ {0} /\ 1 \in Spacings
  /\ \A s \in Spacings \ {1} : \E t \in Spacings : s = 2 * t
  /\ \A s, t \in Spacings : s < t => 2 * s <= t
  /\ \E s \in Spacings : 4 * Precision <= s /\ \A t \in Spacings : t <= s

VARIABLES profiles, \* Talents: [pdc, max_tier, audience]
          tiers,    \* of the Slots
          cpa,      \* of the campaign: [target, max]
          row,      \* i, the row that is being matched
          loop,     \* the loop it is in: "rows", "scan" or "augment"
          j0, u, v, p, way, minVal, used

search == <<j0, u, v, p, way, minVal, used>>
input == <<profiles, tiers, cpa>>
solverVars == <<input, row, loop, search>>

-----------------------------------------------------------------------------
(* Numbers *)

\* What is beyond the largest float.
Infinity == 2 * Forbidden

\* The float next to size, of two the one whose last bit is 0, as if there were
\* no largest one.
Rounded(size) ==
  LET spacing == Min({s \in Spacings : size \div s < Precision} \cup {Widest})
      floor   == size \div spacing
      rest    == 2 * (size % spacing)
  IN  spacing * IF rest > spacing \/ (rest = spacing /\ floor % 2 = 1) THEN floor + 1 ELSE floor

Magnitude(size) ==
  LET float == IF size < Precision THEN size ELSE Rounded(size)
  IN  IF float > Forbidden THEN Infinity ELSE float

Near(x) == IF x < 0 THEN -Magnitude(-x) ELSE Magnitude(x)

-----------------------------------------------------------------------------
(* What a talent costs on a slot *)

Ceiling(n, d) == (n + d - 1) \div d

\* What the slot must and can pay for.
TierBoundsFor(tier) == [min |-> Ceiling(tier, cpa.max), max |-> tier \div cpa.target]

\* A talent moves down one tier at most, if its own is known.
Mobile(talent, tier) ==
  talent.max_tier \in AllTiers /\ tier \in AllTiers =>
    Cardinality({x \in AllTiers : tier < x /\ x <= talent.max_tier}) <= 1

\* And reaches four fifths of what the slot must pay for.
QualifyTalentForSlot(talent, tier) ==
  /\ talent.pdc > 0
  /\ Mobile(talent, tier)
  /\ 10 * talent.pdc * CycleLength >= 8 * TierBoundsFor(tier).min

BaseDays(talent, tier) == Ceiling(TierBoundsFor(tier).min, talent.pdc)

\* A day for every tenth by which the slot is not filled.  In float64 three,
\* six and seven tenths are not quite that many times a tenth.
PenaltyDays(talent, tier) ==
  LET full  == TierBoundsFor(tier).max
      short == 10 * Max({full - BaseDays(talent, tier) * talent.pdc, 0})
      exact == short \div full
  IN  IF short % full = 0 /\ exact \in {3, 6, 7} THEN exact - 1 ELSE exact

\* ComputeMatchScore and MatchAdjustment, in 150ths: the audience matches, does
\* not, or is unknown; the two other dimensions are always one half.
MatchAdjustment(talent) ==
  CASE talent.audience = "same"    -> 130
    [] talent.audience = "other"   -> 137
    [] talent.audience = "unknown" -> 135

ComputeCij(talent, tier) ==
  IF QualifyTalentForSlot(talent, tier) /\ TierBoundsFor(tier).max > 0
    THEN Near((BaseDays(talent, tier) + PenaltyDays(talent, tier)) * MatchAdjustment(talent))
    ELSE Forbidden

-----------------------------------------------------------------------------
(* hungarianSolve *)

Size == Max({Len(profiles), Len(tiers)})

\* The matrix is square: what is not a talent or not a slot is Forbidden.
Cost(i, j) ==
  IF i <= Len(profiles) /\ j <= Len(tiers) THEN ComputeCij(profiles[i], tiers[j]) ELSE Forbidden

SolverTypeOK ==
  /\ row \in 0..Size /\ loop \in {"rows", "scan", "augment"} /\ j0 \in 0..Size
  /\ \A j \in 0..Size : p[j] \in 0..Size /\ way[j] \in 0..Size /\ minVal[j] \in 0..Half
  /\ \A j \in 1..Size : u[j] \in -Half..Forbidden /\ v[j] \in -Forbidden..0
  /\ used \subseteq 0..Size

Everywhere(x) == [j \in 0..Size |-> x]

SolverInit ==
  /\ row = 0 /\ loop = "rows" /\ j0 = 0 /\ used = {}
  /\ u = Everywhere(0) /\ v = Everywhere(0) /\ p = Everywhere(0) /\ way = Everywhere(0)
  /\ minVal = Everywhere(Half)

\* The next row looks for a column.
NextRow ==
  /\ loop = "rows" /\ row < Size
  /\ row' = row + 1 /\ loop' = "scan" /\ j0' = 0
  /\ p' = [p EXCEPT ![0] = row + 1]
  /\ minVal' = Everywhere(Half) /\ used' = {}
  /\ UNCHANGED <<input, u, v, way>>

Reduced(i, j) == Near(Near(Cost(i, j) - u[i]) - v[j])

\* A deviation: the potentials of the rows are left as they are.
PotentialsUnmoved(seen, delta) == u

\* The potentials of the rows on the path.
PotentialsMoved(seen, delta) ==
  [i \in DOMAIN u |-> Near(u[i] + delta * Cardinality({j \in seen : p[j] = i}))]

\* One pass over the columns: the closest free one is next.  way keeps what an
\* earlier row wrote where this pass finds nothing closer.
Scan ==
  LET seen   == used \cup {j0}
      i0     == p[j0]
      free   == (1..Size) \ seen
      closer == {j \in free : Reduced(i0, j) < minVal[j]}
      least  == [j \in DOMAIN minVal |-> IF j \in closer THEN Reduced(i0, j) ELSE minVal[j]]
      best   == {j \in free : least[j] < Half /\ \A k \in free : least[j] <= least[k]}
      j1     == IF best = {} THEN 0 ELSE Min(best)
      delta  == IF best = {} THEN Half ELSE least[j1]
  IN
  /\ loop = "scan"
  /\ way' = [j \in DOMAIN way |-> IF j \in closer THEN j0 ELSE way[j]]
  /\ u' = PotentialsMoved(seen, delta)
  /\ v' = [j \in DOMAIN v |-> IF j \in seen THEN Near(v[j] - delta) ELSE v[j]]
  /\ minVal' = [j \in DOMAIN minVal |-> IF j \in seen THEN least[j] ELSE Near(least[j] - delta)]
  /\ used' = seen /\ j0' = j1
  /\ loop' = IF p[j1] = 0 THEN "augment" ELSE "scan"
  /\ UNCHANGED <<input, row, p>>

\* The columns on the path change hands, one by one.
Augment ==
  /\ loop = "augment"
  /\ p' = [p EXCEPT ![j0] = p[way[j0]]]
  /\ j0' = way[j0]
  /\ loop' = IF way[j0] = 0 THEN "rows" ELSE "augment"
  /\ UNCHANGED <<input, row, u, v, way, minVal, used>>

SolverNext == NextRow \/ Scan \/ Augment

Solved == loop = "rows" /\ row = Size

-----------------------------------------------------------------------------
(* Solve's answer *)

\* The column of a row; one without any is left at the first.
ColumnOf(i) == Max({j \in 1..Size : p[j] = i} \cup {1})

\* The pairs that are not Forbidden; the other talents are Unassigned.
Assignments ==
  {<<i, ColumnOf(i)>> : i \in {i \in DOMAIN profiles : Cost(i, ColumnOf(i)) < Forbidden}}

TotalCost(pairs) == SumFunction([x \in pairs |-> Cost(x[1], x[2])])

-----------------------------------------------------------------------------
(* What the answer is worth *)

AllPairs == (DOMAIN profiles) \X (DOMAIN tiers)

\* Every way to give talents slots they qualify for.
Matchings ==
  {m \in SUBSET {x \in AllPairs : Cost(x[1], x[2]) < Forbidden} :
     \A x, y \in m : x[1] = y[1] \/ x[2] = y[2] => x = y}

Optimal(pairs) ==
  \A m \in Matchings :
    /\ Cardinality(m) <= Cardinality(pairs)
    /\ Cardinality(m) = Cardinality(pairs) => TotalCost(pairs) <= TotalCost(m)

EverybodyFits ==
  Len(profiles) = Len(tiers) /\ \A x \in AllPairs : Cost(x[1], x[2]) < Forbidden

\* Every row gets a column of its own, although a row finds on its way what
\* earlier rows left there (internal/algo/hungarian.go:195).
ColumnsDistinct == Solved => \A i, j \in 1..Size : ColumnOf(i) = ColumnOf(j) => i = j

\* When there are as many slots as talents and all qualify for all of them, no
\* other matching is cheaper (internal/algo/hungarian.go:149).
CheapestIsFound == Solved /\ EverybodyFits => Optimal(Assignments)

\* The columns that change hands lead to the first: those on the way are not
\* closed in themselves.
WayLeadsBack == \A S \in SUBSET (1..Size) : j0 \in S => \E j \in S : way[j] \notin S

\* The loops of a row end: a pass goes on from a column that is new to it, and
\* the way leads back.
LoopsEnd == (loop = "scan" => j0 \notin used) /\ (loop = "augment" => WayLeadsBack)

\* A pass over the columns found none for the row.
Fruitless == u[row] >= Half

\* The solver leaves every row a column of its own, finds the cheapest matching
\* if everybody fits, and comes to an end unless a pass finds no column at all:
\* then it follows what earlier rows left in way, which may lead in a circle
\* (internal/algo/hungarian.go:149, 195).
SolutionIsSound ==
  /\ SolverTypeOK
  /\ ColumnsDistinct
  /\ CheapestIsFound
  /\ loop # "rows" /\ ~Fruitless => LoopsEnd
=============================================================================
