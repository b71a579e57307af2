----------------------- MODULE CampaignCycles_proofs -----------------------
(***************************************************************************)
(* Proofs about CampaignCycles, for any number of calls, any budgets and   *)
(* any talents.                                                            *)
(***************************************************************************)
EXTENDS CampaignCycles, FiniteSetTheorems, SequenceTheorems, WellFoundedInduction, TLAPS

-----------------------------------------------------------------------------
(* Numbers and sums *)

LEMMA LeastNat ==
  ASSUME NEW B \in SUBSET Nat, B # {}
  PROVE  \E m \in B : \A n \in B : m <= n
<1> DEFINE R == OpToRel(<, Nat)
<1>1. IsWellFoundedOn(R, Nat)
  BY NatLessThanWellFounded
<1>2. \A m, n \in Nat : n < m => <<n, m>> \in R
  BY DEF OpToRel
<1> HIDE DEF R
<1>3. \E m \in B : \A n \in B : ~(<<n, m>> \in R)
  BY <1>1, WFMin
<1>4. PICK m \in B : \A n \in B : ~(<<n, m>> \in R)
  BY <1>3
<1>5. ASSUME NEW n \in B PROVE m <= n
  <2>1. m \in Nat /\ n \in Nat /\ ~(n < m)
    BY <1>2, <1>4
  <2>2. QED
    BY <2>1
<1>6. QED
  BY <1>5

\* One step of the sum over s: some element, and the rest.
Some(s) == CHOOSE x \in s : TRUE
Rest(s) == s \ {Some(s)}
Adds(f, S, g) == g = [s \in S |-> IF s = {} THEN 0 ELSE f[Some(s)] + g[Rest(s)]]

LEMMA SumIs ==
  ASSUME NEW f, NEW S
  PROVE  SumFunctionOnSet(f, S) = (CHOOSE g : Adds(f, SUBSET S, g))[S]
BY DEF SumFunctionOnSet, FoldFunctionOnSet, MapThenFoldSet, Adds, Some, Rest

\* The rest of a finite set is smaller.
LEMMA RestSmaller ==
  ASSUME NEW s, IsFiniteSet(s), s # {}
  PROVE  /\ Some(s) \in s /\ Rest(s) \subseteq s /\ IsFiniteSet(Rest(s))
         /\ Cardinality(s) \in Nat \ {0}
         /\ Cardinality(Rest(s)) = Cardinality(s) - 1
<1>1. Some(s) \in s
  BY DEF Some
<1>2. QED
  BY <1>1, FS_RemoveElement, FS_CardinalityType, FS_EmptySet DEF Rest

Small(S, n) == {s \in SUBSET S : Cardinality(s) <= n}

LEMMA AddsExist ==
  ASSUME NEW f, NEW S, IsFiniteSet(S)
  PROVE  \E g : Adds(f, SUBSET S, g)
<1> DEFINE B == {n \in Nat : ~ \E g : Adds(f, Small(S, n), g)}
<1>1. \A s \in SUBSET S : IsFiniteSet(s) /\ Cardinality(s) \in Nat /\ Cardinality(s) <= Cardinality(S)
  BY FS_Subset, FS_CardinalityType
<1>2. Small(S, Cardinality(S)) = SUBSET S /\ Cardinality(S) \in Nat
  BY <1>1 DEF Small
<1>3. SUFFICES B = {}
  <2>1. B = {} => \E g : Adds(f, Small(S, Cardinality(S)), g)
    BY <1>2
  <2>2. QED
    BY <1>2, <2>1
<1>4. SUFFICES ASSUME B # {} PROVE FALSE
  OBVIOUS
<1>5. PICK m \in B : \A n \in B : m <= n
  BY <1>4, LeastNat
<1>6. CASE m = 0
  <2>1. \A s \in Small(S, 0) : s = {}
    BY <1>1, FS_EmptySet DEF Small
  <2>2. Adds(f, Small(S, 0), [s \in Small(S, 0) |-> 0])
    BY <2>1 DEF Adds
  <2>3. QED
    BY <1>5, <1>6, <2>2
<1>7. CASE m # 0
  <2>1. m - 1 \in Nat /\ m - 1 \notin B
    BY <1>5, <1>7
  <2>2. PICK h : Adds(f, Small(S, m - 1), h)
    BY <2>1
  <2> DEFINE g == [s \in Small(S, m) |-> IF s = {} THEN 0 ELSE f[Some(s)] + h[Rest(s)]]
  <2>3. ASSUME NEW s \in Small(S, m), s # {} PROVE g[Rest(s)] = h[Rest(s)]
    <3>1. Rest(s) \in Small(S, m - 1) /\ Rest(s) \in Small(S, m)
      BY <1>1, <1>5, <2>3, RestSmaller DEF Small
    <3>2. h[Rest(s)] = IF Rest(s) = {} THEN 0 ELSE f[Some(Rest(s))] + h[Rest(Rest(s))]
      BY <2>2, <3>1 DEF Adds
    <3>3. QED
      BY <3>1, <3>2
  <2>4. Adds(f, Small(S, m), g)
    BY <2>3 DEF Adds
  <2>5. QED
    BY <1>5, <2>4
<1>8. QED
  BY <1>6, <1>7

\* The sum over a part does not depend on the whole it is part of.
LEMMA AddsUnique ==
  ASSUME NEW f, NEW S, IsFiniteSet(S), NEW T \in SUBSET S, NEW g, NEW h,
         Adds(f, SUBSET S, g), Adds(f, SUBSET T, h)
  PROVE  g[T] = h[T]
<1> DEFINE D == {U \in SUBSET T : g[U] # h[U]}
           B == {Cardinality(U) : U \in D}
<1>1. \A s \in SUBSET T : IsFiniteSet(s) /\ Cardinality(s) \in Nat
  BY FS_Subset, FS_CardinalityType
<1>2. SUFFICES ASSUME D # {} PROVE FALSE
  OBVIOUS
<1>3. B \in SUBSET Nat /\ B # {}
  BY <1>1, <1>2
<1>4. PICK m \in B : \A n \in B : m <= n
  BY <1>3, LeastNat
<1>5. PICK U \in D : Cardinality(U) = m
  BY <1>4
<1>6. /\ g[U] = IF U = {} THEN 0 ELSE f[Some(U)] + g[Rest(U)]
      /\ h[U] = IF U = {} THEN 0 ELSE f[Some(U)] + h[Rest(U)]
  BY <1>5 DEF Adds
<1>7. U # {}
  BY <1>5, <1>6
<1>8. Rest(U) \in SUBSET T /\ Cardinality(Rest(U)) = m - 1 /\ m \in Nat
  BY <1>1, <1>5, <1>7, RestSmaller
<1>9. Rest(U) \notin D
  BY <1>4, <1>8
<1>10. QED
  BY <1>5, <1>6, <1>7, <1>8, <1>9

LEMMA SumStep ==
  ASSUME NEW f, NEW S, IsFiniteSet(S)
  PROVE  SumFunctionOnSet(f, S) =
           IF S = {} THEN 0 ELSE f[Some(S)] + SumFunctionOnSet(f, Rest(S))
<1> DEFINE g == CHOOSE g : Adds(f, SUBSET S, g)
           h == CHOOSE h : Adds(f, SUBSET Rest(S), h)
<1>1. Adds(f, SUBSET S, g)
  BY AddsExist
<1>2. Rest(S) \in SUBSET S /\ IsFiniteSet(Rest(S))
  BY FS_Subset DEF Rest
<1>3. Adds(f, SUBSET Rest(S), h)
  BY <1>2, AddsExist
<1>4. SumFunctionOnSet(f, S) = g[S] /\ SumFunctionOnSet(f, Rest(S)) = h[Rest(S)]
  BY SumIs
<1> HIDE DEF g, h
<1>5. g[S] = IF S = {} THEN 0 ELSE f[Some(S)] + g[Rest(S)]
  BY <1>1 DEF Adds
<1>6. g[Rest(S)] = h[Rest(S)]
  BY <1>1, <1>2, <1>3, AddsUnique
<1>7. QED
  BY <1>4, <1>5, <1>6

\* The sum of amounts is an amount, and does not depend on the order.
LEMMA SumOfNats ==
  ASSUME NEW S, IsFiniteSet(S), NEW f, \A x \in S : f[x] \in Nat
  PROVE  /\ SumFunctionOnSet(f, S) \in Nat
         /\ \A x \in S : SumFunctionOnSet(f, S) = f[x] + SumFunctionOnSet(f, S \ {x})
<1> DEFINE Fine(U) == /\ SumFunctionOnSet(f, U) \in Nat
                      /\ \A x \in U : SumFunctionOnSet(f, U) = f[x] + SumFunctionOnSet(f, U \ {x})
           D == {U \in SUBSET S : ~Fine(U)}
           B == {Cardinality(U) : U \in D}
<1>1. \A s \in SUBSET S : IsFiniteSet(s) /\ Cardinality(s) \in Nat
  BY FS_Subset, FS_CardinalityType
<1>2. SUFFICES ASSUME D # {} PROVE FALSE
  OBVIOUS
<1>3. B \in SUBSET Nat /\ B # {}
  BY <1>1, <1>2
<1>4. PICK m \in B : \A n \in B : m <= n
  BY <1>3, LeastNat
<1>5. PICK U \in D : Cardinality(U) = m
  BY <1>4
<1> DEFINE y == Some(U)
           V == Rest(U)
<1>6. SumFunctionOnSet(f, U) = IF U = {} THEN 0 ELSE f[y] + SumFunctionOnSet(f, V)
  BY <1>1, <1>5, SumStep
<1>7. U # {}
  BY <1>5, <1>6
<1>8. y \in U /\ V = U \ {y} /\ V \in SUBSET S
  BY <1>1, <1>5, <1>7, RestSmaller DEF Rest
<1>9. \A W \in SUBSET S : Cardinality(W) < m => Fine(W)
  <2>1. ASSUME NEW W \in SUBSET S, Cardinality(W) < m, ~Fine(W) PROVE FALSE
    <3>1. W \in D
      BY <2>1
    <3>2. Cardinality(W) \in B
      BY <3>1
    <3>3. Cardinality(W) \in Nat /\ m \in Nat
      BY <1>1, <1>3, <1>4
    <3>4. QED
      BY <1>4, <2>1, <3>2, <3>3
  <2>2. QED
    BY <2>1
<1>10. \A x \in U : U \ {x} \in SUBSET S /\ Cardinality(U \ {x}) = m - 1 /\ m \in Nat
  BY <1>1, <1>5, FS_RemoveElement
<1>11. \A x \in U : Fine(U \ {x})
  <2>1. \A x \in U : Cardinality(U \ {x}) < m
    BY <1>10
  <2> HIDE DEF Fine
  <2>2. QED
    BY <1>9, <1>10, <2>1
<1>12. SumFunctionOnSet(f, U) \in Nat
  BY <1>6, <1>7, <1>8, <1>11
<1>13. ASSUME NEW x \in U
       PROVE  SumFunctionOnSet(f, U) = f[x] + SumFunctionOnSet(f, U \ {x})
  <2>1. CASE x = y
    BY <1>6, <1>7, <1>8, <2>1
  <2>2. CASE x # y
    <3>1. x \in V /\ y \in U \ {x} /\ V \ {x} = (U \ {x}) \ {y} /\ f[x] \in Nat /\ f[y] \in Nat
      BY <1>8, <2>2
    <3>2. SumFunctionOnSet(f, V) = f[x] + SumFunctionOnSet(f, V \ {x})
      BY <1>8, <1>11, <3>1
    <3>3. SumFunctionOnSet(f, U \ {x}) = f[y] + SumFunctionOnSet(f, V \ {x})
      BY <1>11, <3>1
    <3>4. SumFunctionOnSet(f, V \ {x}) \in Nat
      <4>1. Cardinality(V \ {x}) < m /\ V \ {x} \in SUBSET S
        <5>1. Cardinality(V) = m - 1 /\ IsFiniteSet(V) /\ m \in Nat
          BY <1>1, <1>8, <1>10
        <5>2. Cardinality(V \ {x}) = Cardinality(V) - 1
          BY <3>1, <5>1, FS_RemoveElement
        <5>3. QED
          BY <1>8, <5>1, <5>2
      <4>2. QED
        BY <1>9, <4>1
    <3>5. QED
      BY <1>6, <1>7, <3>1, <3>2, <3>3, <3>4
  <2>3. QED
    BY <2>1, <2>2
<1>14. QED
  BY <1>5, <1>12, <1>13

\* Functions that agree on a set have the same sum over it.
LEMMA SumSame ==
  ASSUME NEW S, IsFiniteSet(S), NEW f, NEW h, \A x \in S : f[x] = h[x]
  PROVE  SumFunctionOnSet(f, S) = SumFunctionOnSet(h, S)
<1> DEFINE D == {U \in SUBSET S : SumFunctionOnSet(f, U) # SumFunctionOnSet(h, U)}
           B == {Cardinality(U) : U \in D}
<1>1. \A s \in SUBSET S : IsFiniteSet(s) /\ Cardinality(s) \in Nat
  BY FS_Subset, FS_CardinalityType
<1>2. SUFFICES ASSUME D # {} PROVE FALSE
  OBVIOUS
<1>3. B \in SUBSET Nat /\ B # {}
  BY <1>1, <1>2
<1>4. PICK m \in B : \A n \in B : m <= n
  BY <1>3, LeastNat
<1>5. PICK U \in D : Cardinality(U) = m
  BY <1>4
<1>6. /\ SumFunctionOnSet(f, U) = IF U = {} THEN 0 ELSE f[Some(U)] + SumFunctionOnSet(f, Rest(U))
      /\ SumFunctionOnSet(h, U) = IF U = {} THEN 0 ELSE h[Some(U)] + SumFunctionOnSet(h, Rest(U))
  BY <1>1, <1>5, SumStep
<1>7. U # {}
  BY <1>5, <1>6
<1>8. Some(U) \in S /\ Rest(U) \in SUBSET S /\ Cardinality(Rest(U)) = m - 1 /\ m \in Nat
  BY <1>1, <1>5, <1>7, RestSmaller
<1>9. Rest(U) \notin D
  BY <1>4, <1>8
<1>10. QED
  BY <1>5, <1>6, <1>7, <1>8, <1>9

-----------------------------------------------------------------------------
(* The waterfall *)

\* Rounding to a tier.
LEMMA Quotient ==
  ASSUME NEW n \in Nat, NEW d \in Nat \ {0}
  PROVE  n \div d \in Nat /\ (n \div d) * d <= n /\ n < (n \div d) * d + d
OBVIOUS

LEMMA Rounding ==
  ASSUME NEW n \in Nat
  PROVE  RoundDown(n) \in Nat /\ RoundDown(n) <= n
BY Quotient, TierAssumption DEF RoundDown

LEMMA MinTierSound ==
  ASSUME NEW terms \in Terms, terms.target_cpa > 0
  PROVE  MinTier(terms) \in Nat \ {0}
<1>1. terms.target_cpa \in Nat \ {0} /\ TierIncrement \in Nat \ {0}
  BY TierAssumption DEF Terms
<1>2. terms.target_cpa + TierIncrement - 1 \in Nat /\ terms.target_cpa + TierIncrement - 1 >= TierIncrement
  BY <1>1
<1> DEFINE n == terms.target_cpa + TierIncrement - 1
<1>3. n \div TierIncrement \in Nat \ {0}
  <2>1. n \div TierIncrement \in Nat /\ n < (n \div TierIncrement) * TierIncrement + TierIncrement
    BY <1>1, <1>2, Quotient
  <2>2. n \div TierIncrement # 0
    BY <1>1, <1>2, <2>1
  <2>3. QED
    BY <2>1, <2>2
<1>4. \A k \in Nat \ {0}, d \in Nat \ {0} : k * d \in Nat \ {0}
  OBVIOUS
<1>5. QED
  BY <1>1, <1>3, <1>4 DEF MinTier, RoundUp, RoundDown

LEMMA TierOfSound ==
  ASSUME NEW terms \in Terms, terms.target_cpa > 0, NEW fair \in Nat,
         NEW talent \in TalentTerms
  PROVE  TierOf(terms, fair, talent) \in Nat /\ TierOf(terms, fair, talent) <= fair
<1> DEFINE demand == DemandTier(CategoryPDC(talent.category), terms)
           natural == GreaterOf(demand, MinTier(terms))
           shared == LesserOf(natural, fair)
<1>1. demand \in Int
  <2>1. CategoryPDC(talent.category) \in Int
    BY DEF CategoryPDC
  <2>2. \A a, b, c \in Int : (a * b) * c \in Int
    OBVIOUS
  <2>3. \A n \in Int : RoundDown(n) \in Int
    BY TierAssumption DEF RoundDown
  <2>4. QED
    BY <2>1, <2>2, <2>3 DEF DemandTier, Terms
<1>2. natural \in Nat
  BY <1>1, MinTierSound DEF GreaterOf
<1>3. shared \in Nat /\ shared <= fair
  BY <1>2 DEF LesserOf
<1>4. talent.max_tier \in Int
  BY DEF TalentTerms
<1>5. TierOf(terms, fair, talent) = IF talent.max_tier > 0 /\ shared > talent.max_tier
        THEN RoundDown(talent.max_tier) ELSE shared
  BY DEF TierOf
<1> HIDE DEF shared
<1>6. CASE talent.max_tier > 0 /\ shared > talent.max_tier
  BY <1>3, <1>4, <1>5, <1>6, Rounding
<1>7. CASE ~(talent.max_tier > 0 /\ shared > talent.max_tier)
  BY <1>3, <1>5, <1>7
<1>8. QED
  BY <1>6, <1>7

\* The loop of the waterfall is defined for every list of talents.
Turns(terms, fair, capacity, talents, S, g) ==
  g = [n \in S |-> IF n = 0 THEN NoSlots("")
                   ELSE AddSlot(terms, fair, capacity, g[n - 1], talents[n])]

LEMMA TurnsExist ==
  ASSUME NEW terms, NEW fair, NEW capacity, NEW talents, NEW N \in Nat
  PROVE  \E g : Turns(terms, fair, capacity, talents, 0 .. N, g)
<1> DEFINE B == {n \in Nat : ~ \E g : Turns(terms, fair, capacity, talents, 0 .. n, g)}
<1>1. SUFFICES ASSUME B # {} PROVE FALSE
  OBVIOUS
<1>2. PICK m \in B : \A n \in B : m <= n
  BY <1>1, LeastNat
<1>3. CASE m = 0
  <2> DEFINE g == [n \in 0 .. 0 |-> NoSlots("")]
  <2>1. Turns(terms, fair, capacity, talents, 0 .. 0, g)
    <3>1. \A n \in 0 .. 0 : n = 0
      OBVIOUS
    <3>2. QED
      BY <3>1 DEF Turns
  <2>2. QED
    BY <1>2, <1>3, <2>1
<1>4. CASE m # 0
  <2>1. m - 1 \in Nat /\ m - 1 \notin B
    BY <1>2, <1>4
  <2>2. PICK h : Turns(terms, fair, capacity, talents, 0 .. (m - 1), h)
    BY <2>1
  <2> DEFINE g == [n \in 0 .. m |-> IF n = 0 THEN NoSlots("")
                     ELSE AddSlot(terms, fair, capacity, h[n - 1], talents[n])]
  <2>3. m \in Nat /\ 0 .. (m - 1) \subseteq 0 .. m /\ \A n \in 0 .. m : n # 0 => n - 1 \in 0 .. (m - 1)
    BY <2>1
  <2>4. ASSUME NEW n \in 0 .. m, n # 0 PROVE g[n - 1] = h[n - 1]
    <3>1. n - 1 \in 0 .. (m - 1) /\ n - 1 \in 0 .. m
      BY <2>3, <2>4
    <3>2. h[n - 1] = IF n - 1 = 0 THEN NoSlots("")
                     ELSE AddSlot(terms, fair, capacity, h[(n - 1) - 1], talents[n - 1])
      BY <2>2, <3>1 DEF Turns
    <3>3. QED
      BY <3>1, <3>2
  <2>5. Turns(terms, fair, capacity, talents, 0 .. m, g)
    BY <2>4 DEF Turns
  <2>6. QED
    BY <1>2, <2>5
<1>5. QED
  BY <1>3, <1>4

LEMMA AfterTurnsIs ==
  ASSUME NEW terms, NEW fair, NEW capacity, NEW talents, Len(talents) \in Nat
  PROVE  Turns(terms, fair, capacity, talents, 0 .. Len(talents),
               AfterTurns(terms, fair, capacity, talents))
<1>1. AfterTurns(terms, fair, capacity, talents) =
        CHOOSE g : Turns(terms, fair, capacity, talents, 0 .. Len(talents), g)
  BY DEF AfterTurns, Turns
<1>2. QED
  BY <1>1, TurnsExist

\* What the loop keeps: no more slots than the capacity, none above the fair share.
Within(result, fair, capacity) ==
  /\ result \in [slots : Seq(SlotTerms), error : Errors]
  /\ Len(result.slots) <= capacity
  /\ \A i \in 1 .. Len(result.slots) : result.slots[i].tier <= fair

LEMMA NoSlotsWithin ==
  ASSUME NEW error \in Errors, NEW fair \in Nat, NEW capacity \in Nat
  PROVE  Within(NoSlots(error), fair, capacity)
<1>1. <<>> \in Seq(SlotTerms) /\ Len(<<>>) = 0
  OBVIOUS
<1>2. QED
  BY <1>1 DEF Within, NoSlots

LEMMA AddSlotKeeps ==
  ASSUME NEW terms \in Terms, terms.target_cpa > 0, NEW fair \in Nat, NEW capacity \in Nat,
         NEW talent \in TalentTerms, NEW result, Within(result, fair, capacity)
  PROVE  Within(AddSlot(terms, fair, capacity, result, talent), fair, capacity)
<1> DEFINE tier == TierOf(terms, fair, talent)
           index == NextIndex(result.slots, tier)
           row == [tier |-> tier, index |-> index]
           more == [result EXCEPT !.slots = Append(result.slots, row)]
           ended == talent.status # "active" \/ result.error # "" \/ Len(result.slots) = capacity
<1>1. tier \in Nat /\ tier <= fair
  BY TierOfSound
<1>2. MinTier(terms) \in Nat /\ MaxTierValue \in Nat
  BY MinTierSound, TierAssumption
<1>3. result.slots \in Seq(SlotTerms) /\ Len(result.slots) \in Nat /\ DOMAIN result.slots = 1 .. Len(result.slots)
  BY DEF Within
<1>4. index \in Nat
  <2>1. IsFiniteSet(DOMAIN result.slots)
    <3> DEFINE l == Len(result.slots)
    <3>1. l \in Int /\ 1 \in Int /\ DOMAIN result.slots = 1 .. l
      BY <1>3
    <3> HIDE DEF l
    <3>2. IsFiniteSet(1 .. l)
      BY <3>1, FS_Interval
    <3>3. QED
      BY <3>1, <3>2
  <2>2. IsFiniteSet({i \in DOMAIN result.slots : result.slots[i].tier = tier})
    BY <2>1, FS_Subset
  <2>3. QED
    BY <2>2, FS_CardinalityType DEF NextIndex
<1>5. AddSlot(terms, fair, capacity, result, talent) =
        IF ended THEN result
        ELSE IF tier > MaxTierValue THEN NoSlots("tier_value_exceeds_supported_range")
        ELSE IF tier < MinTier(terms) THEN result ELSE more
  BY DEF AddSlot
<1> HIDE DEF index, tier
<1>6. Len(result.slots) # capacity => Within(more, fair, capacity)
  <2>1. row \in SlotTerms /\ row.tier <= fair
    BY <1>1, <1>4 DEF SlotTerms
  <2> HIDE DEF row
  <2>2. ASSUME Len(result.slots) # capacity PROVE Within(more, fair, capacity)
    <3> DEFINE longer == Append(result.slots, row)
    <3>1. longer \in Seq(SlotTerms) /\ Len(longer) = Len(result.slots) + 1
      BY <1>3, <2>1
    <3>2. \A i \in 1 .. Len(longer) : longer[i].tier <= fair
      BY <1>3, <2>1 DEF Within
    <3>3. Len(longer) <= capacity
      BY <1>3, <2>2, <3>1 DEF Within
    <3> HIDE DEF longer
    <3>4. more.slots = longer /\ more \in [slots : Seq(SlotTerms), error : Errors]
      BY <3>1 DEF Within, longer
    <3>5. QED
      BY <3>2, <3>3, <3>4 DEF Within
  <2>3. QED
    BY <2>2
<1>7. Within(NoSlots("tier_value_exceeds_supported_range"), fair, capacity)
  <2>1. "tier_value_exceeds_supported_range" \in Errors
    BY DEF Errors
  <2>2. QED
    BY <2>1, NoSlotsWithin
<1>11. ~ended => Len(result.slots) # capacity
  OBVIOUS
<1> HIDE DEF more, ended
<1>8. CASE ended
  BY <1>5, <1>8
<1>9. CASE ~ended
  <2>1. CASE tier > MaxTierValue
    BY <1>5, <1>7, <1>9, <2>1
  <2>2. CASE ~(tier > MaxTierValue) /\ tier < MinTier(terms)
    BY <1>5, <1>9, <2>2
  <2>3. CASE ~(tier > MaxTierValue) /\ ~(tier < MinTier(terms))
    BY <1>5, <1>6, <1>9, <1>11, <2>3
  <2>4. QED
    BY <2>1, <2>2, <2>3
<1>10. QED
  BY <1>8, <1>9

LEMMA LoopWithin ==
  ASSUME NEW terms \in Terms, terms.target_cpa > 0, NEW fair \in Nat, NEW capacity \in Nat,
         NEW talents \in Seq(TalentTerms)
  PROVE  Within(AfterTurns(terms, fair, capacity, talents)[Len(talents)], fair, capacity)
<1> DEFINE g == AfterTurns(terms, fair, capacity, talents)
           B == {n \in 0 .. Len(talents) : ~Within(g[n], fair, capacity)}
<1>1. Len(talents) \in Nat /\ \A n \in 1 .. Len(talents) : talents[n] \in TalentTerms
  OBVIOUS
<1>2. Turns(terms, fair, capacity, talents, 0 .. Len(talents), g)
  BY <1>1, AfterTurnsIs
<1> HIDE DEF g
<1>3. SUFFICES B = {}
  BY <1>1 DEF g
<1>4. SUFFICES ASSUME B # {} PROVE FALSE
  OBVIOUS
<1>5. PICK m \in B : \A n \in B : m <= n
  <2>1. B \in SUBSET Nat
    BY <1>1
  <2>2. QED
    BY <1>4, <2>1, LeastNat
<1>6. CASE m = 0
  <2>1. 0 \in 0 .. Len(talents) /\ "" \in Errors
    BY <1>1 DEF Errors
  <2>2. g[0] = NoSlots("")
    BY <1>2, <2>1 DEF Turns
  <2>3. QED
    BY <1>5, <1>6, <2>1, <2>2, NoSlotsWithin
<1>7. CASE m # 0
  <2>1. m - 1 \in 0 .. Len(talents) /\ m \in 1 .. Len(talents) /\ m - 1 \notin B
    BY <1>1, <1>5, <1>7
  <2>2. Within(g[m - 1], fair, capacity)
    BY <2>1
  <2>3. g[m] = AddSlot(terms, fair, capacity, g[m - 1], talents[m])
    BY <1>2, <1>5, <1>7 DEF Turns
  <2>4. Within(g[m], fair, capacity)
    BY <1>1, <2>1, <2>2, <2>3, AddSlotKeeps
  <2>5. QED
    BY <1>5, <2>4
<1>8. QED
  BY <1>6, <1>7

\* The waterfall makes at most as many slots as each can have the fair share
\* of the budget, and none of them is larger than that share.
LEMMA WaterfallWithin ==
  ASSUME NEW terms \in Terms, NEW budget \in Nat, NEW talents \in Seq(TalentTerms)
  PROVE  \E fair \in Nat, capacity \in Nat :
           capacity * fair <= budget /\ Within(BuildBudgetSlots(terms, budget, talents), fair, capacity)
<1> DEFINE active == ActiveTalents(talents)
           capacity == Capacity(terms, budget, active)
           fair == FairBudget(terms, budget, active)
<1>1. BuildBudgetSlots(terms, budget, talents) =
        IF active = {} THEN NoSlots("")
        ELSE IF ~ValidCycle(terms, budget) THEN NoSlots("invalid_cycle")
        ELSE IF capacity = 0 THEN NoSlots("cycle_budget_below_target_cpa")
        ELSE AfterTurns(terms, fair, capacity, talents)[Len(talents)]
  BY DEF BuildBudgetSlots
<1>2. 0 * 0 <= budget /\ 0 \in Nat /\ \A error \in Errors : Within(NoSlots(error), 0, 0)
  <2>1. 0 \in Nat /\ 0 * 0 <= budget
    OBVIOUS
  <2>2. QED
    BY <2>1, NoSlotsWithin
<1>3. CASE active = {} \/ ~ValidCycle(terms, budget) \/ capacity = 0
  <2> HIDE DEF active, capacity, fair
  <2>1. \E error \in Errors : BuildBudgetSlots(terms, budget, talents) = NoSlots(error)
    <3>1. "" \in Errors /\ "invalid_cycle" \in Errors /\ "cycle_budget_below_target_cpa" \in Errors
      BY DEF Errors
    <3>2. CASE active = {}
      BY <1>1, <3>1, <3>2
    <3>3. CASE active # {} /\ ~ValidCycle(terms, budget)
      BY <1>1, <3>1, <3>3
    <3>4. CASE active # {} /\ ValidCycle(terms, budget) /\ capacity = 0
      BY <1>1, <3>1, <3>4
    <3>5. QED
      BY <1>3, <3>2, <3>3, <3>4
  <2>2. QED
    BY <1>2, <2>1
<1>4. CASE ~(active = {} \/ ~ValidCycle(terms, budget) \/ capacity = 0)
  <2>1. terms.target_cpa > 0
    BY <1>4 DEF ValidCycle
  <2>2. MinTier(terms) \in Nat \ {0}
    BY <2>1, MinTierSound
  <2>3. Cardinality(active) \in Nat
    <3>1. IsFiniteSet(DOMAIN talents)
      <4>1. DOMAIN talents = 1 .. Len(talents) /\ Len(talents) \in Nat
        OBVIOUS
      <4>2. QED
        BY <4>1, FS_Interval
    <3>2. QED
      BY <3>1, FS_Subset, FS_CardinalityType DEF ActiveTalents
  <2>4. capacity \in Nat \ {0}
    <3>1. budget \div MinTier(terms) \in Nat
      BY <2>2, Quotient
    <3>2. capacity \in Nat
      BY <2>3, <3>1 DEF Capacity, LesserOf
    <3>3. QED
      BY <1>4, <3>2
  <2>5. fair \in Nat /\ fair <= budget \div capacity
    <3> HIDE DEF capacity
    <3>1. budget \div capacity \in Nat
      BY <2>4, Quotient
    <3>2. fair = RoundDown(budget \div capacity)
      BY DEF FairBudget, capacity
    <3>3. QED
      BY <3>1, <3>2, Rounding
  <2>6. capacity * fair <= budget
    <3> HIDE DEF fair, capacity
    <3>1. budget \div capacity \in Nat /\ (budget \div capacity) * capacity <= budget
      BY <2>4, Quotient
    <3>2. \A a, b, c \in Nat : a <= b => c * a <= b * c
      OBVIOUS
    <3>3. \A a, b, c, d \in Nat : a <= b /\ b * c <= d => c * a <= d
      BY <3>2
    <3>4. QED
      BY <2>4, <2>5, <3>1, <3>3
  <2>7. Within(AfterTurns(terms, fair, capacity, talents)[Len(talents)], fair, capacity)
    <3> HIDE DEF fair, capacity
    <3>1. QED
      BY <2>1, <2>4, <2>5, LoopWithin
  <2>8. BuildBudgetSlots(terms, budget, talents) = AfterTurns(terms, fair, capacity, talents)[Len(talents)]
    <3> HIDE DEF fair, capacity, active
    <3>1. QED
      BY <1>1, <1>4
  <2> HIDE DEF fair, capacity
  <2>9. QED
    BY <2>4, <2>5, <2>6, <2>7, <2>8
<1>5. QED
  BY <1>3, <1>4

-----------------------------------------------------------------------------
(* Numbers of the cycles *)

\* The types the argument needs.
RowsTyped ==
  /\ DOMAIN cycles \subseteq Ids
  /\ \A c \in DOMAIN cycles : cycles[c] \in Row
  /\ pc \in [Requests -> Running \cup {"idle", "ok", "refused", "failed"}]
  /\ op \in [Requests -> Ops(Ids) \cup {NoOp}]
  /\ DOMAIN seen = Requests
  /\ \A r \in Requests : pc[r] = "insert" => op[r].kind = "create"

\* A call's own cycle exists only after the call has inserted it.
InsertedWhen ==
  \A r \in Requests : pc[r] \in {"idle", "list", "insert"} => r \notin DOMAIN cycles

\* A call that is about to insert has listed at most the cycles there are.
ListedBefore ==
  \A r \in Requests :
    pc[r] = "insert" => seen[r].count \in 0 .. Cardinality(DOMAIN cycles)

NumberedInv ==
  /\ RowsTyped
  /\ IsFiniteSet(DOMAIN cycles)
  /\ InsertedWhen
  /\ ListedBefore
  /\ CycleNumbersContiguous

LEMMA NumberedInit == Init => NumberedInv
<1>. SUFFICES ASSUME Init PROVE NumberedInv
  OBVIOUS
<1>1. DOMAIN cycles = {}
  BY DEF Init
<1>2. IsFiniteSet(DOMAIN cycles) /\ Cardinality(DOMAIN cycles) = 0
  BY <1>1, FS_EmptySet
<1>3. CycleNumbersContiguous
  <2>1. 1 .. Cardinality(DOMAIN cycles) = {}
    BY <1>2
  <2>. QED  BY <1>1, <2>1 DEF CycleNumbersContiguous
<1>4. RowsTyped
  BY <1>1 DEF Init, RowsTyped
<1>5. InsertedWhen /\ ListedBefore
  BY <1>1 DEF Init, InsertedWhen, ListedBefore
<1>. QED  BY <1>2, <1>3, <1>4, <1>5 DEF NumberedInv

\* A step that keeps the ids and the numbers keeps the numbering.
LEMMA SameNumbers ==
  ASSUME CycleNumbersContiguous, DOMAIN cycles' = DOMAIN cycles,
         \A c \in DOMAIN cycles : cycles'[c].number = cycles[c].number
  PROVE  CycleNumbersContiguous'
<1>1. {cycles'[c].number : c \in DOMAIN cycles'} = {cycles[c].number : c \in DOMAIN cycles}
  OBVIOUS
<1>. QED  BY <1>1 DEF CycleNumbersContiguous

\* A change of one field of a row keeps its type and its number.
LEMMA UpdateKeepsNumbers ==
  ASSUME RowsTyped, NEW r \in Requests,
         UpdateBudget(r) \/ UpdateStatus(r)
  PROVE  /\ DOMAIN cycles' = DOMAIN cycles
         /\ \A c \in DOMAIN cycles : cycles'[c] \in Row /\ cycles'[c].number = cycles[c].number
<1>1. op[r] \in Ops(Ids) \cup {NoOp}
  BY DEF RowsTyped
<1>2. CASE UpdateBudget(r)
  <2>1. op[r].budget \in Budgets
    BY <1>1, <1>2 DEF UpdateBudget, Ops, CreateOps, RebudgetOps, StatusOps, CampaignOps, NoOp
  <2>2. cycles' = [cycles EXCEPT ![op[r].cycle].budget = op[r].budget]
    BY <1>2 DEF UpdateBudget
  <2>. QED  BY <2>1, <2>2 DEF RowsTyped, Row
<1>3. CASE UpdateStatus(r)
  <2>1. op[r].status \in CycleStatuses
    BY <1>1, <1>3 DEF UpdateStatus, Ops, CreateOps, RebudgetOps, StatusOps, CampaignOps, NoOp,
                      CycleStatuses
  <2>2. cycles' = [cycles EXCEPT ![op[r].cycle].status = op[r].status]
    BY <1>3 DEF UpdateStatus
  <2>. QED  BY <2>1, <2>2 DEF RowsTyped, Row
<1>. QED  BY <1>2, <1>3

\* What an insertion adds.
LEMMA InsertNumbers ==
  ASSUME NumberedInv, NEW r \in Requests, InsertCycle(r)
  PROVE  /\ DOMAIN cycles' = DOMAIN cycles \cup {r}
         /\ IsFiniteSet(DOMAIN cycles')
         /\ Cardinality(DOMAIN cycles) \in Nat
         /\ Cardinality(DOMAIN cycles') = Cardinality(DOMAIN cycles) + 1
         /\ \A c \in DOMAIN cycles' : cycles'[c] \in Row
         /\ CycleNumbersContiguous'
<1>. DEFINE K == Cardinality(DOMAIN cycles)
<1>1. r \notin DOMAIN cycles /\ seen[r].count \in 0 .. K /\ op[r].kind = "create"
  BY DEF NumberedInv, InsertedWhen, ListedBefore, RowsTyped, InsertCycle
<1>2. K \in Nat
  BY FS_CardinalityType DEF NumberedInv
<1>3. /\ cycles' = [c \in DOMAIN cycles \cup {r} |-> IF c = r THEN NewRow(r) ELSE cycles[c]]
      /\ DOMAIN cycles' = DOMAIN cycles \cup {r}
  BY DEF InsertCycle
<1>4. IsFiniteSet(DOMAIN cycles') /\ Cardinality(DOMAIN cycles') = K + 1
  BY <1>1, <1>2, <1>3, FS_AddElement DEF NumberedInv
<1>5. op[r].budget \in Budgets
  BY <1>1 DEF NumberedInv, RowsTyped, Ops, CreateOps, RebudgetOps, StatusOps, CampaignOps, NoOp
<1>6. NewRow(r) \in Row /\ NewRow(r).number = seen[r].count + 1
  BY <1>1, <1>2, <1>5 DEF NewRow, NextNumber, Row, CycleStatuses
<1>7. \A c \in DOMAIN cycles' : cycles'[c] \in Row
  BY <1>3, <1>6 DEF NumberedInv, RowsTyped
<1>8. {cycles[c].number : c \in DOMAIN cycles} = 1 .. K
  BY DEF NumberedInv, CycleNumbersContiguous
<1>9. NewRow(r).number = K + 1
  <2>1. NewRow(r).number \notin {cycles[c].number : c \in DOMAIN cycles}
    BY <1>6 DEF InsertCycle, NumberTaken, NextNumber
  <2>2. seen[r].count + 1 \notin 1 .. K
    BY <1>6, <1>8, <2>1
  <2>. QED  BY <1>1, <1>2, <1>6, <2>2
<1>10. \A c \in DOMAIN cycles : cycles[c].number \in 1 .. K
  BY <1>8
<1>11. {cycles'[c].number : c \in DOMAIN cycles'} = 1 .. K + 1
  <2>1. {cycles'[c].number : c \in DOMAIN cycles'} =
          {cycles[c].number : c \in DOMAIN cycles} \cup {NewRow(r).number}
    BY <1>1, <1>3
  <2>. QED  BY <1>2, <1>8, <1>9, <2>1
<1>12. \A c, d \in DOMAIN cycles' : cycles'[c].number = cycles'[d].number => c = d
  <2>1. \A c, d \in DOMAIN cycles : cycles[c].number = cycles[d].number => c = d
    BY DEF NumberedInv, CycleNumbersContiguous
  <2>2. \A c \in DOMAIN cycles : cycles[c].number # K + 1
    BY <1>2, <1>10
  <2>. QED  BY <1>3, <1>9, <2>1, <2>2
<1>. QED  BY <1>2, <1>3, <1>4, <1>7, <1>11, <1>12 DEF CycleNumbersContiguous

\* Every other step leaves the cycles alone.
LEMMA CyclesStep ==
  ASSUME [Next]_vars
  PROVE  \/ UNCHANGED cycles
         \/ \E r \in Requests : InsertCycle(r) \/ UpdateBudget(r) \/ UpdateStatus(r)
  BY DEF Next, Step, vars, Begin, ListCycles, InsertConflict, Waterfall, InsertSlot, SlotsDone,
         EmitCreated, EmitPatched, EmitStatus, ReadCampaign, ActivateCampaign, UpdateCampaign, Fail

\* The ids, the rows and the numbering.
LEMMA CyclesKeep ==
  ASSUME NumberedInv, [Next]_vars
  PROVE  /\ DOMAIN cycles \subseteq DOMAIN cycles'
         /\ DOMAIN cycles' \subseteq Ids
         /\ \A c \in DOMAIN cycles' : cycles'[c] \in Row
         /\ IsFiniteSet(DOMAIN cycles')
         /\ Cardinality(DOMAIN cycles) \in Nat
         /\ Cardinality(DOMAIN cycles') \in Nat
         /\ Cardinality(DOMAIN cycles) <= Cardinality(DOMAIN cycles')
         /\ CycleNumbersContiguous'
<1>. Cardinality(DOMAIN cycles) \in Nat
  BY FS_CardinalityType DEF NumberedInv
<1>1. CASE UNCHANGED cycles
  BY <1>1 DEF NumberedInv, RowsTyped, CycleNumbersContiguous
<1>2. ASSUME NEW r \in Requests, InsertCycle(r)
      PROVE  /\ DOMAIN cycles' = DOMAIN cycles \cup {r}
             /\ DOMAIN cycles' \subseteq Ids
             /\ \A c \in DOMAIN cycles' : cycles'[c] \in Row
             /\ IsFiniteSet(DOMAIN cycles')
             /\ Cardinality(DOMAIN cycles') = Cardinality(DOMAIN cycles) + 1
             /\ CycleNumbersContiguous'
  BY <1>2, InsertNumbers DEF NumberedInv, RowsTyped, Ids
<1>3. ASSUME NEW r \in Requests, UpdateBudget(r) \/ UpdateStatus(r)
      PROVE  /\ DOMAIN cycles' = DOMAIN cycles
             /\ \A c \in DOMAIN cycles' : cycles'[c] \in Row
             /\ CycleNumbersContiguous'
  <2>1. /\ DOMAIN cycles' = DOMAIN cycles
        /\ \A c \in DOMAIN cycles : cycles'[c] \in Row /\ cycles'[c].number = cycles[c].number
    BY <1>3, UpdateKeepsNumbers DEF NumberedInv
  <2>2. CycleNumbersContiguous'
    BY <2>1, SameNumbers DEF NumberedInv
  <2>. QED  BY <2>1, <2>2
<1>4. CASE \E r \in Requests : InsertCycle(r)
  <2>1. /\ DOMAIN cycles \subseteq DOMAIN cycles'
        /\ DOMAIN cycles' \subseteq Ids
        /\ \A c \in DOMAIN cycles' : cycles'[c] \in Row
        /\ IsFiniteSet(DOMAIN cycles')
        /\ CycleNumbersContiguous'
    BY <1>2, <1>4
  <2>2. Cardinality(DOMAIN cycles') = Cardinality(DOMAIN cycles) + 1
    BY <1>2, <1>4
  <2>. QED  BY <2>1, <2>2
<1>5. CASE \E r \in Requests : UpdateBudget(r) \/ UpdateStatus(r)
  <2>1. /\ DOMAIN cycles' = DOMAIN cycles
        /\ \A c \in DOMAIN cycles' : cycles'[c] \in Row
        /\ CycleNumbersContiguous'
    BY <1>3, <1>5
  <2>2. IsFiniteSet(DOMAIN cycles) /\ DOMAIN cycles \subseteq Ids
    BY DEF NumberedInv, RowsTyped
  <2>. QED  BY <2>1, <2>2
<1>. QED  BY <1>1, <1>4, <1>5, CyclesStep

\* A step of one call leaves what the others hold.
LEMMA OtherCalls ==
  ASSUME RowsTyped, NEW r \in Requests, Step(r), NEW q \in Requests, q # r
  PROVE  pc'[q] = pc[q] /\ seen'[q] = seen[q]
<1>. USE DEF Goto, RowsTyped
<1>1. CASE Begin(r)
  BY <1>1 DEF Begin
<1>2. CASE ListCycles(r)
  BY <1>2 DEF ListCycles
<1>3. CASE InsertCycle(r) \/ InsertConflict(r)
  BY <1>3 DEF InsertCycle, InsertConflict
<1>4. CASE Waterfall(r) \/ InsertSlot(r) \/ SlotsDone(r)
  BY <1>4 DEF Waterfall, InsertSlot, SlotsDone
<1>5. CASE EmitCreated(r) \/ EmitPatched(r) \/ EmitStatus(r)
  BY <1>5 DEF EmitCreated, EmitPatched, EmitStatus
<1>6. CASE UpdateBudget(r) \/ UpdateStatus(r) \/ UpdateCampaign(r)
  BY <1>6 DEF UpdateBudget, UpdateStatus, UpdateCampaign
<1>7. CASE ReadCampaign(r) \/ ActivateCampaign(r)
  BY <1>7 DEF ReadCampaign, ActivateCampaign
<1>8. CASE Fail(r)
  BY <1>8 DEF Fail
<1>. QED  BY <1>1, <1>2, <1>3, <1>4, <1>5, <1>6, <1>7, <1>8 DEF Step

\* A call reaches its insertion only through its listing.
LEMMA OwnCall ==
  ASSUME RowsTyped, NEW r \in Requests, Step(r), pc'[r] \in {"idle", "list", "insert"}
  PROVE  \/ Begin(r) /\ pc[r] = "idle" /\ pc'[r] = "list"
         \/ ListCycles(r) /\ pc[r] = "list"
<1>. USE DEF Goto, RowsTyped
<1>1. CASE Begin(r)
  BY <1>1 DEF Begin
<1>2. CASE ListCycles(r)
  BY <1>2 DEF ListCycles
<1>3. ~InsertCycle(r) /\ ~InsertConflict(r)
  BY DEF InsertCycle, InsertConflict
<1>4. ~Waterfall(r) /\ ~InsertSlot(r) /\ ~SlotsDone(r)
  BY DEF Waterfall, InsertSlot, SlotsDone
<1>5. ~EmitCreated(r) /\ ~EmitPatched(r) /\ ~EmitStatus(r)
  BY DEF EmitCreated, EmitPatched, EmitStatus
<1>6. ~UpdateBudget(r) /\ ~UpdateStatus(r) /\ ~UpdateCampaign(r)
  BY DEF UpdateBudget, UpdateStatus, UpdateCampaign
<1>7. ~ReadCampaign(r) /\ ~ActivateCampaign(r)
  BY DEF ReadCampaign, ActivateCampaign
<1>8. ~Fail(r)
  BY DEF Fail
<1>. QED  BY <1>1, <1>2, <1>3, <1>4, <1>5, <1>6, <1>7, <1>8 DEF Step

\* The labels and the requests.
LEMMA CallsTyped ==
  ASSUME NumberedInv, [Next]_vars
  PROVE  /\ pc' \in [Requests -> Running \cup {"idle", "ok", "refused", "failed"}]
         /\ op' \in [Requests -> Ops(Ids) \cup {NoOp}]
         /\ DOMAIN seen' = Requests
         /\ \A r \in Requests : pc'[r] = "insert" => op'[r].kind = "create"
<1>. RowsTyped
  BY DEF NumberedInv
<1>1. ASSUME NEW r \in Requests, Begin(r)
      PROVE  /\ pc' \in [Requests -> Running \cup {"idle", "ok", "refused", "failed"}]
             /\ op' \in [Requests -> Ops(Ids) \cup {NoOp}]
             /\ DOMAIN seen' = Requests
             /\ \A q \in Requests : pc'[q] = "insert" => op'[q].kind = "create"
  <2>1. PICK o \in Ops(DOMAIN cycles) :
          /\ op' = [op EXCEPT ![r] = o]
          /\ Goto(r, IF o.kind \in {"create", "rebudget"} THEN "list" ELSE "update")
    BY <1>1 DEF Begin
  <2>2. o \in Ops(Ids)
    BY DEF Ops, RebudgetOps, StatusOps, RowsTyped
  <2>3. op' \in [Requests -> Ops(Ids) \cup {NoOp}]
    BY <2>1, <2>2 DEF RowsTyped
  <2>4. \A q \in Requests : pc'[q] = "insert" => pc[q] = "insert" /\ op'[q] = op[q]
    BY <2>1 DEF Goto, RowsTyped
  <2>. QED  BY <1>1, <2>1, <2>3, <2>4 DEF Begin, Goto, Running, RowsTyped
<1>2. ASSUME NEW r \in Requests, ListCycles(r)
      PROVE  /\ pc' \in [Requests -> Running \cup {"idle", "ok", "refused", "failed"}]
             /\ op' \in [Requests -> Ops(Ids) \cup {NoOp}]
             /\ DOMAIN seen' = Requests
             /\ \A q \in Requests : pc'[q] = "insert" => op'[q].kind = "create"
  <2>1. PICK label \in {"refused", "insert", "update"} :
          Goto(r, label) /\ (label = "insert" => op[r].kind = "create")
    BY <1>2 DEF ListCycles
  <2>. QED  BY <1>2, <2>1 DEF ListCycles, Goto, Running, RowsTyped
<1>3. CASE \A r \in Requests : ~Begin(r) /\ ~ListCycles(r)
  <2>1. op' = op /\ seen' = seen
    BY <1>3 DEF Next, Step, vars, InsertCycle, InsertConflict, Waterfall, InsertSlot,
         SlotsDone, EmitCreated, UpdateBudget, EmitPatched, UpdateStatus, EmitStatus, ReadCampaign,
         ActivateCampaign, UpdateCampaign, Fail
  <2>2. \/ UNCHANGED pc
        \/ \E r \in Requests, label \in (Running \ {"insert"}) \cup {"ok", "refused", "failed"} :
             Goto(r, label)
    BY <1>3 DEF Next, Step, vars, InsertCycle, InsertConflict, Waterfall, InsertSlot,
         SlotsDone, EmitCreated, UpdateBudget, EmitPatched, UpdateStatus, EmitStatus, ReadCampaign,
         ActivateCampaign, UpdateCampaign, Fail, Running
  <2>. QED  BY <2>1, <2>2 DEF Goto, RowsTyped
<1>. QED  BY <1>1, <1>2, <1>3

LEMMA NumberedStep == NumberedInv /\ [Next]_vars => NumberedInv'
<1>. SUFFICES ASSUME NumberedInv, [Next]_vars PROVE NumberedInv'
  OBVIOUS
<1>. RowsTyped /\ InsertedWhen /\ ListedBefore
  BY DEF NumberedInv
<1>1. RowsTyped'
  BY CyclesKeep, CallsTyped DEF RowsTyped, Ids
<1>2. ASSUME NEW q \in Requests, pc'[q] \in {"idle", "list", "insert"}
      PROVE  q \notin DOMAIN cycles'
  <2>1. pc[q] \in {"idle", "list", "insert"}
    <3>1. CASE UNCHANGED vars
      BY <1>2, <3>1 DEF vars
    <3>2. ASSUME NEW r \in Requests, Step(r) PROVE pc[q] \in {"idle", "list", "insert"}
      BY <1>2, <3>2, OtherCalls, OwnCall
    <3>. QED  BY <3>1, <3>2 DEF Next
  <2>2. q \notin DOMAIN cycles
    BY <2>1 DEF InsertedWhen
  <2>3. ASSUME NEW r \in Requests, InsertCycle(r) PROVE q # r
    BY <1>2, <2>3 DEF InsertCycle, Goto, RowsTyped
  <2>4. ASSUME NEW r \in Requests, InsertCycle(r) PROVE q \notin DOMAIN cycles'
    BY <2>2, <2>3, <2>4, InsertNumbers
  <2>5. ASSUME NEW r \in Requests, UpdateBudget(r) \/ UpdateStatus(r) PROVE q \notin DOMAIN cycles'
    BY <2>2, <2>5, UpdateKeepsNumbers
  <2>. QED  BY <2>2, <2>4, <2>5, CyclesStep
<1>3. ASSUME NEW q \in Requests, pc'[q] = "insert"
      PROVE  seen'[q].count \in 0 .. Cardinality(DOMAIN cycles')
  <2>1. CASE ListCycles(q)
    <3>1. seen'[q].count = Cardinality(DOMAIN cycles) /\ UNCHANGED cycles
      BY <2>1 DEF ListCycles, RowsTyped
    <3>. QED  BY <3>1, CyclesKeep
  <2>2. CASE ~ListCycles(q)
    <3>1. pc[q] = "insert" /\ seen'[q] = seen[q]
      <4>1. CASE UNCHANGED vars
        BY <1>3, <4>1 DEF vars
      <4>2. ASSUME NEW r \in Requests, Step(r) PROVE pc[q] = "insert" /\ seen'[q] = seen[q]
        BY <1>3, <2>2, <4>2, OtherCalls, OwnCall
      <4>. QED  BY <4>1, <4>2 DEF Next
    <3>2. seen[q].count \in 0 .. Cardinality(DOMAIN cycles)
      BY <3>1 DEF ListedBefore
    <3>. QED  BY <3>1, <3>2, CyclesKeep
  <2>. QED  BY <2>1, <2>2
<1>. QED  BY <1>1, <1>2, <1>3, CyclesKeep DEF NumberedInv, InsertedWhen, ListedBefore

\* Whatever calls interleave and fail, the cycles of a campaign are numbered
\* without a gap or a repetition (service.go, CreateCycle; 006_cycles.sql).
THEOREM NumbersCorrect == Spec => []CycleNumbersContiguous
<1>1. NumberedInv => CycleNumbersContiguous
  BY DEF NumberedInv
<1>. QED  BY <1>1, NumberedInit, NumberedStep, PTL DEF Spec

-----------------------------------------------------------------------------
(* The calls *)

\* What a call at this label was asked, given the cycles that exist.
Suits(label, o, ids) ==
  /\ label = "idle" => o = NoOp
  /\ label = "list" => o \in CreateOps \cup RebudgetOps(ids)
  /\ label \in {"insert", "waterfall", "slots", "emit_created"} => o \in CreateOps
  /\ label = "update" => o \in RebudgetOps(ids) \cup StatusOps(ids) \cup CampaignOps
  /\ label = "emit_patched" => o \in RebudgetOps(ids)
  /\ label \in {"emit_status", "campaign_read", "campaign_write"} => o \in StatusOps(ids)

CallsSound == \A r \in Requests : Suits(pc[r], op[r], DOMAIN cycles)

\* A cycle was created by the call it is named after, which is past its insertion.
CreatorsSound == \A c \in DOMAIN cycles : op[c] \in CreateOps

TypedInv == NumberedInv /\ TypeOK /\ CallsSound /\ CreatorsSound

\* The rows of the slots of cycle c, and those the waterfall gives it.
SlotsOf(c) == {s \in slots : s.cycle = c}
RowsFor(c, list) == {[cycle |-> c, tier |-> s.tier, index |-> s.index] : s \in ToSet(list)}
Wanted(c) == RowsFor(c, SlotsFor(op[c].budget).slots)

\* The slots of a cycle with those still to insert are the waterfall's, from
\* the first insertion on; only a call that was refused or failed leaves fewer.
SlotsFine(c) ==
  /\ pc[c] \in {"idle", "list", "insert", "waterfall"} => SlotsOf(c) = {}
  /\ pc[c] = "slots" => SlotsOf(c) \cup RowsFor(c, todo[c]) = Wanted(c)
  /\ pc[c] = "emit_created" => SlotsOf(c) = Wanted(c)
  /\ pc[c] = "ok" /\ op[c] \in CreateOps => SlotsOf(c) = Wanted(c)
  /\ <<c, "created">> \in announced => pc[c] = "ok"

SlotsInv == \A c \in Requests : SlotsFine(c)

\* While a cycle is active and the campaign is not, a call that activated a
\* cycle is still on its way to activate the campaign.
Activating(r) ==
  /\ pc[r] \in {"emit_status", "campaign_read", "campaign_write"}
  /\ op[r].status = "active"

ActiveInv ==
  /\ \E c \in DOMAIN cycles : cycles[c].status = "active"
  /\ failures = 0
  /\ \A r \in Requests : op[r].kind # "campaign"
  => campaign.status = "active" \/ \E r \in Requests : Activating(r)

\* What a call that passed the check of its budget still may add.
FitsInsert(r) == Committed + op[r].budget <= TotalBudget
FitsUpdate(r) == BudgetOf(DOMAIN cycles \ {op[r].cycle}) + op[r].budget <= TotalBudget

\* No outdated call has written: every listing that is still good leaves room.
UnracedInv ==
  ~raced =>
    /\ Committed <= TotalBudget
    /\ \A r \in fresh : pc[r] = "insert" => FitsInsert(r)
    /\ \A r \in fresh : pc[r] = "update" /\ op[r].kind = "rebudget" => FitsUpdate(r)

\* Only creations so far: a call whose number is still free has seen every cycle.
CreationsInv ==
  ~rebudgeted =>
    /\ Committed <= TotalBudget
    /\ \A r \in Requests :
         pc[r] = "insert" /\ seen[r].count = Cardinality(DOMAIN cycles) => FitsInsert(r)

-----------------------------------------------------------------------------
(* The budgets of the cycles *)

\* BudgetOf, with the table as a parameter.
BudgetIn(table, ids) == SumFunctionOnSet([c \in DOMAIN table |-> table[c].budget], ids)

LEMMA BudgetNow == \A ids : BudgetOf(ids) = BudgetIn(cycles, ids)
  BY DEF BudgetOf, BudgetIn

LEMMA BudgetThen == \A ids : BudgetOf(ids)' = BudgetIn(cycles', ids')
  BY DEF BudgetOf, BudgetIn

\* A table of cycles, whose budgets are amounts.
IsTable(table) == IsFiniteSet(DOMAIN table) /\ \A c \in DOMAIN table : table[c].budget \in Nat

LEMMA BudgetIsAmount ==
  ASSUME NEW table, IsTable(table), NEW ids \in SUBSET DOMAIN table
  PROVE  BudgetIn(table, ids) \in Nat
<1>. DEFINE f == [c \in DOMAIN table |-> table[c].budget]
<1>1. IsFiniteSet(ids)
  BY FS_Subset DEF IsTable
<1>2. \A c \in ids : f[c] \in Nat
  BY DEF IsTable
<1>. HIDE DEF f
<1>3. SumFunctionOnSet(f, ids) \in Nat
  BY <1>1, <1>2, SumOfNats
<1>. QED  BY <1>3 DEF BudgetIn, f

\* The budget of one cycle, and that of the others.
LEMMA BudgetSplit ==
  ASSUME NEW table, IsTable(table), NEW c \in DOMAIN table
  PROVE  BudgetIn(table, DOMAIN table) = table[c].budget + BudgetIn(table, DOMAIN table \ {c})
<1>. DEFINE f == [d \in DOMAIN table |-> table[d].budget]
<1>1. \A d \in DOMAIN table : f[d] \in Nat
  BY DEF IsTable
<1>2. f[c] = table[c].budget
  OBVIOUS
<1>. HIDE DEF f
<1>3. SumFunctionOnSet(f, DOMAIN table) = f[c] + SumFunctionOnSet(f, DOMAIN table \ {c})
  BY <1>1, SumOfNats DEF IsTable
<1>. QED  BY <1>2, <1>3 DEF BudgetIn, f

\* Tables that agree on some cycles commit the same to them.
LEMMA BudgetAgrees ==
  ASSUME NEW table, NEW later, NEW ids, IsFiniteSet(ids), ids \subseteq DOMAIN table,
         ids \subseteq DOMAIN later, \A c \in ids : later[c].budget = table[c].budget
  PROVE  BudgetIn(later, ids) = BudgetIn(table, ids)
<1>. DEFINE f == [c \in DOMAIN table |-> table[c].budget]
            h == [c \in DOMAIN later |-> later[c].budget]
<1>1. \A c \in ids : f[c] = h[c]
  OBVIOUS
<1>. HIDE DEF f, h
<1>2. SumFunctionOnSet(f, ids) = SumFunctionOnSet(h, ids)
  BY <1>1, SumSame
<1>. QED  BY <1>2 DEF BudgetIn, f, h

\* A new cycle adds its budget.
LEMMA BudgetGrows ==
  ASSUME NEW table, NEW later, IsTable(table), IsTable(later), NEW r, r \notin DOMAIN table,
         DOMAIN later = DOMAIN table \cup {r}, \A c \in DOMAIN table : later[c] = table[c]
  PROVE  BudgetIn(later, DOMAIN later) = BudgetIn(table, DOMAIN table) + later[r].budget
<1>1. r \in DOMAIN later /\ DOMAIN later \ {r} = DOMAIN table
  OBVIOUS
<1>2. BudgetIn(later, DOMAIN later) = later[r].budget + BudgetIn(later, DOMAIN table)
  BY <1>1, BudgetSplit
<1>3. BudgetIn(later, DOMAIN table) = BudgetIn(table, DOMAIN table)
  BY BudgetAgrees DEF IsTable
<1>4. BudgetIn(table, DOMAIN table) \in Nat /\ later[r].budget \in Nat
  BY <1>1, BudgetIsAmount DEF IsTable
<1>. QED  BY <1>2, <1>3, <1>4

\* A new budget of one cycle replaces its old one.
LEMMA BudgetReplaced ==
  ASSUME NEW table, NEW later, IsTable(table), IsTable(later), DOMAIN later = DOMAIN table,
         NEW d \in DOMAIN table, \A c \in DOMAIN table \ {d} : later[c] = table[c]
  PROVE  BudgetIn(later, DOMAIN later) = later[d].budget + BudgetIn(table, DOMAIN table \ {d})
<1>1. BudgetIn(later, DOMAIN later) = later[d].budget + BudgetIn(later, DOMAIN later \ {d})
  BY BudgetSplit
<1>2. IsFiniteSet(DOMAIN table \ {d})
  BY FS_Subset DEF IsTable
<1>3. BudgetIn(later, DOMAIN later \ {d}) = BudgetIn(table, DOMAIN table \ {d})
  BY <1>2, BudgetAgrees
<1>. QED  BY <1>1, <1>3

LEMMA RowsAreTable == NumberedInv => IsTable(cycles)
  BY CyclesAssumption DEF NumberedInv, RowsTyped, Row, IsTable

-----------------------------------------------------------------------------
(* Types *)

\* What each step changes.
LEMMA Changes ==
  ASSUME [Next]_vars
  PROVE  /\ UNCHANGED campaign \/ \E r \in Requests : ActivateCampaign(r) \/ UpdateCampaign(r)
         /\ UNCHANGED slots \/ \E r \in Requests : InsertSlot(r)
         /\ UNCHANGED announced \/ \E r \in Requests : EmitCreated(r) \/ EmitPatched(r) \/ EmitStatus(r)
         /\ UNCHANGED seen \/ \E r \in Requests : ListCycles(r)
         /\ UNCHANGED todo \/ \E r \in Requests : Waterfall(r) \/ InsertSlot(r)
         /\ UNCHANGED failures \/ \E r \in Requests : Fail(r)
         /\ UNCHANGED rebudgeted \/ \E r \in Requests : UpdateBudget(r)
         /\ \/ UNCHANGED <<fresh, raced>>
            \/ \E r \in Requests : ListCycles(r) \/ InsertCycle(r) \/ UpdateBudget(r)
<1>. USE DEF Next, Step, vars, ghosts, Begin, ListCycles, InsertCycle, InsertConflict, Waterfall,
             InsertSlot, SlotsDone, EmitCreated, UpdateBudget, EmitPatched, UpdateStatus, EmitStatus,
             ReadCampaign, ActivateCampaign, UpdateCampaign, Fail
<1>1. UNCHANGED campaign \/ \E r \in Requests : ActivateCampaign(r) \/ UpdateCampaign(r)
  OBVIOUS
<1>2. UNCHANGED slots \/ \E r \in Requests : InsertSlot(r)
  OBVIOUS
<1>3. UNCHANGED announced \/ \E r \in Requests : EmitCreated(r) \/ EmitPatched(r) \/ EmitStatus(r)
  OBVIOUS
<1>4. UNCHANGED seen \/ \E r \in Requests : ListCycles(r)
  OBVIOUS
<1>5. UNCHANGED todo \/ \E r \in Requests : Waterfall(r) \/ InsertSlot(r)
  OBVIOUS
<1>6. UNCHANGED failures \/ \E r \in Requests : Fail(r)
  <2>. USE DEF BudgetWritten
  <2>. QED  OBVIOUS
<1>7. UNCHANGED rebudgeted \/ \E r \in Requests : UpdateBudget(r)
  OBVIOUS
<1>8. \/ UNCHANGED <<fresh, raced>>
      \/ \E r \in Requests : ListCycles(r) \/ InsertCycle(r) \/ UpdateBudget(r)
  OBVIOUS
<1>. QED  BY <1>1, <1>2, <1>3, <1>4, <1>5, <1>6, <1>7, <1>8

\* A step of one call leaves what the others hold.
LEMMA OthersHold ==
  ASSUME TypeOK, NEW r \in Requests, Step(r), NEW q \in Requests, q # r
  PROVE  pc'[q] = pc[q] /\ op'[q] = op[q] /\ todo'[q] = todo[q] /\ seen'[q] = seen[q]
<1>. USE DEF Goto, TypeOK
<1>1. CASE Begin(r)
  BY <1>1 DEF Begin
<1>2. CASE ListCycles(r)
  BY <1>2 DEF ListCycles
<1>3. CASE InsertCycle(r) \/ InsertConflict(r)
  BY <1>3 DEF InsertCycle, InsertConflict, ghosts
<1>4. CASE Waterfall(r)
  BY <1>4 DEF Waterfall
<1>5. CASE InsertSlot(r) \/ SlotsDone(r)
  BY <1>5 DEF InsertSlot, SlotsDone
<1>6. CASE EmitCreated(r) \/ EmitPatched(r) \/ EmitStatus(r)
  BY <1>6 DEF EmitCreated, EmitPatched, EmitStatus
<1>7. CASE UpdateBudget(r) \/ UpdateStatus(r) \/ UpdateCampaign(r)
  BY <1>7 DEF UpdateBudget, UpdateStatus, UpdateCampaign
<1>8. CASE ReadCampaign(r) \/ ActivateCampaign(r)
  BY <1>8 DEF ReadCampaign, ActivateCampaign
<1>9. CASE Fail(r)
  BY <1>9 DEF Fail
<1>. QED  BY <1>1, <1>2, <1>3, <1>4, <1>5, <1>6, <1>7, <1>8, <1>9 DEF Step

\* A request that suits some cycles suits more.
LEMMA SuitsMore ==
  ASSUME NEW label, NEW o, NEW ids, NEW more, ids \subseteq more, Suits(label, o, ids)
  PROVE  Suits(label, o, more)
<1>1. RebudgetOps(ids) \subseteq RebudgetOps(more) /\ StatusOps(ids) \subseteq StatusOps(more)
  BY DEF RebudgetOps, StatusOps
<1>. QED  BY <1>1 DEF Suits

\* Where each step of a call leads, and from where.
LEMMA OwnSuits ==
  ASSUME TypedInv, NEW r \in Requests, Step(r)
  PROVE  Suits(pc'[r], op'[r], DOMAIN cycles)
<1>. DEFINE ids == DOMAIN cycles
<1>1. Suits(pc[r], op[r], ids)
  BY DEF TypedInv, CallsSound
<1>2. \A label : Goto(r, label) => pc'[r] = label
  BY DEF TypedInv, TypeOK, Goto
<1>3. CASE Begin(r)
  <2>1. PICK o \in Ops(ids) : /\ op' = [op EXCEPT ![r] = o]
                              /\ Goto(r, IF o.kind \in {"create", "rebudget"} THEN "list" ELSE "update")
    BY <1>3 DEF Begin
  <2>2. op'[r] = o /\ pc'[r] = IF o.kind \in {"create", "rebudget"} THEN "list" ELSE "update"
    BY <1>2, <2>1 DEF TypedInv, TypeOK
  <2>. HIDE DEF ids
  <2>3. CASE o.kind \in {"create", "rebudget"}
    <3>1. o \in CreateOps \cup RebudgetOps(ids)
      BY <2>3 DEF Ops, StatusOps, CampaignOps
    <3>. QED  BY <2>2, <2>3, <3>1 DEF Suits, ids
  <2>4. CASE o.kind \notin {"create", "rebudget"}
    <3>1. o \in StatusOps(ids) \cup CampaignOps
      BY <2>4 DEF Ops, CreateOps, RebudgetOps
    <3>. QED  BY <2>2, <2>4, <3>1 DEF Suits, ids
  <2>. QED  BY <2>3, <2>4
<1>4. CASE ListCycles(r)
  <2>1. /\ pc[r] = "list" /\ op' = op
        /\ \/ pc'[r] = "refused"
           \/ /\ pc'[r] = "insert"
              /\ op[r].kind = "create"
           \/ /\ pc'[r] = "update"
              /\ op[r].kind # "create"
    BY <1>2, <1>4 DEF ListCycles
  <2>. HIDE DEF ids
  <2>2. op[r] \in CreateOps \cup RebudgetOps(ids)
    BY <1>1, <2>1 DEF Suits
  <2>3. op[r].kind = "create" => op[r] \in CreateOps
    BY <2>2 DEF RebudgetOps
  <2>4. op[r].kind # "create" => op[r] \in RebudgetOps(ids)
    BY <2>2 DEF CreateOps
  <2>. QED  BY <2>1, <2>3, <2>4 DEF Suits, ids
<1>5. CASE UpdateBudget(r)
  <2>1. pc[r] = "update" /\ op[r].kind = "rebudget" /\ op' = op /\ pc'[r] = "emit_patched"
    BY <1>2, <1>5 DEF UpdateBudget
  <2>. HIDE DEF ids
  <2>2. op[r] \in RebudgetOps(ids)
    BY <1>1, <2>1 DEF Suits, StatusOps, CampaignOps
  <2>. QED  BY <2>1, <2>2 DEF Suits, ids
<1>6. CASE UpdateStatus(r)
  <2>1. pc[r] = "update" /\ op[r].kind = "status" /\ op' = op /\ pc'[r] = "emit_status"
    BY <1>2, <1>6 DEF UpdateStatus
  <2>. HIDE DEF ids
  <2>2. op[r] \in StatusOps(ids)
    BY <1>1, <2>1 DEF Suits, RebudgetOps, CampaignOps
  <2>. QED  BY <2>1, <2>2 DEF Suits, ids
<1>7. CASE EmitStatus(r)
  <2>1. pc[r] = "emit_status" /\ op' = op /\ pc'[r] \in {"campaign_read", "ok"}
    BY <1>2, <1>7 DEF EmitStatus
  <2>. QED  BY <1>1, <2>1 DEF Suits
<1>8. CASE ReadCampaign(r)
  <2>1. pc[r] = "campaign_read" /\ op' = op /\ pc'[r] \in {"campaign_write", "ok"}
    BY <1>2, <1>8 DEF ReadCampaign
  <2>. QED  BY <1>1, <2>1 DEF Suits
<1>9. CASE InsertCycle(r) \/ SlotsDone(r) \/ Waterfall(r)
  <2>1. /\ pc[r] \in {"insert", "slots", "waterfall"}
        /\ op' = op /\ pc'[r] \in {"waterfall", "emit_created", "slots", "refused"}
    BY <1>2, <1>9 DEF InsertCycle, SlotsDone, Waterfall
  <2>. QED  BY <1>1, <2>1 DEF Suits
<1>10. CASE InsertSlot(r)
  BY <1>1, <1>10 DEF InsertSlot
<1>11. CASE \/ InsertConflict(r) \/ EmitCreated(r) \/ EmitPatched(r)
            \/ ActivateCampaign(r) \/ UpdateCampaign(r) \/ Fail(r)
  <2>1. op' = op /\ pc'[r] \in {"refused", "ok", "failed"}
    BY <1>2, <1>11 DEF InsertConflict, EmitCreated, EmitPatched, ActivateCampaign, UpdateCampaign, Fail
  <2>. QED  BY <2>1 DEF Suits
<1>. QED  BY <1>3, <1>4, <1>5, <1>6, <1>7, <1>8, <1>9, <1>10, <1>11 DEF Step

LEMMA CallsStep ==
  ASSUME TypedInv, [Next]_vars
  PROVE  CallsSound'
<1>1. DOMAIN cycles \subseteq DOMAIN cycles'
  BY CyclesKeep DEF TypedInv
<1>2. ASSUME NEW q \in Requests PROVE Suits(pc'[q], op'[q], DOMAIN cycles)
  <2>1. Suits(pc[q], op[q], DOMAIN cycles) /\ TypeOK
    BY DEF TypedInv, CallsSound
  <2>2. CASE UNCHANGED vars
    BY <2>1, <2>2 DEF vars
  <2>3. ASSUME NEW r \in Requests, Step(r), q # r PROVE Suits(pc'[q], op'[q], DOMAIN cycles)
    <3>1. pc'[q] = pc[q] /\ op'[q] = op[q]
      BY <2>1, <2>3, OthersHold
    <3>. QED  BY <2>1, <3>1
  <2>. QED  BY <2>2, <2>3, OwnSuits DEF Next
<1>. QED  BY <1>1, <1>2, SuitsMore DEF CallsSound

LEMMA CreatorsStep ==
  ASSUME TypedInv, [Next]_vars
  PROVE  CreatorsSound'
<1>. SUFFICES ASSUME NEW c \in DOMAIN cycles' PROVE op'[c] \in CreateOps
  BY DEF CreatorsSound
<1>. TypeOK /\ DOMAIN cycles \subseteq Requests
  BY DEF TypedInv, TypeOK, Ids
<1>1. CASE c \in DOMAIN cycles
  <2>1. op[c] \in CreateOps /\ pc[c] # "idle"
    BY <1>1 DEF TypedInv, CreatorsSound, NumberedInv, InsertedWhen
  <2>2. op'[c] = op[c]
    <3>1. CASE UNCHANGED op
      BY <3>1
    <3>2. ASSUME NEW r \in Requests, Begin(r) PROVE op'[c] = op[c]
      BY <1>1, <2>1, <3>2 DEF Begin, TypeOK
    <3>3. UNCHANGED op \/ \E r \in Requests : Begin(r)
      BY DEF Next, Step, vars, ListCycles, InsertCycle, InsertConflict, Waterfall,
             InsertSlot, SlotsDone, EmitCreated, UpdateBudget, EmitPatched, UpdateStatus, EmitStatus,
             ReadCampaign, ActivateCampaign, UpdateCampaign, Fail
    <3>. QED  BY <3>1, <3>2, <3>3
  <2>. QED  BY <2>1, <2>2
<1>2. CASE c \notin DOMAIN cycles
  <2>1. PICK r \in Requests : InsertCycle(r)
    <3>1. ASSUME NEW r \in Requests, UpdateBudget(r) \/ UpdateStatus(r) PROVE FALSE
      BY <1>2, <3>1, UpdateKeepsNumbers DEF TypedInv, NumberedInv
    <3>. QED  BY <1>2, <3>1, CyclesStep
  <2>2. c = r /\ op' = op /\ pc[r] = "insert"
    BY <1>2, <2>1 DEF InsertCycle
  <2>3. Suits(pc[r], op[r], DOMAIN cycles)
    BY DEF TypedInv, CallsSound
  <2>. QED  BY <2>2, <2>3 DEF Suits
<1>. QED  BY <1>1, <1>2

\* What a listing leaves, and what the waterfall makes, are typed.
LEMMA RemainingTyped ==
  ASSUME NumberedInv, NEW excluded
  PROVE  /\ RemainingCycleBudget(excluded) \in Nat
         /\ \/ RemainingCycleBudget(excluded) = TotalBudget - BudgetIn(cycles, DOMAIN cycles \ excluded)
            \/ RemainingCycleBudget(excluded) = 0
<1>1. BudgetIn(cycles, DOMAIN cycles \ excluded) \in Nat
  BY RowsAreTable, BudgetIsAmount
<1>2. BudgetOf(DOMAIN cycles \ excluded) = BudgetIn(cycles, DOMAIN cycles \ excluded)
  BY BudgetNow
<1>. QED  BY <1>1, <1>2, CyclesAssumption DEF RemainingCycleBudget, GreaterOf

LEMMA WaterfallTyped ==
  ASSUME NEW budget \in Budgets
  PROVE  SlotsFor(budget).slots \in Seq(SlotTerms)
<1>1. budget \in Nat /\ CampaignTerms \in Terms /\ Talents \in Seq(TalentTerms)
  BY CyclesAssumption
<1>2. PICK fair \in Nat, capacity \in Nat :
        capacity * fair <= budget /\ Within(BuildBudgetSlots(CampaignTerms, budget, Talents), fair, capacity)
  BY <1>1, WaterfallWithin
<1>. QED  BY <1>2 DEF Within, SlotsFor

LEMMA TypeStep ==
  ASSUME TypedInv, [Next]_vars
  PROVE  TypeOK'
<1>. TypeOK /\ NumberedInv
  BY DEF TypedInv
<1>1. campaign' \in [status : CampaignStatuses, remaining : Nat]
  <2>1. ASSUME NEW r \in Requests, ActivateCampaign(r)
        PROVE  campaign' \in [status : CampaignStatuses, remaining : Nat]
    BY <2>1 DEF ActivateCampaign, TypeOK, CampaignStatuses
  <2>2. ASSUME NEW r \in Requests, UpdateCampaign(r)
        PROVE  campaign' \in [status : CampaignStatuses, remaining : Nat]
    <3>1. op[r].kind = "campaign" /\ op[r] \in Ops(Ids) \cup {NoOp}
      BY <2>2 DEF UpdateCampaign, TypeOK
    <3>2. op[r].status \in CampaignStatuses
      BY <3>1 DEF Ops, CreateOps, RebudgetOps, StatusOps, CampaignOps, NoOp
    <3>. QED  BY <2>2, <3>2 DEF UpdateCampaign, TypeOK
  <2>3. UNCHANGED campaign \/ \E r \in Requests : ActivateCampaign(r) \/ UpdateCampaign(r)
    BY Changes
  <2>. QED  BY <2>1, <2>2, <2>3 DEF TypeOK
<1>2. /\ DOMAIN cycles' \subseteq Ids
      /\ \A c \in DOMAIN cycles' : cycles'[c] \in Row
  BY CyclesKeep
<1>3. slots' \subseteq SlotRow
  <2>1. ASSUME NEW r \in Requests, InsertSlot(r) PROVE slots' \subseteq SlotRow
    <3>1. todo[r] \in Seq([tier : Nat, index : Nat]) /\ todo[r] # <<>>
      BY <2>1 DEF InsertSlot, TypeOK
    <3>2. Head(todo[r]) \in [tier : Nat, index : Nat]
      <4>. DEFINE S == [tier : Nat, index : Nat]
                  list == todo[r]
      <4>1. list \in Seq(S) /\ list # <<>>
        BY <3>1
      <4>. HIDE DEF S, list
      <4>2. Head(list) \in S
        BY <4>1, HeadTailProperties
      <4>. QED  BY <4>2 DEF S, list
    <3>3. [cycle |-> r, tier |-> Head(todo[r]).tier, index |-> Head(todo[r]).index] \in SlotRow
      BY <3>2 DEF SlotRow, Ids
    <3>. QED  BY <2>1, <3>3 DEF InsertSlot, TypeOK
  <2>2. UNCHANGED slots \/ \E r \in Requests : InsertSlot(r)
    BY Changes
  <2>. QED  BY <2>1, <2>2 DEF TypeOK
<1>4. announced' \subseteq Ids \X {"created", "patched", "active", "paused", "closed"}
  <2>. DEFINE Types == {"created", "patched", "active", "paused", "closed"}
  <2>1. ASSUME NEW c \in Ids, NEW type \in Types, Announce(c, type)
        PROVE  announced' \subseteq Ids \X Types
    BY <2>1 DEF Announce, TypeOK
  <2>2. ASSUME NEW r \in Requests, EmitCreated(r) \/ EmitPatched(r) \/ EmitStatus(r)
        PROVE  \E c \in Ids, type \in Types : Announce(c, type)
    <3>1. Suits(pc[r], op[r], DOMAIN cycles) /\ DOMAIN cycles \subseteq Ids
      BY DEF TypedInv, CallsSound, TypeOK
    <3>2. CASE EmitCreated(r)
      BY <3>2 DEF EmitCreated, Ids
    <3>3. CASE EmitPatched(r)
      <4>1. op[r].cycle \in Ids
        BY <3>1, <3>3 DEF EmitPatched, Suits, RebudgetOps
      <4>. QED  BY <3>3, <4>1 DEF EmitPatched
    <3>4. CASE EmitStatus(r)
      <4>1. op[r] \in StatusOps(DOMAIN cycles)
        BY <3>1, <3>4 DEF EmitStatus, Suits
      <4>2. op[r].cycle \in Ids /\ op[r].status \in Types
        BY <3>1, <4>1 DEF StatusOps
      <4>. QED  BY <3>4, <4>2 DEF EmitStatus
    <3>. QED  BY <2>2, <3>2, <3>3, <3>4
  <2>. HIDE DEF Types
  <2>3. UNCHANGED announced \/ \E r \in Requests : EmitCreated(r) \/ EmitPatched(r) \/ EmitStatus(r)
    BY Changes
  <2>4. announced \subseteq Ids \X Types
    BY DEF TypeOK, Types
  <2>5. announced' \subseteq Ids \X Types
    BY <2>1, <2>2, <2>3, <2>4
  <2>. QED  BY <2>5 DEF Types
<1>5. /\ pc' \in [Requests -> Running \cup {"idle", "ok", "refused", "failed"}]
      /\ op' \in [Requests -> Ops(Ids) \cup {NoOp}]
  BY CallsTyped
<1>6. seen' \in [Requests -> Seen]
  <2>1. ASSUME NEW r \in Requests, ListCycles(r) PROVE seen' \in [Requests -> Seen]
    <3>1. PICK excluded : seen' = [seen EXCEPT ![r] = [count |-> Cardinality(DOMAIN cycles),
                                                       remaining |-> RemainingCycleBudget(excluded)]]
      BY <2>1 DEF ListCycles
    <3>2. Cardinality(DOMAIN cycles) \in Nat /\ RemainingCycleBudget(excluded) \in Nat
      BY RemainingTyped, CyclesKeep
    <3>3. [count |-> Cardinality(DOMAIN cycles), remaining |-> RemainingCycleBudget(excluded)] \in Seen
      BY <3>2 DEF Seen
    <3>. QED  BY <3>1, <3>3 DEF TypeOK
  <2>2. UNCHANGED seen \/ \E r \in Requests : ListCycles(r)
    BY Changes
  <2>. QED  BY <2>1, <2>2 DEF TypeOK
<1>7. todo' \in [Requests -> Seq([tier : Nat, index : Nat])]
  <2>1. ASSUME NEW r \in Requests, Waterfall(r) PROVE todo' \in [Requests -> Seq([tier : Nat, index : Nat])]
    <3>1. Suits(pc[r], op[r], DOMAIN cycles) /\ pc[r] = "waterfall"
      BY <2>1 DEF TypedInv, CallsSound, Waterfall
    <3>2. op[r].budget \in Budgets
      BY <3>1 DEF Suits, CreateOps
    <3>3. SlotsFor(op[r].budget).slots \in Seq([tier : Nat, index : Nat])
      BY <3>2, WaterfallTyped DEF SlotTerms
    <3>4. todo' = [todo EXCEPT ![r] = SlotsFor(op[r].budget).slots]
      BY <2>1 DEF Waterfall
    <3>. QED  BY <3>3, <3>4 DEF TypeOK
  <2>2. ASSUME NEW r \in Requests, InsertSlot(r) PROVE todo' \in [Requests -> Seq([tier : Nat, index : Nat])]
    <3>1. todo[r] \in Seq([tier : Nat, index : Nat]) /\ todo[r] # <<>>
      BY <2>2 DEF InsertSlot, TypeOK
    <3>2. Tail(todo[r]) \in Seq([tier : Nat, index : Nat])
      BY <3>1
    <3>. QED  BY <2>2, <3>2 DEF InsertSlot, TypeOK
  <2>3. UNCHANGED todo \/ \E r \in Requests : Waterfall(r) \/ InsertSlot(r)
    BY Changes
  <2>. QED  BY <2>1, <2>2, <2>3 DEF TypeOK
<1>8. fresh' \subseteq Requests /\ raced' \in BOOLEAN
  <2>1. ASSUME NEW r \in Requests, ListCycles(r) PROVE fresh' \subseteq Requests /\ raced' \in BOOLEAN
    BY <2>1 DEF ListCycles, TypeOK
  <2>2. ASSUME NEW r \in Requests, BudgetWritten(r) PROVE fresh' \subseteq Requests /\ raced' \in BOOLEAN
    BY <2>2 DEF BudgetWritten, TypeOK
  <2>3. \/ UNCHANGED <<fresh, raced>>
        \/ \E r \in Requests : ListCycles(r) \/ BudgetWritten(r)
    BY Changes DEF InsertCycle, UpdateBudget
  <2>. QED  BY <2>1, <2>2, <2>3 DEF TypeOK
<1>9. rebudgeted' \in BOOLEAN
  <2>1. UNCHANGED rebudgeted \/ rebudgeted' = TRUE
    BY Changes DEF UpdateBudget
  <2>. QED  BY <2>1 DEF TypeOK
<1>10. failures' \in 0 .. MaxFailures
  <2>1. UNCHANGED failures \/ (failures < MaxFailures /\ failures' = failures + 1)
    BY Changes DEF Fail
  <2>. QED  BY <2>1, CyclesAssumption DEF TypeOK
<1>. QED  BY <1>1, <1>2, <1>3, <1>4, <1>5, <1>6, <1>7, <1>8, <1>9, <1>10 DEF TypeOK

LEMMA TypedInit == Init => TypedInv
<1>. SUFFICES ASSUME Init PROVE TypedInv
  OBVIOUS
<1>1. NumberedInv /\ DOMAIN cycles = {}
  BY NumberedInit DEF Init
<1>2. CallsSound
  BY DEF Init, CallsSound, Suits
<1>3. TypeOK
  <2>1. <<>> \in Seq([tier : Nat, index : Nat]) /\ NothingSeen \in Seen
    BY DEF NothingSeen, Seen
  <2>2. failures \in 0 .. MaxFailures
    BY CyclesAssumption DEF Init
  <2>. QED  BY <1>1, <2>1, <2>2, CyclesAssumption DEF Init, TypeOK, CampaignStatuses
<1>. QED  BY <1>1, <1>2, <1>3 DEF TypedInv, CreatorsSound

LEMMA TypedStep == TypedInv /\ [Next]_vars => TypedInv'
  BY NumberedStep, TypeStep, CallsStep, CreatorsStep DEF TypedInv

LEMMA TypedAlways == Spec => []TypedInv
  BY TypedInit, TypedStep, PTL DEF Spec

\* Whatever calls interleave and fail, the tables and the calls keep their
\* types: what a listing leaves is an amount, and the waterfall's slots are rows.
THEOREM TypeCorrect == Spec => []TypeOK
<1>1. TypedInv => TypeOK
  BY DEF TypedInv
<1>. QED  BY <1>1, TypedAlways, PTL

-----------------------------------------------------------------------------
(* The slots of a cycle *)

LEMMA ToSetSplit ==
  ASSUME NEW S, NEW list \in Seq(S), list # <<>>
  PROVE  ToSet(list) = {Head(list)} \cup ToSet(Tail(list))
<1>1. /\ Tail(list) \in Seq(S) /\ Len(Tail(list)) = Len(list) - 1 /\ Len(list) \in Nat \ {0}
      /\ \A i \in 1 .. Len(Tail(list)) : Tail(list)[i] = list[i + 1]
      /\ Head(list) = list[1]
  BY HeadTailProperties, EmptySeq
<1>2. DOMAIN list = 1 .. Len(list) /\ DOMAIN Tail(list) = 1 .. Len(list) - 1
  BY <1>1
<1>. DEFINE rest == Tail(list)
<1>. HIDE DEF rest
<1>3. \A i \in 1 .. Len(list) : i = 1 \/ (i - 1 \in 1 .. Len(list) - 1 /\ list[i] = rest[i - 1])
  BY <1>1 DEF rest
<1>4. \A i \in 1 .. Len(list) - 1 : i + 1 \in 1 .. Len(list) /\ rest[i] = list[i + 1]
  BY <1>1 DEF rest
<1>5. ToSet(list) = {list[i] : i \in 1 .. Len(list)} /\ ToSet(rest) = {rest[i] : i \in 1 .. Len(list) - 1}
  BY <1>2 DEF ToSet, rest
<1>6. ToSet(list) \subseteq {list[1]} \cup ToSet(rest)
  BY <1>3, <1>5
<1>7. ToSet(rest) \subseteq ToSet(list)
  BY <1>4, <1>5
<1>8. list[1] \in ToSet(list)
  BY <1>1, <1>5
<1>. QED  BY <1>1, <1>6, <1>7, <1>8 DEF rest

\* The kinds of requests are told apart.
LEMMA Kinds ==
  /\ \A o \in CreateOps : o.kind = "create"
  /\ \A ids : \A o \in RebudgetOps(ids) : o.kind = "rebudget"
  /\ \A ids : \A o \in StatusOps(ids) : o.kind = "status"
  /\ \A o \in CampaignOps : o.kind = "campaign"
  BY DEF CreateOps, RebudgetOps, StatusOps, CampaignOps

\* What is announced by a step, when the announcement says that a cycle was created.
LEMMA CreatedByItself ==
  ASSUME TypedInv, NEW r \in Requests, Step(r), NEW c,
         <<c, "created">> \in announced', <<c, "created">> \notin announced
  PROVE  EmitCreated(r) /\ c = r
<1>1. EmitCreated(r) \/ EmitPatched(r) \/ EmitStatus(r)
  BY DEF Step, Begin, ListCycles, InsertCycle, InsertConflict, Waterfall,
         InsertSlot, SlotsDone, UpdateBudget, UpdateStatus,
         ReadCampaign, ActivateCampaign, UpdateCampaign, Fail
<1>2. CASE EmitCreated(r)
  BY <1>2 DEF EmitCreated, Announce
<1>3. ~EmitPatched(r)
  BY DEF EmitPatched, Announce
<1>4. ~EmitStatus(r)
  <2>1. ASSUME EmitStatus(r) PROVE FALSE
    <3>1. Suits(pc[r], op[r], DOMAIN cycles) /\ pc[r] = "emit_status"
      BY <2>1 DEF TypedInv, CallsSound, EmitStatus
    <3>2. op[r].status # "created"
      BY <3>1 DEF Suits, StatusOps
    <3>. QED  BY <2>1, <3>2 DEF EmitStatus, Announce
  <2>. QED  BY <2>1
<1>. QED  BY <1>1, <1>2, <1>3, <1>4

\* Only the insertion of a slot changes the slots, those of its own cycle.
LEMMA SlotsChange ==
  ASSUME NEW r \in Requests, Step(r)
  PROVE  UNCHANGED slots \/ InsertSlot(r)
  BY DEF Step, Begin, ListCycles, InsertCycle, InsertConflict, Waterfall,
         SlotsDone, EmitCreated, UpdateBudget, EmitPatched, UpdateStatus, EmitStatus,
         ReadCampaign, ActivateCampaign, UpdateCampaign, Fail

LEMMA SlotsOthers ==
  ASSUME TypedInv, SlotsInv, NEW r \in Requests, Step(r), NEW q \in Requests, q # r
  PROVE  SlotsFine(q)'
<1>1. pc'[q] = pc[q] /\ op'[q] = op[q] /\ todo'[q] = todo[q]
  BY OthersHold DEF TypedInv
<1>2. {s \in slots' : s.cycle = q} = {s \in slots : s.cycle = q}
  <2>1. CASE UNCHANGED slots
    BY <2>1
  <2>2. CASE InsertSlot(r)
    BY <2>2 DEF InsertSlot
  <2>. QED  BY <2>1, <2>2, SlotsChange
<1>3. SlotsOf(q)' = SlotsOf(q) /\ Wanted(q)' = Wanted(q)
  BY <1>1, <1>2 DEF SlotsOf, Wanted
<1>4. <<q, "created">> \in announced' => <<q, "created">> \in announced
  BY CreatedByItself
<1>5. SlotsFine(q)
  BY DEF SlotsInv
<1>. QED  BY <1>1, <1>3, <1>4, <1>5 DEF SlotsFine

\* The label a step leads to.
LEMMA OwnLabel ==
  ASSUME TypeOK, NEW r \in Requests, NEW label, Goto(r, label)
  PROVE  pc'[r] = label
  BY DEF TypeOK, Goto

LEMMA SlotsOwn ==
  ASSUME TypedInv, SlotsInv, NEW r \in Requests, Step(r)
  PROVE  SlotsFine(r)'
<1>. TypeOK /\ SlotsFine(r) /\ Suits(pc[r], op[r], DOMAIN cycles)
  BY DEF TypedInv, SlotsInv, CallsSound
<1>1. pc[r] # "ok"
  BY DEF Step, Begin, ListCycles, InsertCycle, InsertConflict, Waterfall, InsertSlot, SlotsDone,
         EmitCreated, UpdateBudget, EmitPatched, UpdateStatus, EmitStatus, ReadCampaign,
         ActivateCampaign, UpdateCampaign, Fail, Running
<1>2. <<r, "created">> \in announced' => EmitCreated(r)
  BY <1>1, CreatedByItself DEF SlotsFine
<1>3. CASE EmitCreated(r)
  <2>1. pc[r] = "emit_created" /\ op' = op /\ slots' = slots /\ pc'[r] = "ok"
    BY <1>3, OwnLabel DEF EmitCreated
  <2>2. SlotsOf(r)' = SlotsOf(r) /\ Wanted(r)' = Wanted(r)
    BY <2>1 DEF SlotsOf, Wanted
  <2>. QED  BY <2>1, <2>2 DEF SlotsFine
<1>4. CASE InsertSlot(r)
  <2>. DEFINE list == todo[r]
              row == [cycle |-> r, tier |-> Head(list).tier, index |-> Head(list).index]
  <2>1. pc[r] = "slots" /\ pc' = pc /\ op' = op /\ list # <<>> /\ todo'[r] = Tail(list)
    BY <1>4 DEF InsertSlot, TypeOK
  <2>2. slots' = slots \cup {row}
    BY <1>4 DEF InsertSlot
  <2>3. list \in Seq([tier : Nat, index : Nat])
    BY DEF TypeOK
  <2>. HIDE DEF list
  <2>4. ToSet(list) = {Head(list)} \cup ToSet(Tail(list))
    BY <2>1, <2>3, ToSetSplit
  <2>5. RowsFor(r, list) = {row} \cup RowsFor(r, Tail(list))
    BY <2>4 DEF RowsFor
  <2>6. SlotsOf(r)' = SlotsOf(r) \cup {row}
    BY <2>2 DEF SlotsOf
  <2>7. Wanted(r)' = Wanted(r)
    BY <2>1 DEF Wanted
  <2>8. SlotsOf(r) \cup RowsFor(r, list) = Wanted(r)
    BY <2>1 DEF SlotsFine, list
  <2>. HIDE DEF row
  <2>9. SlotsOf(r)' \cup RowsFor(r, todo'[r]) = Wanted(r)'
    BY <2>1, <2>5, <2>6, <2>7, <2>8
  <2>. QED  BY <1>2, <1>4, <2>1, <2>9 DEF SlotsFine, InsertSlot, EmitCreated
<1>5. CASE Waterfall(r)
  <2>. DEFINE built == SlotsFor(op[r].budget)
  <2>1. /\ pc[r] = "waterfall" /\ op' = op /\ slots' = slots
        /\ todo'[r] = built.slots /\ pc'[r] \in {"slots", "refused"}
    BY <1>5, OwnLabel DEF Waterfall, TypeOK
  <2>2. SlotsOf(r)' = {}
    BY <2>1 DEF SlotsFine, SlotsOf
  <2>3. Wanted(r)' = RowsFor(r, todo'[r])
    BY <2>1 DEF Wanted
  <2>. HIDE DEF built
  <2>4. ~EmitCreated(r)
    BY <2>1 DEF EmitCreated
  <2>. QED  BY <1>2, <2>1, <2>2, <2>3, <2>4 DEF SlotsFine
<1>6. CASE SlotsDone(r)
  <2>1. /\ pc[r] = "slots" /\ op' = op /\ slots' = slots
        /\ todo[r] = <<>> /\ pc'[r] = "emit_created"
    BY <1>6, OwnLabel DEF SlotsDone
  <2>2. RowsFor(r, todo[r]) = {}
    <3>1. DOMAIN todo[r] = {}
      BY <2>1
    <3>. QED  BY <3>1 DEF RowsFor, ToSet
  <2>3. SlotsOf(r)' = SlotsOf(r) /\ Wanted(r)' = Wanted(r)
    BY <2>1 DEF SlotsOf, Wanted
  <2>4. ~EmitCreated(r)
    BY <2>1 DEF EmitCreated
  <2>. QED  BY <1>2, <2>1, <2>2, <2>3, <2>4 DEF SlotsFine
<1>7. CASE Begin(r) \/ ListCycles(r) \/ InsertCycle(r)
  <2>1. /\ pc[r] \in {"idle", "list", "insert"} /\ slots' = slots
        /\ pc'[r] \in {"list", "update", "refused", "insert", "waterfall"}
    <3>1. CASE Begin(r)
      BY <3>1, OwnLabel DEF Begin
    <3>2. CASE ListCycles(r)
      BY <3>2, OwnLabel DEF ListCycles
    <3>3. CASE InsertCycle(r)
      BY <3>3, OwnLabel DEF InsertCycle
    <3>. QED  BY <1>7, <3>1, <3>2, <3>3
  <2>2. SlotsOf(r)' = {}
    BY <2>1 DEF SlotsFine, SlotsOf
  <2>3. ~EmitCreated(r)
    BY <2>1 DEF EmitCreated
  <2>. QED  BY <1>2, <2>1, <2>2, <2>3 DEF SlotsFine
<1>8. CASE UpdateBudget(r) \/ UpdateStatus(r)
  <2>1. pc[r] = "update" /\ pc'[r] \in {"emit_patched", "emit_status"}
    BY <1>8, OwnLabel DEF UpdateBudget, UpdateStatus
  <2>2. ~EmitCreated(r)
    BY <2>1 DEF EmitCreated
  <2>. QED  BY <1>2, <2>1, <2>2 DEF SlotsFine
<1>9. CASE EmitPatched(r) \/ EmitStatus(r) \/ ReadCampaign(r) \/ ActivateCampaign(r) \/ UpdateCampaign(r)
  <2>1. /\ op' = op
        /\ pc'[r] \in {"ok", "campaign_read", "campaign_write"}
        /\ \/ pc[r] \in {"emit_patched", "emit_status", "campaign_read", "campaign_write"}
           \/ pc[r] = "update" /\ op[r].kind = "campaign"
    <3>1. CASE EmitPatched(r) \/ EmitStatus(r)
      BY <3>1, OwnLabel DEF EmitPatched, EmitStatus
    <3>2. CASE ReadCampaign(r) \/ ActivateCampaign(r)
      BY <3>2, OwnLabel DEF ReadCampaign, ActivateCampaign
    <3>3. CASE UpdateCampaign(r)
      BY <3>3, OwnLabel DEF UpdateCampaign
    <3>. QED  BY <1>9, <3>1, <3>2, <3>3
  <2>2. op[r].kind \in {"rebudget", "status", "campaign"}
    BY <2>1, Kinds DEF Suits
  <2>3. op'[r] \notin CreateOps
    BY <2>1, <2>2, Kinds
  <2>4. ~EmitCreated(r)
    BY <2>1 DEF EmitCreated
  <2>. QED  BY <1>2, <2>1, <2>3, <2>4 DEF SlotsFine
<1>10. CASE InsertConflict(r)
  <2>1. pc[r] = "insert" /\ pc'[r] = "refused"
    BY <1>10, OwnLabel DEF InsertConflict
  <2>2. ~EmitCreated(r)
    BY <2>1 DEF EmitCreated
  <2>. QED  BY <1>2, <2>1, <2>2 DEF SlotsFine
<1>11. CASE Fail(r)
  <2>1. /\ op' = op /\ announced' = announced
        /\ pc'[r] = IF pc[r] \in {"campaign_read", "campaign_write"} THEN "ok" ELSE "failed"
    BY <1>11, OwnLabel DEF Fail
  <2>2. <<r, "created">> \notin announced'
    BY <1>1, <2>1 DEF SlotsFine
  <2>3. pc[r] \in {"campaign_read", "campaign_write"} => op'[r] \notin CreateOps
    BY <2>1, Kinds DEF Suits
  <2>. QED  BY <2>1, <2>2, <2>3 DEF SlotsFine
<1>. QED  BY <1>3, <1>4, <1>5, <1>6, <1>7, <1>8, <1>9, <1>10, <1>11 DEF Step

LEMMA SlotsStep == TypedInv /\ SlotsInv /\ [Next]_vars => SlotsInv'
<1>. SUFFICES ASSUME TypedInv, SlotsInv, [Next]_vars, NEW q \in Requests PROVE SlotsFine(q)'
  BY DEF SlotsInv
<1>1. CASE UNCHANGED vars
  <2>1. SlotsFine(q)
    BY DEF SlotsInv
  <2>. QED  BY <1>1, <2>1 DEF vars, SlotsFine, SlotsOf, Wanted
<1>2. ASSUME NEW r \in Requests, Step(r) PROVE SlotsFine(q)'
  BY <1>2, SlotsOwn, SlotsOthers
<1>. QED  BY <1>1, <1>2 DEF Next

LEMMA SlotsInit == Init => SlotsInv
  BY DEF Init, SlotsInv, SlotsFine, SlotsOf

\* A cycle that CreateCycle has returned, or announced as created, has exactly
\* the waterfall's slots for its budget, whatever else interleaves and fails:
\* the slots of one cycle are inserted by one call, and what it still has to
\* insert makes up the rest of the waterfall's (service.go, CreateCycle).
THEOREM CreatedCorrect == Spec => []CreatedIsComplete
<1>1. TypedInv /\ SlotsInv => CreatedIsComplete
  <2>. SUFFICES ASSUME TypedInv, SlotsInv, NEW c \in DOMAIN cycles,
                       <<c, "created">> \in announced \/ pc[c] = "ok"
                PROVE  SlotsOf(c) = Wanted(c)
    BY DEF CreatedIsComplete, SlotsOf, Wanted, RowsFor
  <2>1. c \in Requests /\ op[c] \in CreateOps
    BY DEF TypedInv, TypeOK, Ids, CreatorsSound
  <2>2. SlotsFine(c)
    BY <2>1 DEF SlotsInv
  <2>. QED  BY <2>1, <2>2 DEF SlotsFine
<1>. QED  BY <1>1, TypedAlways, SlotsInit, SlotsStep, PTL DEF Spec

-----------------------------------------------------------------------------
(* Active cycles and their campaign *)

\* A call that is activating goes on, unless the campaign is active.
LEMMA ActivatingGoesOn ==
  ASSUME TypedInv, NEW q \in Requests, Step(q), Activating(q), failures' = 0
  PROVE  campaign'.status = "active" \/ Activating(q)'
<1>. TypeOK /\ Suits(pc[q], op[q], DOMAIN cycles)
  BY DEF TypedInv, CallsSound
<1>1. op' = op
  BY DEF Activating, Step, Begin, ListCycles, InsertCycle, InsertConflict, Waterfall, InsertSlot,
         SlotsDone, EmitCreated, UpdateBudget, EmitPatched, UpdateStatus, EmitStatus, ReadCampaign,
         ActivateCampaign, UpdateCampaign, Fail
<1>2. EmitStatus(q) \/ ReadCampaign(q) \/ ActivateCampaign(q) \/ Fail(q)
  BY DEF Activating, Step, Begin, ListCycles, InsertCycle, InsertConflict, Waterfall, InsertSlot,
         SlotsDone, EmitCreated, UpdateBudget, EmitPatched, UpdateStatus, UpdateCampaign
<1>3. CASE EmitStatus(q)
  <2>1. pc'[q] = "campaign_read"
    BY <1>3, OwnLabel DEF EmitStatus, Activating
  <2>. QED  BY <1>1, <2>1 DEF Activating
<1>4. CASE ReadCampaign(q)
  <2>1. /\ pc'[q] = IF campaign.status = "active" THEN "ok" ELSE "campaign_write"
        /\ campaign' = campaign
    BY <1>4, OwnLabel DEF ReadCampaign
  <2>. QED  BY <1>1, <2>1 DEF Activating
<1>5. CASE ActivateCampaign(q)
  BY <1>5 DEF ActivateCampaign, TypeOK
<1>6. ~Fail(q)
  <2>1. failures \in Nat
    BY CyclesAssumption DEF TypeOK
  <2>. QED  BY <2>1 DEF Fail
<1>. QED  BY <1>2, <1>3, <1>4, <1>5, <1>6

LEMMA ActiveStep == TypedInv /\ ActiveInv /\ [Next]_vars => ActiveInv'
<1>. SUFFICES ASSUME TypedInv, ActiveInv, [Next]_vars,
                     NEW c \in DOMAIN cycles', cycles'[c].status = "active",
                     failures' = 0, \A r \in Requests : op'[r].kind # "campaign"
              PROVE  campaign'.status = "active" \/ \E r \in Requests : Activating(r)'
  BY DEF ActiveInv
<1>. TypeOK
  BY DEF TypedInv
<1>1. failures = 0
  <2>1. failures \in Nat
    BY CyclesAssumption DEF TypeOK
  <2>2. failures' = failures \/ failures' = failures + 1
    BY Changes DEF Fail
  <2>. QED  BY <2>1, <2>2
<1>2. ASSUME NEW q \in Requests PROVE op[q].kind # "campaign"
  <2>1. op'[q].kind # "campaign" /\ Suits(pc[q], op[q], DOMAIN cycles)
    BY DEF TypedInv, CallsSound
  <2>2. op' = op \/ \E r \in Requests : Begin(r)
    BY DEF Next, Step, vars, ListCycles, InsertCycle, InsertConflict, Waterfall,
           InsertSlot, SlotsDone, EmitCreated, UpdateBudget, EmitPatched, UpdateStatus, EmitStatus,
           ReadCampaign, ActivateCampaign, UpdateCampaign, Fail
  <2>3. CASE Begin(q)
    BY <2>1, <2>3 DEF Begin, Suits, NoOp
  <2>4. ASSUME NEW r \in Requests, Begin(r), r # q PROVE op'[q] = op[q]
    BY <2>4, OthersHold DEF Step
  <2>. QED  BY <2>1, <2>2, <2>3, <2>4
<1>3. ASSUME campaign.status = "active" PROVE campaign'.status = "active"
  <2>1. ASSUME NEW r \in Requests PROVE ~UpdateCampaign(r)
    BY <1>2 DEF UpdateCampaign
  <2>2. ASSUME NEW r \in Requests, ActivateCampaign(r) PROVE campaign'.status = "active"
    BY <2>2 DEF ActivateCampaign, TypeOK
  <2>3. UNCHANGED campaign \/ \E r \in Requests : ActivateCampaign(r) \/ UpdateCampaign(r)
    BY Changes
  <2>. QED  BY <1>3, <2>1, <2>2, <2>3
<1>4. ASSUME NEW q \in Requests, Activating(q)
      PROVE  campaign'.status = "active" \/ Activating(q)'
  <2>1. CASE UNCHANGED vars
    BY <1>4, <2>1 DEF vars, Activating
  <2>2. ASSUME NEW r \in Requests, Step(r), r # q PROVE Activating(q)'
    <3>1. pc'[q] = pc[q] /\ op'[q] = op[q]
      BY <2>2, OthersHold
    <3>. QED  BY <1>4, <3>1 DEF Activating
  <2>. QED  BY <1>4, <2>1, <2>2, ActivatingGoesOn DEF Next
<1>5. CASE \E d \in DOMAIN cycles : cycles[d].status = "active"
  <2>1. campaign.status = "active" \/ \E r \in Requests : Activating(r)
    BY <1>1, <1>2, <1>5 DEF ActiveInv
  <2>. QED  BY <1>3, <1>4, <2>1
<1>6. CASE ~\E d \in DOMAIN cycles : cycles[d].status = "active"
  <2>1. ASSUME NEW r \in Requests, InsertCycle(r) PROVE FALSE
    <3>1. cycles' = [d \in DOMAIN cycles \cup {r} |-> IF d = r THEN NewRow(r) ELSE cycles[d]]
      BY <2>1 DEF InsertCycle
    <3>2. NewRow(r).status = "pending"
      BY DEF NewRow
    <3>. QED  BY <1>6, <3>1, <3>2
  <2>2. ASSUME NEW r \in Requests, UpdateBudget(r) PROVE FALSE
    <3>1. DOMAIN cycles' = DOMAIN cycles
      BY <2>2 DEF UpdateBudget
    <3>2. cycles[c] \in Row
      BY <3>1 DEF TypeOK
    <3>3. cycles'[c].status = cycles[c].status
      BY <2>2, <3>1, <3>2 DEF UpdateBudget, Row
    <3>. QED  BY <1>6, <3>1, <3>3
  <2>3. ASSUME NEW r \in Requests, UpdateStatus(r) PROVE Activating(r)'
    <3>1. /\ cycles' = [cycles EXCEPT ![op[r].cycle].status = op[r].status]
          /\ op' = op /\ pc'[r] = "emit_status"
      BY <2>3, OwnLabel DEF UpdateStatus
    <3>2. DOMAIN cycles' = DOMAIN cycles /\ cycles[c] \in Row
      BY <3>1 DEF TypeOK
    <3>3. cycles'[c].status = IF c = op[r].cycle THEN op[r].status ELSE cycles[c].status
      BY <3>1, <3>2 DEF Row
    <3>4. op[r].status = "active"
      BY <1>6, <3>2, <3>3
    <3>. QED  BY <3>1, <3>4 DEF Activating
  <2>4. ~UNCHANGED cycles
    BY <1>6
  <2>. QED  BY <2>1, <2>2, <2>3, <2>4, CyclesStep
<1>. QED  BY <1>5, <1>6

LEMMA ActiveInit == Init => ActiveInv
  BY DEF Init, ActiveInv

\* Once every call has returned, a campaign with an active cycle is active,
\* unless a call failed or an admin set the campaign's status: whoever
\* activates a cycle is on its way to the campaign until the campaign is
\* active (service.go, ActivateCycle).
THEOREM ActiveCorrect == Spec => []ActiveCycleActiveCampaign
<1>1. ActiveInv => ActiveCycleActiveCampaign
  BY DEF ActiveInv, ActiveCycleActiveCampaign, Activating, Running
<1>. QED  BY <1>1, TypedAlways, ActiveInit, ActiveStep, PTL DEF Spec

-----------------------------------------------------------------------------
(* The campaign's budget *)

\* A call whose listing has just passed the check fits what it lists.
LEMMA ListedFits ==
  ASSUME TypedInv, NEW r \in Requests, ListCycles(r)
  PROVE  /\ op' = op /\ cycles' = cycles
         /\ pc'[r] = "insert" => FitsInsert(r)
         /\ pc'[r] = "update" => FitsUpdate(r)
<1>. TypeOK /\ NumberedInv /\ Suits(pc[r], op[r], DOMAIN cycles)
  BY DEF TypedInv, CallsSound
<1>. DEFINE excluded == IF op[r].kind = "rebudget" THEN {op[r].cycle} ELSE {}
            left == BudgetIn(cycles, DOMAIN cycles \ excluded)
<1>1. op' = op /\ cycles' = cycles /\ pc[r] = "list"
  BY DEF ListCycles
<1>2. /\ RemainingCycleBudget(excluded) \in Nat
      /\ RemainingCycleBudget(excluded) = TotalBudget - left \/ RemainingCycleBudget(excluded) = 0
  BY RemainingTyped
<1>3. pc'[r] = IF ~ValidCycleBudget(op[r].budget, RemainingCycleBudget(excluded)) THEN "refused"
               ELSE IF op[r].kind = "create" THEN "insert" ELSE "update"
  BY OwnLabel DEF ListCycles
<1>4. op[r] \in CreateOps \cup RebudgetOps(DOMAIN cycles)
  BY <1>1 DEF Suits
<1>5. op[r].budget \in Nat
  BY <1>4, CyclesAssumption DEF CreateOps, RebudgetOps
<1>6. left \in Nat
  BY RowsAreTable, BudgetIsAmount
<1>. HIDE DEF left, excluded
<1>7. pc'[r] \in {"insert", "update"} => left + op[r].budget <= TotalBudget
  <2>1. ASSUME pc'[r] \in {"insert", "update"} PROVE left + op[r].budget <= TotalBudget
    <3>1. ValidCycleBudget(op[r].budget, RemainingCycleBudget(excluded))
      BY <1>3, <2>1
    <3>2. op[r].budget > 0 /\ op[r].budget <= RemainingCycleBudget(excluded)
      BY <3>1 DEF ValidCycleBudget
    <3>. QED  BY <1>2, <1>5, <1>6, <3>2, CyclesAssumption
  <2>. QED  BY <2>1
<1>8. ASSUME pc'[r] = "insert" PROVE FitsInsert(r)
  <2>1. op[r].kind = "create"
    BY <1>3, <1>8
  <2>2. DOMAIN cycles \ excluded = DOMAIN cycles
    BY <2>1 DEF excluded
  <2>. QED  BY <1>7, <1>8, <2>2, BudgetNow DEF FitsInsert, Committed, left
<1>9. ASSUME pc'[r] = "update" PROVE FitsUpdate(r)
  <2>1. op[r].kind # "create"
    BY <1>3, <1>9
  <2>2. excluded = {op[r].cycle}
    BY <1>4, <2>1, Kinds DEF excluded
  <2>. QED  BY <1>7, <1>9, <2>2, BudgetNow DEF FitsUpdate, left
<1>. QED  BY <1>1, <1>8, <1>9

\* How a call comes to write a budget.
LEMMA ReachWrite ==
  ASSUME TypedInv, [Next]_vars, NEW q \in Requests,
         pc'[q] = "insert" \/ (pc'[q] = "update" /\ op'[q].kind = "rebudget")
  PROVE  \/ ListCycles(q)
         \/ pc[q] = pc'[q] /\ op'[q] = op[q] /\ seen'[q] = seen[q]
<1>. TypeOK
  BY DEF TypedInv
<1>1. CASE UNCHANGED vars
  BY <1>1 DEF vars
<1>2. ASSUME NEW r \in Requests, Step(r), r # q
      PROVE  pc[q] = pc'[q] /\ op'[q] = op[q] /\ seen'[q] = seen[q]
  BY <1>2, OthersHold
<1>3. ASSUME Step(q) PROVE ListCycles(q)
  <2>1. ~Begin(q)
    <3>1. ASSUME Begin(q) PROVE FALSE
      <4>1. PICK o \in Ops(DOMAIN cycles) :
              /\ op' = [op EXCEPT ![q] = o]
              /\ Goto(q, IF o.kind \in {"create", "rebudget"} THEN "list" ELSE "update")
        BY <3>1 DEF Begin
      <4>2. op'[q] = o /\ pc'[q] = IF o.kind \in {"create", "rebudget"} THEN "list" ELSE "update"
        BY <4>1, OwnLabel DEF TypeOK
      <4>. QED  BY <4>2
    <3>. QED  BY <3>1
  <2>2. ~InsertCycle(q) /\ ~InsertConflict(q)
    BY OwnLabel DEF InsertCycle, InsertConflict
  <2>3. ~Waterfall(q)
    BY OwnLabel DEF Waterfall
  <2>4. ~InsertSlot(q) /\ ~SlotsDone(q)
    BY OwnLabel DEF InsertSlot, SlotsDone
  <2>5. ~EmitCreated(q) /\ ~EmitPatched(q) /\ ~EmitStatus(q)
    BY OwnLabel DEF EmitCreated, EmitPatched, EmitStatus
  <2>6. ~UpdateBudget(q) /\ ~UpdateStatus(q) /\ ~UpdateCampaign(q)
    BY OwnLabel DEF UpdateBudget, UpdateStatus, UpdateCampaign
  <2>7. ~ReadCampaign(q) /\ ~ActivateCampaign(q)
    BY OwnLabel DEF ReadCampaign, ActivateCampaign
  <2>8. ~Fail(q)
    BY OwnLabel DEF Fail
  <2>. QED  BY <1>3, <2>1, <2>2, <2>3, <2>4, <2>5, <2>6, <2>7, <2>8 DEF Step
<1>. QED  BY <1>1, <1>2, <1>3 DEF Next

\* The steps that write no budget keep every sum.
LEMMA BudgetKept ==
  ASSUME TypedInv, UNCHANGED cycles \/ \E r \in Requests : UpdateStatus(r)
  PROVE  /\ DOMAIN cycles' = DOMAIN cycles
         /\ \A ids : BudgetIn(cycles', ids) = BudgetIn(cycles, ids)
<1>1. DOMAIN cycles' = DOMAIN cycles /\ \A c \in DOMAIN cycles : cycles'[c].budget = cycles[c].budget
  <2>1. CASE UNCHANGED cycles
    BY <2>1
  <2>2. ASSUME NEW r \in Requests, UpdateStatus(r)
        PROVE  DOMAIN cycles' = DOMAIN cycles /\ \A c \in DOMAIN cycles : cycles'[c].budget = cycles[c].budget
    <3>1. cycles' = [cycles EXCEPT ![op[r].cycle].status = op[r].status]
      BY <2>2 DEF UpdateStatus
    <3>2. \A c \in DOMAIN cycles : cycles[c] \in Row
      BY DEF TypedInv, TypeOK
    <3>. QED  BY <3>1, <3>2 DEF Row
  <2>. QED  BY <2>1, <2>2
<1>2. [c \in DOMAIN cycles' |-> cycles'[c].budget] = [c \in DOMAIN cycles |-> cycles[c].budget]
  BY <1>1
<1>. QED  BY <1>1, <1>2 DEF BudgetIn

\* The steps that write a budget, and what they make of the sum.
LEMMA BudgetInserted ==
  ASSUME TypedInv, NEW r \in Requests, InsertCycle(r)
  PROVE  BudgetIn(cycles', DOMAIN cycles') = Committed + op[r].budget
<1>. NumberedInv
  BY DEF TypedInv
<1>1. DOMAIN cycles' = DOMAIN cycles \cup {r} /\ IsFiniteSet(DOMAIN cycles')
  BY InsertNumbers
<1>2. \A c \in DOMAIN cycles' : cycles'[c] \in Row
  BY InsertNumbers
<1>3. IsTable(cycles) /\ IsTable(cycles')
  BY <1>1, <1>2, RowsAreTable, CyclesAssumption DEF IsTable, Row
<1>4. r \notin DOMAIN cycles
  BY DEF NumberedInv, InsertedWhen, InsertCycle
<1>5. /\ \A c \in DOMAIN cycles : cycles'[c] = cycles[c]
      /\ cycles'[r].budget = op[r].budget
  BY <1>4 DEF InsertCycle, NewRow
<1>6. BudgetIn(cycles', DOMAIN cycles') = BudgetIn(cycles, DOMAIN cycles) + cycles'[r].budget
  BY <1>1, <1>3, <1>4, <1>5, BudgetGrows
<1>. QED  BY <1>5, <1>6, BudgetNow DEF Committed

LEMMA BudgetUpdated ==
  ASSUME TypedInv, NEW r \in Requests, UpdateBudget(r)
  PROVE  /\ BudgetIn(cycles', DOMAIN cycles') = BudgetOf(DOMAIN cycles \ {op[r].cycle}) + op[r].budget
         /\ DOMAIN cycles' = DOMAIN cycles /\ op[r].cycle \in DOMAIN cycles
<1>. NumberedInv /\ Suits(pc[r], op[r], DOMAIN cycles)
  BY DEF TypedInv, CallsSound
<1>. DEFINE d == op[r].cycle
<1>1. pc[r] = "update" /\ op[r].kind = "rebudget" /\ cycles' = [cycles EXCEPT ![d].budget = op[r].budget]
  BY DEF UpdateBudget
<1>2. op[r] \in RebudgetOps(DOMAIN cycles)
  BY <1>1, Kinds DEF Suits
<1>3. d \in DOMAIN cycles /\ op[r].budget \in Nat
  BY <1>2, CyclesAssumption DEF RebudgetOps
<1>4. DOMAIN cycles' = DOMAIN cycles /\ IsTable(cycles)
  BY <1>1, RowsAreTable
<1>5. \A c \in DOMAIN cycles : cycles[c] \in Row /\ cycles'[c] \in Row
  BY <1>4, UpdateKeepsNumbers DEF NumberedInv, RowsTyped
<1>6. IsTable(cycles')
  BY <1>4, <1>5, CyclesAssumption DEF IsTable, Row
<1>7. \A c \in DOMAIN cycles \ {d} : cycles'[c] = cycles[c]
  BY <1>1
<1>8. cycles'[d].budget = op[r].budget
  BY <1>1, <1>3, <1>5 DEF Row
<1>. HIDE DEF d
<1>9. BudgetIn(cycles', DOMAIN cycles') = cycles'[d].budget + BudgetIn(cycles, DOMAIN cycles \ {d})
  BY <1>3, <1>4, <1>6, <1>7, BudgetReplaced
<1>10. BudgetIn(cycles, DOMAIN cycles \ {d}) \in Nat
  BY <1>4, BudgetIsAmount
<1>. QED  BY <1>3, <1>4, <1>8, <1>9, <1>10, BudgetNow DEF d

\* What a call fits is told by its request and the sums.
LEMMA FitsKept ==
  ASSUME NEW q \in Requests, op'[q] = op[q], DOMAIN cycles' = DOMAIN cycles,
         \A ids : BudgetIn(cycles', ids) = BudgetIn(cycles, ids)
  PROVE  /\ FitsInsert(q)' <=> FitsInsert(q)
         /\ FitsUpdate(q)' <=> FitsUpdate(q)
         /\ Committed' = Committed
<1>1. Committed' = Committed
  BY BudgetNow, BudgetThen DEF Committed
<1>2. BudgetOf(DOMAIN cycles \ {op[q].cycle})' = BudgetOf(DOMAIN cycles \ {op[q].cycle})
  BY BudgetNow, BudgetThen
<1>. QED  BY <1>1, <1>2 DEF FitsInsert, FitsUpdate

LEMMA UnracedStep == TypedInv /\ UnracedInv /\ [Next]_vars => UnracedInv'
<1>. SUFFICES ASSUME TypedInv, UnracedInv, [Next]_vars, ~raced'
              PROVE  /\ Committed' <= TotalBudget
                     /\ \A q \in fresh' : pc'[q] = "insert" => FitsInsert(q)'
                     /\ \A q \in fresh' : pc'[q] = "update" /\ op'[q].kind = "rebudget" => FitsUpdate(q)'
  BY DEF UnracedInv
<1>. TypeOK
  BY DEF TypedInv
<1>1. ASSUME NEW r \in Requests, InsertCycle(r)
      PROVE  Committed' <= TotalBudget /\ fresh' = {}
  <2>1. ~raced /\ r \in fresh /\ fresh' = {} /\ pc[r] = "insert"
    BY <1>1 DEF InsertCycle, BudgetWritten
  <2>2. FitsInsert(r)
    BY <2>1 DEF UnracedInv
  <2>3. Committed' = Committed + op[r].budget
    BY <1>1, BudgetInserted, BudgetThen DEF Committed
  <2>. QED  BY <2>1, <2>2, <2>3 DEF FitsInsert
<1>2. ASSUME NEW r \in Requests, UpdateBudget(r)
      PROVE  Committed' <= TotalBudget /\ fresh' = {}
  <2>1. ~raced /\ r \in fresh /\ fresh' = {} /\ pc[r] = "update" /\ op[r].kind = "rebudget"
    BY <1>2 DEF UpdateBudget, BudgetWritten
  <2>2. FitsUpdate(r)
    BY <2>1 DEF UnracedInv
  <2>3. Committed' = BudgetOf(DOMAIN cycles \ {op[r].cycle}) + op[r].budget
    BY <1>2, BudgetUpdated, BudgetThen DEF Committed
  <2>. QED  BY <2>1, <2>2, <2>3 DEF FitsUpdate
<1>3. CASE \A r \in Requests : ~InsertCycle(r) /\ ~UpdateBudget(r)
  <2>1. DOMAIN cycles' = DOMAIN cycles
    BY <1>3, CyclesStep, BudgetKept
  <2>2. \A ids : BudgetIn(cycles', ids) = BudgetIn(cycles, ids)
    BY <1>3, CyclesStep, BudgetKept
  <2>3. /\ raced' = raced
        /\ \A q \in fresh' : q \in fresh \/ ListCycles(q)
    <3>1. UNCHANGED <<fresh, raced>> \/ \E r \in Requests : ListCycles(r)
      BY <1>3, Changes
    <3>. QED  BY <3>1 DEF ListCycles
  <2>4. Committed <= TotalBudget
    BY <2>3 DEF UnracedInv
  <2>5. Committed' = Committed
    BY <2>1, <2>2, BudgetNow, BudgetThen DEF Committed
  <2>6. fresh' \subseteq Requests
    BY TypedStep DEF TypedInv, TypeOK
  <2>7. ASSUME NEW q \in fresh', pc'[q] = "insert" PROVE FitsInsert(q)'
    <3>1. op'[q] = op[q] /\ FitsInsert(q)
      <4>1. CASE ListCycles(q)
        BY <2>6, <2>7, <4>1, ListedFits
      <4>2. CASE ~ListCycles(q)
        <5>1. pc[q] = "insert" /\ op'[q] = op[q]
          BY <2>6, <2>7, <4>2, ReachWrite
        <5>. QED  BY <2>3, <4>2, <5>1 DEF UnracedInv
      <4>. QED  BY <4>1, <4>2
    <3>. QED  BY <2>1, <2>2, <2>6, <3>1, FitsKept
  <2>8. ASSUME NEW q \in fresh', pc'[q] = "update", op'[q].kind = "rebudget" PROVE FitsUpdate(q)'
    <3>1. op'[q] = op[q] /\ FitsUpdate(q)
      <4>1. CASE ListCycles(q)
        BY <2>6, <2>8, <4>1, ListedFits
      <4>2. CASE ~ListCycles(q)
        <5>1. pc[q] = "update" /\ op'[q] = op[q]
          BY <2>6, <2>8, <4>2, ReachWrite
        <5>. QED  BY <2>3, <2>8, <4>2, <5>1 DEF UnracedInv
      <4>. QED  BY <4>1, <4>2
    <3>. QED  BY <2>1, <2>2, <2>6, <3>1, FitsKept
  <2>. QED  BY <2>4, <2>5, <2>7, <2>8
<1>. QED  BY <1>1, <1>2, <1>3

\* A number that is still free is the next one: the call has seen every cycle.
LEMMA FreeNumber ==
  ASSUME NumberedInv, NEW r \in Requests, InsertCycle(r)
  PROVE  seen[r].count = Cardinality(DOMAIN cycles)
<1>1. seen[r].count \in 0 .. Cardinality(DOMAIN cycles) /\ Cardinality(DOMAIN cycles) \in Nat
  BY InsertNumbers DEF NumberedInv, ListedBefore, InsertCycle
<1>2. NextNumber(r) \notin {cycles[c].number : c \in DOMAIN cycles}
  BY DEF InsertCycle, NumberTaken
<1>3. seen[r].count + 1 \notin 1 .. Cardinality(DOMAIN cycles)
  BY <1>2 DEF NumberedInv, CycleNumbersContiguous, NextNumber
<1>. QED  BY <1>1, <1>3

LEMMA CreationsStep == TypedInv /\ CreationsInv /\ [Next]_vars => CreationsInv'
<1>. SUFFICES ASSUME TypedInv, CreationsInv, [Next]_vars, ~rebudgeted'
              PROVE  /\ Committed' <= TotalBudget
                     /\ \A q \in Requests :
                          pc'[q] = "insert" /\ seen'[q].count = Cardinality(DOMAIN cycles') => FitsInsert(q)'
  BY DEF CreationsInv
<1>. TypeOK /\ NumberedInv
  BY DEF TypedInv
<1>1. /\ ~rebudgeted
      /\ \A r \in Requests : ~UpdateBudget(r)
  <2>1. \A r \in Requests : ~UpdateBudget(r)
    BY DEF UpdateBudget
  <2>2. UNCHANGED rebudgeted \/ \E r \in Requests : UpdateBudget(r)
    BY Changes
  <2>3. rebudgeted' = rebudgeted
    BY <2>1, <2>2
  <2>. QED  BY <2>1, <2>3
<1>2. /\ Committed <= TotalBudget
      /\ \A q \in Requests :
           pc[q] = "insert" /\ seen[q].count = Cardinality(DOMAIN cycles) => FitsInsert(q)
  BY <1>1 DEF CreationsInv
<1>3. ASSUME NEW r \in Requests, InsertCycle(r)
      PROVE  /\ Committed' <= TotalBudget
             /\ \A q \in Requests : pc'[q] = "insert" => seen'[q].count # Cardinality(DOMAIN cycles')
  <2>1. FitsInsert(r)
    BY <1>2, <1>3, FreeNumber DEF InsertCycle
  <2>2. Committed' = Committed + op[r].budget
    BY <1>3, BudgetInserted, BudgetThen DEF Committed
  <2>3. Committed' <= TotalBudget
    BY <2>1, <2>2 DEF FitsInsert
  <2>4. ASSUME NEW q \in Requests, pc'[q] = "insert"
        PROVE  seen'[q].count # Cardinality(DOMAIN cycles')
    <3>1. seen' = seen /\ pc'[r] = "waterfall"
      BY <1>3, OwnLabel DEF InsertCycle
    <3>2. pc[q] = "insert"
      BY <1>3, <2>4, <3>1, OthersHold DEF Step
    <3>3. seen[q].count \in 0 .. Cardinality(DOMAIN cycles)
      BY <3>2 DEF NumberedInv, ListedBefore
    <3>4. Cardinality(DOMAIN cycles') = Cardinality(DOMAIN cycles) + 1 /\ Cardinality(DOMAIN cycles) \in Nat
      BY <1>3, InsertNumbers
    <3>. QED  BY <3>1, <3>3, <3>4
  <2>. QED  BY <2>3, <2>4
<1>4. CASE \A r \in Requests : ~InsertCycle(r)
  <2>1. DOMAIN cycles' = DOMAIN cycles
    BY <1>1, <1>4, CyclesStep, BudgetKept
  <2>2. \A ids : BudgetIn(cycles', ids) = BudgetIn(cycles, ids)
    BY <1>1, <1>4, CyclesStep, BudgetKept
  <2>3. Committed' = Committed
    BY <2>1, <2>2, BudgetNow, BudgetThen DEF Committed
  <2>4. ASSUME NEW q \in Requests, pc'[q] = "insert", seen'[q].count = Cardinality(DOMAIN cycles')
        PROVE  FitsInsert(q)'
    <3>1. op'[q] = op[q] /\ FitsInsert(q)
      <4>1. CASE ListCycles(q)
        BY <2>4, <4>1, ListedFits
      <4>2. CASE ~ListCycles(q)
        <5>1. pc[q] = "insert" /\ op'[q] = op[q] /\ seen'[q] = seen[q]
          BY <2>4, <4>2, ReachWrite
        <5>. QED  BY <1>2, <2>1, <2>4, <5>1
      <4>. QED  BY <4>1, <4>2
    <3>. QED  BY <2>1, <2>2, <3>1, FitsKept
  <2>. QED  BY <1>2, <2>3, <2>4
<1>. QED  BY <1>3, <1>4

LEMMA BudgetInit == Init => UnracedInv /\ CreationsInv
<1>. SUFFICES ASSUME Init PROVE UnracedInv /\ CreationsInv
  OBVIOUS
<1>1. DOMAIN cycles = {}
  BY DEF Init
<1>2. BudgetIn(cycles, {}) = 0
  <2>. DEFINE f == [c \in DOMAIN cycles |-> cycles[c].budget]
  <2>. HIDE DEF f
  <2>1. SumFunctionOnSet(f, {}) = 0
    BY FS_EmptySet, SumStep
  <2>. QED  BY <2>1 DEF BudgetIn, f
<1>3. Committed <= TotalBudget
  BY <1>1, <1>2, BudgetNow, CyclesAssumption DEF Committed
<1>. QED  BY <1>3 DEF Init, UnracedInv, CreationsInv

\* Creating cycles never commits more than the campaign's total, for any
\* number of calls and any budgets: the number of an outdated listing is
\* taken.  With changed budgets the total is exceeded only by a call that
\* writes on an outdated listing (service.go, validateCycleBudget).
THEOREM BudgetCorrect == Spec => []UnracedRespectsBudget
<1>1. UnracedInv /\ CreationsInv => UnracedRespectsBudget
  BY DEF UnracedInv, CreationsInv, UnracedRespectsBudget
<1>. QED  BY <1>1, TypedAlways, BudgetInit, UnracedStep, CreationsStep, PTL DEF Spec

-----------------------------------------------------------------------------
(* The ledger *)

\* Numbered and the mapping, with the table as a parameter.
NumberedIn(table, n) == CHOOSE c \in DOMAIN table : table[c].number = n
View(row) == [budget |-> row.budget, status |-> row.status]
LedgerOf(table) == [n \in 1 .. Cardinality(DOMAIN table) |-> View(table[NumberedIn(table, n)])]

\* The numbers of a table are 1, 2, ... without a gap or a repetition.
Contiguous(table) ==
  /\ {table[c].number : c \in DOMAIN table} = 1 .. Cardinality(DOMAIN table)
  /\ \A c, d \in DOMAIN table : table[c].number = table[d].number => c = d

LEMMA NumberedIs ==
  ASSUME NEW table, Contiguous(table), NEW c \in DOMAIN table
  PROVE  NumberedIn(table, table[c].number) = c
  BY DEF Contiguous, NumberedIn

LEMMA NumberedExists ==
  ASSUME NEW table, Contiguous(table), NEW n \in 1 .. Cardinality(DOMAIN table)
  PROVE  NumberedIn(table, n) \in DOMAIN table /\ table[NumberedIn(table, n)].number = n
<1>1. \E c \in DOMAIN table : table[c].number = n
  BY DEF Contiguous
<1>. QED  BY <1>1 DEF NumberedIn

\* While the cycles keep their numbers, each number names the same cycle.
LEMMA NumberedKept ==
  ASSUME NEW table, NEW later, Contiguous(table), Contiguous(later),
         DOMAIN table \subseteq DOMAIN later,
         \A c \in DOMAIN table : later[c].number = table[c].number,
         NEW n \in 1 .. Cardinality(DOMAIN table)
  PROVE  NumberedIn(later, n) = NumberedIn(table, n)
<1>. DEFINE c == NumberedIn(table, n)
<1>1. c \in DOMAIN table /\ table[c].number = n
  BY NumberedExists
<1>. HIDE DEF c
<1>2. c \in DOMAIN later /\ later[c].number = n
  BY <1>1
<1>3. NumberedIn(later, n) = c
  BY <1>2, NumberedIs
<1>. QED  BY <1>3 DEF c

LEMMA LedgerNow ==
  /\ (NumberedInv => Contiguous(cycles))
  /\ Ledger = LedgerOf(cycles)
  BY DEF NumberedInv, CycleNumbersContiguous, Contiguous, Ledger, LedgerOf, View, Numbered, NumberedIn

\* A new cycle is the next entry.
LEMMA LedgerGrows ==
  ASSUME NEW table, NEW later, Contiguous(table), Contiguous(later), NEW r \in DOMAIN later,
         r \notin DOMAIN table, DOMAIN table \subseteq DOMAIN later,
         Cardinality(DOMAIN table) \in Nat,
         Cardinality(DOMAIN later) = Cardinality(DOMAIN table) + 1,
         \A c \in DOMAIN table : later[c] = table[c]
  PROVE  LedgerOf(later) = Append(LedgerOf(table), View(later[r]))
<1>. DEFINE K == Cardinality(DOMAIN table)
            before == LedgerOf(table)
            after == LedgerOf(later)
            entry == View(later[r])
            S == {before[n] : n \in 1 .. K} \cup {entry}
<1>1. /\ DOMAIN before = 1 .. K /\ DOMAIN after = 1 .. K + 1
      /\ before = [n \in 1 .. K |-> before[n]] /\ after = [n \in 1 .. K + 1 |-> after[n]]
  BY DEF LedgerOf
<1>2. ASSUME NEW n \in 1 .. K PROVE after[n] = before[n]
  <2>1. NumberedIn(later, n) = NumberedIn(table, n)
    BY NumberedKept
  <2>2. NumberedIn(table, n) \in DOMAIN table
    BY NumberedExists
  <2>3. n \in 1 .. Cardinality(DOMAIN later)
    OBVIOUS
  <2>. QED  BY <2>1, <2>2, <2>3 DEF LedgerOf
<1>3. after[K + 1] = entry
  <2>1. later[r].number \in 1 .. K + 1
    BY DEF Contiguous
  <2>2. later[r].number \notin 1 .. K
    <3>1. ASSUME later[r].number \in 1 .. K PROVE FALSE
      <4>1. PICK c \in DOMAIN table : table[c].number = later[r].number
        BY <3>1 DEF Contiguous
      <4>2. c \in DOMAIN later /\ later[c].number = later[r].number
        BY <4>1
      <4>3. c = r
        BY <4>2 DEF Contiguous
      <4>. QED  BY <4>1, <4>3
    <3>. QED  BY <3>1
  <2>3. later[r].number = K + 1
    BY <2>1, <2>2
  <2>4. NumberedIn(later, K + 1) = r
    BY <2>3, NumberedIs
  <2>. QED  BY <2>4 DEF LedgerOf
<1>. HIDE DEF before, after, entry
<1>4. before \in Seq(S) /\ Len(before) = K
  BY <1>1
<1>5. entry \in S /\ \A n \in 1 .. K + 1 : after[n] \in S
  BY <1>2, <1>3
<1>6. after \in Seq(S) /\ Len(after) = K + 1
  BY <1>1, <1>5
<1>. HIDE DEF S
<1>7. /\ Append(before, entry) \in Seq(S) /\ Len(Append(before, entry)) = K + 1
      /\ \A n \in 1 .. K : Append(before, entry)[n] = before[n]
      /\ Append(before, entry)[K + 1] = entry
  BY <1>4, <1>5, AppendProperties
<1>8. \A n \in 1 .. K + 1 : after[n] = Append(before, entry)[n]
  BY <1>2, <1>3, <1>7
<1>9. after = Append(before, entry)
  BY <1>6, <1>7, <1>8, SeqEqual
<1>. QED  BY <1>9 DEF before, after, entry

\* A changed row is a changed entry.
LEMMA LedgerChanges ==
  ASSUME NEW table, NEW later, Contiguous(table), Contiguous(later), NEW d \in DOMAIN table,
         DOMAIN later = DOMAIN table, \A c \in DOMAIN table : later[c].number = table[c].number,
         \A c \in DOMAIN table \ {d} : later[c] = table[c]
  PROVE  LET n == table[d].number
         IN  /\ n \in DOMAIN LedgerOf(table)
             /\ LedgerOf(table)[n] = View(table[d])
             /\ LedgerOf(later) = [LedgerOf(table) EXCEPT ![n] = View(later[d])]
<1>. DEFINE n == table[d].number
            K == Cardinality(DOMAIN table)
<1>1. n \in 1 .. K
  BY DEF Contiguous
<1>2. NumberedIn(table, n) = d
  BY NumberedIs
<1>. HIDE DEF n
<1>3. ASSUME NEW m \in 1 .. K
      PROVE  LedgerOf(later)[m] = IF m = n THEN View(later[d]) ELSE LedgerOf(table)[m]
  <2>1. NumberedIn(later, m) = NumberedIn(table, m)
    BY NumberedKept
  <2>2. NumberedIn(table, m) \in DOMAIN table /\ table[NumberedIn(table, m)].number = m
    BY NumberedExists
  <2>3. LedgerOf(later)[m] = View(later[NumberedIn(table, m)])
    BY <2>1 DEF LedgerOf
  <2>4. LedgerOf(table)[m] = View(table[NumberedIn(table, m)])
    BY DEF LedgerOf
  <2>5. CASE m = n
    BY <1>2, <2>3, <2>5
  <2>6. CASE m # n
    <3>1. NumberedIn(table, m) # d
      BY <2>2, <2>6 DEF n
    <3>. QED  BY <2>2, <2>3, <2>4, <2>6, <3>1
  <2>. QED  BY <2>5, <2>6
<1>4. LedgerOf(later) = [m \in 1 .. K |-> LedgerOf(later)[m]] /\ DOMAIN LedgerOf(table) = 1 .. K
  BY DEF LedgerOf
<1>5. LedgerOf(table)[n] = View(table[d])
  BY <1>1, <1>2 DEF LedgerOf
<1>6. LedgerOf(later) = [LedgerOf(table) EXCEPT ![n] = View(later[d])]
  BY <1>3, <1>4
<1>. QED  BY <1>1, <1>4, <1>5, <1>6 DEF n

LEMMA RefineInit == Init => Abstract!Init
<1>. SUFFICES ASSUME Init PROVE Abstract!Init
  OBVIOUS
<1>1. DOMAIN cycles = {} /\ Cardinality(DOMAIN cycles) = 0
  BY FS_EmptySet DEF Init
<1>2. LedgerOf(cycles) = <<>>
  BY <1>1 DEF LedgerOf
<1>. QED  BY <1>2, LedgerNow DEF Abstract!Init

LEMMA LedgerThen ==
  /\ (NumberedInv' => Contiguous(cycles'))
  /\ Ledger' = LedgerOf(cycles')
  BY DEF NumberedInv, CycleNumbersContiguous, Contiguous, Ledger, LedgerOf, View, Numbered, NumberedIn

LEMMA RefineStep == TypedInv /\ [Next]_vars => [Abstract!Next]_Ledger
<1>. SUFFICES ASSUME TypedInv, [Next]_vars PROVE [Abstract!Next]_Ledger
  OBVIOUS
<1>. NumberedInv /\ NumberedInv' /\ Contiguous(cycles) /\ Contiguous(cycles')
  BY NumberedStep, LedgerNow, LedgerThen DEF TypedInv
<1>1. CASE UNCHANGED cycles
  BY <1>1, LedgerNow, LedgerThen
<1>2. ASSUME NEW r \in Requests, InsertCycle(r) PROVE Abstract!Next
  <2>1. /\ DOMAIN cycles' = DOMAIN cycles \cup {r} /\ r \notin DOMAIN cycles
        /\ cycles' = [c \in DOMAIN cycles \cup {r} |-> IF c = r THEN NewRow(r) ELSE cycles[c]]
    BY <1>2 DEF InsertCycle, NumberedInv, InsertedWhen
  <2>2. /\ Cardinality(DOMAIN cycles) \in Nat
        /\ Cardinality(DOMAIN cycles') = Cardinality(DOMAIN cycles) + 1
    BY <1>2, InsertNumbers
  <2>3. op[r].budget \in Budgets
    <3>1. Suits(pc[r], op[r], DOMAIN cycles) /\ pc[r] = "insert"
      BY <1>2 DEF TypedInv, CallsSound, InsertCycle
    <3>. QED  BY <3>1 DEF Suits, CreateOps
  <2>4. cycles'[r] = NewRow(r) /\ \A c \in DOMAIN cycles : cycles'[c] = cycles[c]
    BY <2>1
  <2>5. LedgerOf(cycles') = Append(LedgerOf(cycles), View(cycles'[r]))
    BY <2>1, <2>2, <2>4, LedgerGrows
  <2>6. View(cycles'[r]) = [budget |-> op[r].budget, status |-> "pending"]
    BY <2>4 DEF View, NewRow
  <2>7. Abstract!Open(op[r].budget)
    BY <2>5, <2>6, LedgerNow, LedgerThen DEF Abstract!Open
  <2>. QED  BY <2>3, <2>7 DEF Abstract!Next
<1>3. ASSUME NEW r \in Requests, UpdateBudget(r) PROVE Abstract!Next
  <2>. DEFINE d == op[r].cycle
              n == cycles[d].number
  <2>1. d \in DOMAIN cycles /\ DOMAIN cycles' = DOMAIN cycles
    BY <1>3, BudgetUpdated
  <2>2. \A c \in DOMAIN cycles : cycles'[c].number = cycles[c].number
    BY <1>3, UpdateKeepsNumbers DEF NumberedInv
  <2>3. cycles' = [cycles EXCEPT ![d].budget = op[r].budget]
    BY <1>3 DEF UpdateBudget
  <2>4. cycles[d] \in Row /\ \A c \in DOMAIN cycles \ {d} : cycles'[c] = cycles[c]
    BY <2>1, <2>3 DEF TypedInv, TypeOK
  <2>5. View(cycles'[d]) = [View(cycles[d]) EXCEPT !.budget = op[r].budget]
    BY <2>1, <2>3, <2>4 DEF View, Row
  <2>6. op[r].budget \in Budgets
    <3>1. Suits(pc[r], op[r], DOMAIN cycles) /\ pc[r] = "update" /\ op[r].kind = "rebudget"
      BY <1>3 DEF TypedInv, CallsSound, UpdateBudget
    <3>2. op[r] \in RebudgetOps(DOMAIN cycles)
      BY <3>1, Kinds DEF Suits
    <3>. QED  BY <3>2 DEF RebudgetOps
  <2>. HIDE DEF d
  <2>7. /\ n \in DOMAIN LedgerOf(cycles) /\ LedgerOf(cycles)[n] = View(cycles[d])
        /\ LedgerOf(cycles') = [LedgerOf(cycles) EXCEPT ![n] = View(cycles'[d])]
    BY <2>1, <2>2, <2>4, LedgerChanges
  <2>. HIDE DEF n
  <2>8. LedgerOf(cycles') = [LedgerOf(cycles) EXCEPT ![n].budget = op[r].budget]
    BY <2>5, <2>7
  <2>9. n \in DOMAIN Ledger /\ Abstract!Rebudget(n, op[r].budget)
    BY <2>7, <2>8, LedgerNow, LedgerThen DEF Abstract!Rebudget
  <2>. QED  BY <2>6, <2>9 DEF Abstract!Next
<1>4. ASSUME NEW r \in Requests, UpdateStatus(r) PROVE Abstract!Next
  <2>. DEFINE d == op[r].cycle
              n == cycles[d].number
  <2>1. op[r] \in StatusOps(DOMAIN cycles)
    <3>1. Suits(pc[r], op[r], DOMAIN cycles) /\ pc[r] = "update" /\ op[r].kind = "status"
      BY <1>4 DEF TypedInv, CallsSound, UpdateStatus
    <3>. QED  BY <3>1, Kinds DEF Suits
  <2>2. d \in DOMAIN cycles /\ op[r].status \in {"active", "paused", "closed"}
    BY <2>1 DEF StatusOps
  <2>3. /\ DOMAIN cycles' = DOMAIN cycles
        /\ \A c \in DOMAIN cycles : cycles'[c].number = cycles[c].number
    BY <1>4, UpdateKeepsNumbers DEF NumberedInv
  <2>4. cycles' = [cycles EXCEPT ![d].status = op[r].status]
    BY <1>4 DEF UpdateStatus
  <2>5. cycles[d] \in Row /\ \A c \in DOMAIN cycles \ {d} : cycles'[c] = cycles[c]
    BY <2>2, <2>4 DEF TypedInv, TypeOK
  <2>6. View(cycles'[d]) = [View(cycles[d]) EXCEPT !.status = op[r].status]
    BY <2>2, <2>4, <2>5 DEF View, Row
  <2>. HIDE DEF d
  <2>7. /\ n \in DOMAIN LedgerOf(cycles) /\ LedgerOf(cycles)[n] = View(cycles[d])
        /\ LedgerOf(cycles') = [LedgerOf(cycles) EXCEPT ![n] = View(cycles'[d])]
    BY <2>2, <2>3, <2>5, LedgerChanges
  <2>. HIDE DEF n
  <2>8. LedgerOf(cycles') = [LedgerOf(cycles) EXCEPT ![n].status = op[r].status]
    BY <2>6, <2>7
  <2>9. n \in DOMAIN Ledger /\ Abstract!SetStatus(n, op[r].status)
    BY <2>7, <2>8, LedgerNow, LedgerThen DEF Abstract!SetStatus
  <2>. QED  BY <2>2, <2>9 DEF Abstract!Next, Abstract!LaterStatuses
<1>. QED  BY <1>1, <1>2, <1>3, <1>4, CyclesStep

\* The cycles of a campaign implement the ledger: under every interleaving
\* and failure a new cycle is the next entry, and a call changes the budget or
\* the status of one entry, never its number, nor back to pending
\* (service.go, CreateCycle, PatchCycle, ActivateCycle, PauseCycle,
\* CloseCycle).
THEOREM CyclesRefineLedger == Spec => ImplementsCycleLedger
<1>. QED  BY TypedInit, TypedStep, RefineInit, RefineStep, PTL DEF Spec, ImplementsCycleLedger, Abstract!Spec
=============================================================================
