----------------------- MODULE SlotAssignment_proofs -----------------------
(***************************************************************************)
(* Proofs about SlotAssignment, for any number of calls, talents and slots *)
(* and any budget; about the waterfall, for any campaign and talents; and  *)
(* about the solver, for any talents and slots.                            *)
(***************************************************************************)
EXTENDS SlotAssignment, Algorithms, HungarianSolver, FiniteSetTheorems, SequenceTheorems, WellFoundedInduction, TLAPS

-----------------------------------------------------------------------------
(* Numbers and sums *)

LEMMA LeastNat ==
  ASSUME NEW B \in SUBSET Nat, B # {}
  PROVE  \E m \in B : \A n \in B : m <= n
<1> DEFINE R == OpToRel(<, Nat)
<1>1. IsWellFoundedOn(R, Nat)
  BY NatLessThanWellFounded
<1>2. \A m, n \in Nat : n < m => <<n, m>> \in R
  BY DEF OpToRel
<1> HIDE DEF R
<1>3. \E m \in B : \A n \in B : ~(<<n, m>> \in R)
  BY <1>1, WFMin
<1>4. PICK m \in B : \A n \in B : ~(<<n, m>> \in R)
  BY <1>3
<1>5. ASSUME NEW n \in B PROVE m <= n
  <2>1. m \in Nat /\ n \in Nat /\ ~(n < m)
    BY <1>2, <1>4
  <2>2. QED
    BY <2>1
<1>6. QED
  BY <1>5

\* One step of the sum over s: some element, and the rest.
Some(s) == CHOOSE x \in s : TRUE
Rest(s) == s \ {Some(s)}
Adds(f, S, g) == g = [s \in S |-> IF s = {} THEN 0 ELSE f[Some(s)] + g[Rest(s)]]

LEMMA SumIs ==
  ASSUME NEW f, NEW S
  PROVE  SumFunctionOnSet(f, S) = (CHOOSE g : Adds(f, SUBSET S, g))[S]
BY DEF SumFunctionOnSet, FoldFunctionOnSet, MapThenFoldSet, Adds, Some, Rest

\* The rest of a finite set is smaller.
LEMMA RestSmaller ==
  ASSUME NEW s, IsFiniteSet(s), s # {}
  PROVE  /\ Some(s) \in s /\ Rest(s) \subseteq s /\ IsFiniteSet(Rest(s))
         /\ Cardinality(s) \in Nat \ {0}
         /\ Cardinality(Rest(s)) = Cardinality(s) - 1
<1>1. Some(s) \in s
  BY DEF Some
<1>2. QED
  BY <1>1, FS_RemoveElement, FS_CardinalityType, FS_EmptySet DEF Rest

Small(S, n) == {s \in SUBSET S : Cardinality(s) <= n}

LEMMA AddsExist ==
  ASSUME NEW f, NEW S, IsFiniteSet(S)
  PROVE  \E g : Adds(f, SUBSET S, g)
<1> DEFINE B == {n \in Nat : ~ \E g : Adds(f, Small(S, n), g)}
<1>1. \A s \in SUBSET S : IsFiniteSet(s) /\ Cardinality(s) \in Nat /\ Cardinality(s) <= Cardinality(S)
  BY FS_Subset, FS_CardinalityType
<1>2. Small(S, Cardinality(S)) = SUBSET S /\ Cardinality(S) \in Nat
  BY <1>1 DEF Small
<1>3. SUFFICES B = {}
  <2>1. B = {} => \E g : Adds(f, Small(S, Cardinality(S)), g)
    BY <1>2
  <2>2. QED
    BY <1>2, <2>1
<1>4. SUFFICES ASSUME B # {} PROVE FALSE
  OBVIOUS
<1>5. PICK m \in B : \A n \in B : m <= n
  BY <1>4, LeastNat
<1>6. CASE m = 0
  <2>1. \A s \in Small(S, 0) : s = {}
    BY <1>1, FS_EmptySet DEF Small
  <2>2. Adds(f, Small(S, 0), [s \in Small(S, 0) |-> 0])
    BY <2>1 DEF Adds
  <2>3. QED
    BY <1>5, <1>6, <2>2
<1>7. CASE m # 0
  <2>1. m - 1 \in Nat /\ m - 1 \notin B
    BY <1>5, <1>7
  <2>2. PICK h : Adds(f, Small(S, m - 1), h)
    BY <2>1
  <2> DEFINE g == [s \in Small(S, m) |-> IF s = {} THEN 0 ELSE f[Some(s)] + h[Rest(s)]]
  <2>3. ASSUME NEW s \in Small(S, m), s # {} PROVE g[Rest(s)] = h[Rest(s)]
    <3>1. Rest(s) \in Small(S, m - 1) /\ Rest(s) \in Small(S, m)
      BY <1>1, <1>5, <2>3, RestSmaller DEF Small
    <3>2. h[Rest(s)] = IF Rest(s) = {} THEN 0 ELSE f[Some(Rest(s))] + h[Rest(Rest(s))]
      BY <2>2, <3>1 DEF Adds
    <3>3. QED
      BY <3>1, <3>2
  <2>4. Adds(f, Small(S, m), g)
    BY <2>3 DEF Adds
  <2>5. QED
    BY <1>5, <2>4
<1>8. QED
  BY <1>6, <1>7

\* The sum over a part does not depend on the whole it is part of.
LEMMA AddsUnique ==
  ASSUME NEW f, NEW S, IsFiniteSet(S), NEW T \in SUBSET S, NEW g, NEW h,
         Adds(f, SUBSET S, g), Adds(f, SUBSET T, h)
  PROVE  g[T] = h[T]
<1> DEFINE D == {U \in SUBSET T : g[U] # h[U]}
           B == {Cardinality(U) : U \in D}
<1>1. \A s \in SUBSET T : IsFiniteSet(s) /\ Cardinality(s) \in Nat
  BY FS_Subset, FS_CardinalityType
<1>2. SUFFICES ASSUME D # {} PROVE FALSE
  OBVIOUS
<1>3. B \in SUBSET Nat /\ B # {}
  BY <1>1, <1>2
<1>4. PICK m \in B : \A n \in B : m <= n
  BY <1>3, LeastNat
<1>5. PICK U \in D : Cardinality(U) = m
  BY <1>4
<1>6. /\ g[U] = IF U = {} THEN 0 ELSE f[Some(U)] + g[Rest(U)]
      /\ h[U] = IF U = {} THEN 0 ELSE f[Some(U)] + h[Rest(U)]
  BY <1>5 DEF Adds
<1>7. U # {}
  BY <1>5, <1>6
<1>8. Rest(U) \in SUBSET T /\ Cardinality(Rest(U)) = m - 1 /\ m \in Nat
  BY <1>1, <1>5, <1>7, RestSmaller
<1>9. Rest(U) \notin D
  BY <1>4, <1>8
<1>10. QED
  BY <1>5, <1>6, <1>7, <1>8, <1>9

LEMMA SumStep ==
  ASSUME NEW f, NEW S, IsFiniteSet(S)
  PROVE  SumFunctionOnSet(f, S) =
           IF S = {} THEN 0 ELSE f[Some(S)] + SumFunctionOnSet(f, Rest(S))
<1> DEFINE g == CHOOSE g : Adds(f, SUBSET S, g)
           h == CHOOSE h : Adds(f, SUBSET Rest(S), h)
<1>1. Adds(f, SUBSET S, g)
  BY AddsExist
<1>2. Rest(S) \in SUBSET S /\ IsFiniteSet(Rest(S))
  BY FS_Subset DEF Rest
<1>3. Adds(f, SUBSET Rest(S), h)
  BY <1>2, AddsExist
<1>4. SumFunctionOnSet(f, S) = g[S] /\ SumFunctionOnSet(f, Rest(S)) = h[Rest(S)]
  BY SumIs
<1> HIDE DEF g, h
<1>5. g[S] = IF S = {} THEN 0 ELSE f[Some(S)] + g[Rest(S)]
  BY <1>1 DEF Adds
<1>6. g[Rest(S)] = h[Rest(S)]
  BY <1>1, <1>2, <1>3, AddsUnique
<1>7. QED
  BY <1>4, <1>5, <1>6

\* The sum of amounts is an amount, and does not depend on the order.
LEMMA SumOfNats ==
  ASSUME NEW S, IsFiniteSet(S), NEW f, \A x \in S : f[x] \in Nat
  PROVE  /\ SumFunctionOnSet(f, S) \in Nat
         /\ \A x \in S : SumFunctionOnSet(f, S) = f[x] + SumFunctionOnSet(f, S \ {x})
<1> DEFINE Fine(U) == /\ SumFunctionOnSet(f, U) \in Nat
                      /\ \A x \in U : SumFunctionOnSet(f, U) = f[x] + SumFunctionOnSet(f, U \ {x})
           D == {U \in SUBSET S : ~Fine(U)}
           B == {Cardinality(U) : U \in D}
<1>1. \A s \in SUBSET S : IsFiniteSet(s) /\ Cardinality(s) \in Nat
  BY FS_Subset, FS_CardinalityType
<1>2. SUFFICES ASSUME D # {} PROVE FALSE
  OBVIOUS
<1>3. B \in SUBSET Nat /\ B # {}
  BY <1>1, <1>2
<1>4. PICK m \in B : \A n \in B : m <= n
  BY <1>3, LeastNat
<1>5. PICK U \in D : Cardinality(U) = m
  BY <1>4
<1> DEFINE y == Some(U)
           V == Rest(U)
<1>6. SumFunctionOnSet(f, U) = IF U = {} THEN 0 ELSE f[y] + SumFunctionOnSet(f, V)
  BY <1>1, <1>5, SumStep
<1>7. U # {}
  BY <1>5, <1>6
<1>8. y \in U /\ V = U \ {y} /\ V \in SUBSET S
  BY <1>1, <1>5, <1>7, RestSmaller DEF Rest
<1>9. \A W \in SUBSET S : Cardinality(W) < m => Fine(W)
  <2>1. ASSUME NEW W \in SUBSET S, Cardinality(W) < m, ~Fine(W) PROVE FALSE
    <3>1. W \in D
      BY <2>1
    <3>2. Cardinality(W) \in B
      BY <3>1
    <3>3. Cardinality(W) \in Nat /\ m \in Nat
      BY <1>1, <1>3, <1>4
    <3>4. QED
      BY <1>4, <2>1, <3>2, <3>3
  <2>2. QED
    BY <2>1
<1>10. \A x \in U : U \ {x} \in SUBSET S /\ Cardinality(U \ {x}) = m - 1 /\ m \in Nat
  BY <1>1, <1>5, FS_RemoveElement
<1>11. \A x \in U : Fine(U \ {x})
  <2>1. \A x \in U : Cardinality(U \ {x}) < m
    BY <1>10
  <2> HIDE DEF Fine
  <2>2. QED
    BY <1>9, <1>10, <2>1
<1>12. SumFunctionOnSet(f, U) \in Nat
  BY <1>6, <1>7, <1>8, <1>11
<1>13. ASSUME NEW x \in U
       PROVE  SumFunctionOnSet(f, U) = f[x] + SumFunctionOnSet(f, U \ {x})
  <2>1. CASE x = y
    BY <1>6, <1>7, <1>8, <2>1
  <2>2. CASE x # y
    <3>1. x \in V /\ y \in U \ {x} /\ V \ {x} = (U \ {x}) \ {y} /\ f[x] \in Nat /\ f[y] \in Nat
      BY <1>8, <2>2
    <3>2. SumFunctionOnSet(f, V) = f[x] + SumFunctionOnSet(f, V \ {x})
      BY <1>8, <1>11, <3>1
    <3>3. SumFunctionOnSet(f, U \ {x}) = f[y] + SumFunctionOnSet(f, V \ {x})
      BY <1>11, <3>1
    <3>4. SumFunctionOnSet(f, V \ {x}) \in Nat
      <4>1. Cardinality(V \ {x}) < m /\ V \ {x} \in SUBSET S
        <5>1. Cardinality(V) = m - 1 /\ IsFiniteSet(V) /\ m \in Nat
          BY <1>1, <1>8, <1>10
        <5>2. Cardinality(V \ {x}) = Cardinality(V) - 1
          BY <3>1, <5>1, FS_RemoveElement
        <5>3. QED
          BY <1>8, <5>1, <5>2
      <4>2. QED
        BY <1>9, <4>1
    <3>5. QED
      BY <1>6, <1>7, <3>1, <3>2, <3>3, <3>4
  <2>3. QED
    BY <2>1, <2>2
<1>14. QED
  BY <1>5, <1>12, <1>13

\* Functions that agree on a set have the same sum over it.
LEMMA SumSame ==
  ASSUME NEW S, IsFiniteSet(S), NEW f, NEW h, \A x \in S : f[x] = h[x]
  PROVE  SumFunctionOnSet(f, S) = SumFunctionOnSet(h, S)
<1> DEFINE D == {U \in SUBSET S : SumFunctionOnSet(f, U) # SumFunctionOnSet(h, U)}
           B == {Cardinality(U) : U \in D}
<1>1. \A s \in SUBSET S : IsFiniteSet(s) /\ Cardinality(s) \in Nat
  BY FS_Subset, FS_CardinalityType
<1>2. SUFFICES ASSUME D # {} PROVE FALSE
  OBVIOUS
<1>3. B \in SUBSET Nat /\ B # {}
  BY <1>1, <1>2
<1>4. PICK m \in B : \A n \in B : m <= n
  BY <1>3, LeastNat
<1>5. PICK U \in D : Cardinality(U) = m
  BY <1>4
<1>6. /\ SumFunctionOnSet(f, U) = IF U = {} THEN 0 ELSE f[Some(U)] + SumFunctionOnSet(f, Rest(U))
      /\ SumFunctionOnSet(h, U) = IF U = {} THEN 0 ELSE h[Some(U)] + SumFunctionOnSet(h, Rest(U))
  BY <1>1, <1>5, SumStep
<1>7. U # {}
  BY <1>5, <1>6
<1>8. Some(U) \in S /\ Rest(U) \in SUBSET S /\ Cardinality(Rest(U)) = m - 1 /\ m \in Nat
  BY <1>1, <1>5, <1>7, RestSmaller
<1>9. Rest(U) \notin D
  BY <1>4, <1>8
<1>10. QED
  BY <1>5, <1>6, <1>7, <1>8, <1>9

-----------------------------------------------------------------------------
(* The waterfall *)

\* Rounding to a tier.
LEMMA Quotient ==
  ASSUME NEW n \in Nat, NEW d \in Nat \ {0}
  PROVE  n \div d \in Nat /\ (n \div d) * d <= n /\ n < (n \div d) * d + d
OBVIOUS

LEMMA Rounding ==
  ASSUME NEW n \in Nat
  PROVE  RoundDown(n) \in Nat /\ RoundDown(n) <= n
BY Quotient, TierAssumption DEF RoundDown

LEMMA MinTierSound ==
  ASSUME NEW campaign \in Terms, campaign.target_cpa > 0
  PROVE  MinTier(campaign) \in Nat \ {0}
<1>1. campaign.target_cpa \in Nat \ {0} /\ TierIncrement \in Nat \ {0}
  BY TierAssumption DEF Terms
<1>2. campaign.target_cpa + TierIncrement - 1 \in Nat /\ campaign.target_cpa + TierIncrement - 1 >= TierIncrement
  BY <1>1
<1> DEFINE n == campaign.target_cpa + TierIncrement - 1
<1>3. n \div TierIncrement \in Nat \ {0}
  <2>1. n \div TierIncrement \in Nat /\ n < (n \div TierIncrement) * TierIncrement + TierIncrement
    BY <1>1, <1>2, Quotient
  <2>2. n \div TierIncrement # 0
    BY <1>1, <1>2, <2>1
  <2>3. QED
    BY <2>1, <2>2
<1>4. \A k \in Nat \ {0}, d \in Nat \ {0} : k * d \in Nat \ {0}
  OBVIOUS
<1>5. QED
  BY <1>1, <1>3, <1>4 DEF MinTier, RoundUp, RoundDown

LEMMA TierOfSound ==
  ASSUME NEW campaign \in Terms, campaign.target_cpa > 0, NEW fair \in Nat,
         NEW talent \in TalentTerms
  PROVE  TierOf(campaign, fair, talent) \in Nat /\ TierOf(campaign, fair, talent) <= fair
<1> DEFINE demand == DemandTier(CategoryPDC(talent.category), campaign)
           natural == GreaterOf(demand, MinTier(campaign))
           shared == LesserOf(natural, fair)
<1>1. demand \in Int
  <2>1. CategoryPDC(talent.category) \in Int
    BY DEF CategoryPDC
  <2>2. \A a, b, c \in Int : (a * b) * c \in Int
    OBVIOUS
  <2>3. \A n \in Int : RoundDown(n) \in Int
    BY TierAssumption DEF RoundDown
  <2>4. QED
    BY <2>1, <2>2, <2>3 DEF DemandTier, Terms
<1>2. natural \in Nat
  BY <1>1, MinTierSound DEF GreaterOf
<1>3. shared \in Nat /\ shared <= fair
  BY <1>2 DEF LesserOf
<1>4. talent.max_tier \in Int
  BY DEF TalentTerms
<1>5. TierOf(campaign, fair, talent) = IF talent.max_tier > 0 /\ shared > talent.max_tier
        THEN RoundDown(talent.max_tier) ELSE shared
  BY DEF TierOf
<1> HIDE DEF shared
<1>6. CASE talent.max_tier > 0 /\ shared > talent.max_tier
  BY <1>3, <1>4, <1>5, <1>6, Rounding
<1>7. CASE ~(talent.max_tier > 0 /\ shared > talent.max_tier)
  BY <1>3, <1>5, <1>7
<1>8. QED
  BY <1>6, <1>7

\* The loop of the waterfall is defined for every list of talents.
Turns(campaign, fair, capacity, talents, S, g) ==
  g = [n \in S |-> IF n = 0 THEN NoSlots("")
                   ELSE AddSlot(campaign, fair, capacity, g[n - 1], talents[n])]

LEMMA TurnsExist ==
  ASSUME NEW campaign, NEW fair, NEW capacity, NEW talents, NEW N \in Nat
  PROVE  \E g : Turns(campaign, fair, capacity, talents, 0 .. N, g)
<1> DEFINE B == {n \in Nat : ~ \E g : Turns(campaign, fair, capacity, talents, 0 .. n, g)}
<1>1. SUFFICES ASSUME B # {} PROVE FALSE
  OBVIOUS
<1>2. PICK m \in B : \A n \in B : m <= n
  BY <1>1, LeastNat
<1>3. CASE m = 0
  <2> DEFINE g == [n \in 0 .. 0 |-> NoSlots("")]
  <2>1. Turns(campaign, fair, capacity, talents, 0 .. 0, g)
    <3>1. \A n \in 0 .. 0 : n = 0
      OBVIOUS
    <3>2. QED
      BY <3>1 DEF Turns
  <2>2. QED
    BY <1>2, <1>3, <2>1
<1>4. CASE m # 0
  <2>1. m - 1 \in Nat /\ m - 1 \notin B
    BY <1>2, <1>4
  <2>2. PICK h : Turns(campaign, fair, capacity, talents, 0 .. (m - 1), h)
    BY <2>1
  <2> DEFINE g == [n \in 0 .. m |-> IF n = 0 THEN NoSlots("")
                     ELSE AddSlot(campaign, fair, capacity, h[n - 1], talents[n])]
  <2>3. m \in Nat /\ 0 .. (m - 1) \subseteq 0 .. m /\ \A n \in 0 .. m : n # 0 => n - 1 \in 0 .. (m - 1)
    BY <2>1
  <2>4. ASSUME NEW n \in 0 .. m, n # 0 PROVE g[n - 1] = h[n - 1]
    <3>1. n - 1 \in 0 .. (m - 1) /\ n - 1 \in 0 .. m
      BY <2>3, <2>4
    <3>2. h[n - 1] = IF n - 1 = 0 THEN NoSlots("")
                     ELSE AddSlot(campaign, fair, capacity, h[(n - 1) - 1], talents[n - 1])
      BY <2>2, <3>1 DEF Turns
    <3>3. QED
      BY <3>1, <3>2
  <2>5. Turns(campaign, fair, capacity, talents, 0 .. m, g)
    BY <2>4 DEF Turns
  <2>6. QED
    BY <1>2, <2>5
<1>5. QED
  BY <1>3, <1>4

LEMMA AfterTurnsIs ==
  ASSUME NEW campaign, NEW fair, NEW capacity, NEW talents, Len(talents) \in Nat
  PROVE  Turns(campaign, fair, capacity, talents, 0 .. Len(talents),
               AfterTurns(campaign, fair, capacity, talents))
<1>1. AfterTurns(campaign, fair, capacity, talents) =
        CHOOSE g : Turns(campaign, fair, capacity, talents, 0 .. Len(talents), g)
  BY DEF AfterTurns, Turns
<1>2. QED
  BY <1>1, TurnsExist

\* What the loop keeps: no more slots than the capacity, none above the fair share.
Within(result, fair, capacity) ==
  /\ result \in [slots : Seq(SlotTerms), error : Errors]
  /\ Len(result.slots) <= capacity
  /\ \A i \in 1 .. Len(result.slots) : result.slots[i].tier <= fair

LEMMA NoSlotsWithin ==
  ASSUME NEW error \in Errors, NEW fair \in Nat, NEW capacity \in Nat
  PROVE  Within(NoSlots(error), fair, capacity)
<1>1. <<>> \in Seq(SlotTerms) /\ Len(<<>>) = 0
  OBVIOUS
<1>2. QED
  BY <1>1 DEF Within, NoSlots

LEMMA AddSlotKeeps ==
  ASSUME NEW campaign \in Terms, campaign.target_cpa > 0, NEW fair \in Nat, NEW capacity \in Nat,
         NEW talent \in TalentTerms, NEW result, Within(result, fair, capacity)
  PROVE  Within(AddSlot(campaign, fair, capacity, result, talent), fair, capacity)
<1> DEFINE tier == TierOf(campaign, fair, talent)
           index == NextIndex(result.slots, tier)
           rec == [tier |-> tier, index |-> index]
           more == [result EXCEPT !.slots = Append(result.slots, rec)]
           ended == talent.status # "active" \/ result.error # "" \/ Len(result.slots) = capacity
<1>1. tier \in Nat /\ tier <= fair
  BY TierOfSound
<1>2. MinTier(campaign) \in Nat /\ MaxTierValue \in Nat
  BY MinTierSound, TierAssumption
<1>3. result.slots \in Seq(SlotTerms) /\ Len(result.slots) \in Nat /\ DOMAIN result.slots = 1 .. Len(result.slots)
  BY DEF Within
<1>4. index \in Nat
  <2>1. IsFiniteSet(DOMAIN result.slots)
    <3> DEFINE l == Len(result.slots)
    <3>1. l \in Int /\ 1 \in Int /\ DOMAIN result.slots = 1 .. l
      BY <1>3
    <3> HIDE DEF l
    <3>2. IsFiniteSet(1 .. l)
      BY <3>1, FS_Interval
    <3>3. QED
      BY <3>1, <3>2
  <2>2. IsFiniteSet({i \in DOMAIN result.slots : result.slots[i].tier = tier})
    BY <2>1, FS_Subset
  <2>3. QED
    BY <2>2, FS_CardinalityType DEF NextIndex
<1>5. AddSlot(campaign, fair, capacity, result, talent) =
        IF ended THEN result
        ELSE IF tier > MaxTierValue THEN NoSlots("tier_value_exceeds_supported_range")
        ELSE IF tier < MinTier(campaign) THEN result ELSE more
  BY DEF AddSlot
<1> HIDE DEF index, tier
<1>6. Len(result.slots) # capacity => Within(more, fair, capacity)
  <2>1. rec \in SlotTerms /\ rec.tier <= fair
    BY <1>1, <1>4 DEF SlotTerms
  <2> HIDE DEF rec
  <2>2. ASSUME Len(result.slots) # capacity PROVE Within(more, fair, capacity)
    <3> DEFINE longer == Append(result.slots, rec)
    <3>1. longer \in Seq(SlotTerms) /\ Len(longer) = Len(result.slots) + 1
      BY <1>3, <2>1
    <3>2. \A i \in 1 .. Len(longer) : longer[i].tier <= fair
      BY <1>3, <2>1 DEF Within
    <3>3. Len(longer) <= capacity
      BY <1>3, <2>2, <3>1 DEF Within
    <3> HIDE DEF longer
    <3>4. more.slots = longer /\ more \in [slots : Seq(SlotTerms), error : Errors]
      BY <3>1 DEF Within, longer
    <3>5. QED
      BY <3>2, <3>3, <3>4 DEF Within
  <2>3. QED
    BY <2>2
<1>7. Within(NoSlots("tier_value_exceeds_supported_range"), fair, capacity)
  <2>1. "tier_value_exceeds_supported_range" \in Errors
    BY DEF Errors
  <2>2. QED
    BY <2>1, NoSlotsWithin
<1>11. ~ended => Len(result.slots) # capacity
  OBVIOUS
<1> HIDE DEF more, ended
<1>8. CASE ended
  BY <1>5, <1>8
<1>9. CASE ~ended
  <2>1. CASE tier > MaxTierValue
    BY <1>5, <1>7, <1>9, <2>1
  <2>2. CASE ~(tier > MaxTierValue) /\ tier < MinTier(campaign)
    BY <1>5, <1>9, <2>2
  <2>3. CASE ~(tier > MaxTierValue) /\ ~(tier < MinTier(campaign))
    BY <1>5, <1>6, <1>9, <1>11, <2>3
  <2>4. QED
    BY <2>1, <2>2, <2>3
<1>10. QED
  BY <1>8, <1>9

LEMMA LoopWithin ==
  ASSUME NEW campaign \in Terms, campaign.target_cpa > 0, NEW fair \in Nat, NEW capacity \in Nat,
         NEW talents \in Seq(TalentTerms)
  PROVE  Within(AfterTurns(campaign, fair, capacity, talents)[Len(talents)], fair, capacity)
<1> DEFINE g == AfterTurns(campaign, fair, capacity, talents)
           B == {n \in 0 .. Len(talents) : ~Within(g[n], fair, capacity)}
<1>1. Len(talents) \in Nat /\ \A n \in 1 .. Len(talents) : talents[n] \in TalentTerms
  OBVIOUS
<1>2. Turns(campaign, fair, capacity, talents, 0 .. Len(talents), g)
  BY <1>1, AfterTurnsIs
<1> HIDE DEF g
<1>3. SUFFICES B = {}
  BY <1>1 DEF g
<1>4. SUFFICES ASSUME B # {} PROVE FALSE
  OBVIOUS
<1>5. PICK m \in B : \A n \in B : m <= n
  <2>1. B \in SUBSET Nat
    BY <1>1
  <2>2. QED
    BY <1>4, <2>1, LeastNat
<1>6. CASE m = 0
  <2>1. 0 \in 0 .. Len(talents) /\ "" \in Errors
    BY <1>1 DEF Errors
  <2>2. g[0] = NoSlots("")
    BY <1>2, <2>1 DEF Turns
  <2>3. QED
    BY <1>5, <1>6, <2>1, <2>2, NoSlotsWithin
<1>7. CASE m # 0
  <2>1. m - 1 \in 0 .. Len(talents) /\ m \in 1 .. Len(talents) /\ m - 1 \notin B
    BY <1>1, <1>5, <1>7
  <2>2. Within(g[m - 1], fair, capacity)
    BY <2>1
  <2>3. g[m] = AddSlot(campaign, fair, capacity, g[m - 1], talents[m])
    BY <1>2, <1>5, <1>7 DEF Turns
  <2>4. Within(g[m], fair, capacity)
    BY <1>1, <2>1, <2>2, <2>3, AddSlotKeeps
  <2>5. QED
    BY <1>5, <2>4
<1>8. QED
  BY <1>6, <1>7

\* The waterfall makes at most as many slots as each can have the fair share
\* of the budget, and none of them is larger than that share.
LEMMA WaterfallWithin ==
  ASSUME NEW campaign \in Terms, NEW budget \in Nat, NEW talents \in Seq(TalentTerms)
  PROVE  \E fair \in Nat, capacity \in Nat :
           capacity * fair <= budget /\ Within(BuildBudgetSlots(campaign, budget, talents), fair, capacity)
<1> DEFINE active == ActiveTalents(talents)
           capacity == Capacity(campaign, budget, active)
           fair == FairBudget(campaign, budget, active)
<1>1. BuildBudgetSlots(campaign, budget, talents) =
        IF active = {} THEN NoSlots("")
        ELSE IF ~ValidCycle(campaign, budget) THEN NoSlots("invalid_cycle")
        ELSE IF capacity = 0 THEN NoSlots("cycle_budget_below_target_cpa")
        ELSE AfterTurns(campaign, fair, capacity, talents)[Len(talents)]
  BY DEF BuildBudgetSlots
<1>2. 0 * 0 <= budget /\ 0 \in Nat /\ \A error \in Errors : Within(NoSlots(error), 0, 0)
  <2>1. 0 \in Nat /\ 0 * 0 <= budget
    OBVIOUS
  <2>2. QED
    BY <2>1, NoSlotsWithin
<1>3. CASE active = {} \/ ~ValidCycle(campaign, budget) \/ capacity = 0
  <2> HIDE DEF active, capacity, fair
  <2>1. \E error \in Errors : BuildBudgetSlots(campaign, budget, talents) = NoSlots(error)
    <3>1. "" \in Errors /\ "invalid_cycle" \in Errors /\ "cycle_budget_below_target_cpa" \in Errors
      BY DEF Errors
    <3>2. CASE active = {}
      BY <1>1, <3>1, <3>2
    <3>3. CASE active # {} /\ ~ValidCycle(campaign, budget)
      BY <1>1, <3>1, <3>3
    <3>4. CASE active # {} /\ ValidCycle(campaign, budget) /\ capacity = 0
      BY <1>1, <3>1, <3>4
    <3>5. QED
      BY <1>3, <3>2, <3>3, <3>4
  <2>2. QED
    BY <1>2, <2>1
<1>4. CASE ~(active = {} \/ ~ValidCycle(campaign, budget) \/ capacity = 0)
  <2>1. campaign.target_cpa > 0
    BY <1>4 DEF ValidCycle
  <2>2. MinTier(campaign) \in Nat \ {0}
    BY <2>1, MinTierSound
  <2>3. Cardinality(active) \in Nat
    <3>1. IsFiniteSet(DOMAIN talents)
      <4>1. DOMAIN talents = 1 .. Len(talents) /\ Len(talents) \in Nat
        OBVIOUS
      <4>2. QED
        BY <4>1, FS_Interval
    <3>2. QED
      BY <3>1, FS_Subset, FS_CardinalityType DEF ActiveTalents
  <2>4. capacity \in Nat \ {0}
    <3>1. budget \div MinTier(campaign) \in Nat
      BY <2>2, Quotient
    <3>2. capacity \in Nat
      BY <2>3, <3>1 DEF Capacity, LesserOf
    <3>3. QED
      BY <1>4, <3>2
  <2>5. fair \in Nat /\ fair <= budget \div capacity
    <3> HIDE DEF capacity
    <3>1. budget \div capacity \in Nat
      BY <2>4, Quotient
    <3>2. fair = RoundDown(budget \div capacity)
      BY DEF FairBudget, capacity
    <3>3. QED
      BY <3>1, <3>2, Rounding
  <2>6. capacity * fair <= budget
    <3> HIDE DEF fair, capacity
    <3>1. budget \div capacity \in Nat /\ (budget \div capacity) * capacity <= budget
      BY <2>4, Quotient
    <3>2. \A a, b, c \in Nat : a <= b => c * a <= b * c
      OBVIOUS
    <3>3. \A a, b, c, d \in Nat : a <= b /\ b * c <= d => c * a <= d
      BY <3>2
    <3>4. QED
      BY <2>4, <2>5, <3>1, <3>3
  <2>7. Within(AfterTurns(campaign, fair, capacity, talents)[Len(talents)], fair, capacity)
    <3> HIDE DEF fair, capacity
    <3>1. QED
      BY <2>1, <2>4, <2>5, LoopWithin
  <2>8. BuildBudgetSlots(campaign, budget, talents) = AfterTurns(campaign, fair, capacity, talents)[Len(talents)]
    <3> HIDE DEF fair, capacity, active
    <3>1. QED
      BY <1>1, <1>4
  <2> HIDE DEF fair, capacity
  <2>9. QED
    BY <2>4, <2>5, <2>6, <2>7, <2>8
<1>5. QED
  BY <1>3, <1>4

-----------------------------------------------------------------------------
(* The inductive invariant *)

\* The lists of what a call may be asked.
Pairs == Seq(Pair)
ConfirmAsk == [kind : {"confirm"}, pairs : Pairs]
Asked == AddOps \cup PatchOps \cup {SolveOp} \cup ConfirmAsk \cup {NoOp}

\* The rows a solver has still to make.
MoreSlots == Seq(SlotTerms)

AddLabels == {"check", "lookup", "list", "create_slot", "view"}
PairLabels == {"claim", "assign", "link"}
EndLabels == {"ok", "refused", "failed"}

\* Where a call is goes with what it was asked, and what it has to do with both.
CallSound(r) ==
  /\ pc[r] = "idle" => op[r] = NoOp
  /\ pc[r] \in AddLabels => op[r] \in AddOps
  /\ pc[r] \in {"solve", "regenerate"} => op[r] = SolveOp
  /\ pc[r] = "patch" => op[r] \in PatchOps
  /\ pc[r] = "create_slot" => picked[r].kind = "create"
  /\ pc[r] = "regenerate" => todo[r] \in MoreSlots /\ todo[r] # <<>>
  /\ pc[r] \in PairLabels =>
       /\ op[r] \in AddOps \cup ConfirmAsk
       /\ todo[r] \in Pairs /\ todo[r] # <<>>
       /\ \A i \in DOMAIN todo[r] : todo[r][i].slot \in DOMAIN slots

RowsTyped ==
  /\ open \in BOOLEAN
  /\ DOMAIN slots \subseteq SlotIds /\ slots \in [DOMAIN slots -> SlotRow] /\ IsFiniteSet(DOMAIN slots)
  /\ DOMAIN assignments \subseteq TalentIds /\ assignments \in [DOMAIN assignments -> AssignmentRow]
  /\ DOMAIN links \subseteq {""} /\ links \in [DOMAIN links -> TalentIds]

Labels == Running \cup EndLabels \cup {"idle"}

CallsTyped ==
  /\ pc \in [Requests -> Labels]
  /\ op \in [Requests -> Asked]
  /\ picked \in [Requests -> Picks]
  /\ todo = [r \in Requests |-> todo[r]]
  /\ \A r \in Requests : pc[r] # "regenerate" => todo[r] \in Pairs

GhostsTyped ==
  /\ fresh \subseteq Requests
  /\ raced \in BOOLEAN /\ stacked \in BOOLEAN /\ confirmed \in BOOLEAN
  /\ failures \in 0 .. MaxFailures

Typed == RowsTyped /\ CallsTyped /\ GhostsTyped

CallsSound == \A r \in Requests : CallSound(r)

\* A call makes a slot of the id <<r, 0>> once, and a solver the ids <<r, n>>
\* in the order of the waterfall.
IdSound(s) ==
  s[1] \in Requests =>
    /\ s[2] = 0 => /\ op[s[1]] \in AddOps
                   /\ pc[s[1]] \notin {"check", "lookup", "list", "create_slot"}
    /\ s[2] # 0 => /\ op[s[1]] = SolveOp
                   /\ pc[s[1]] # "solve"
                   /\ pc[s[1]] = "regenerate" => s[2] <= Len(Waterfall) - Len(todo[s[1]])

IdsSound == \A s \in DOMAIN slots : IdSound(s)

\* The rows left are the last ones of the waterfall.
RowsLeft(r) ==
  /\ Len(todo[r]) <= Len(Waterfall)
  /\ \A j \in DOMAIN todo[r] : todo[r][j] = Waterfall[Len(Waterfall) - Len(todo[r]) + j]

SolversSound == \A r \in Requests : pc[r] = "regenerate" => RowsLeft(r)

\* The talent of the first pair left holds its slot already.
Holds(e) == e.talent \in DOMAIN assignments /\ assignments[e.talent].slot = e.slot

PointsInv ==
  /\ SlotPointsBack
  /\ \A r \in Requests : pc[r] \in {"assign", "link"} => Holds(Head(todo[r]))

Stored(e) == Holds(e) /\ HasLink(e.talent)

\* How far the list of a call is stored.
Done(r) == Len(op[r].pairs) - Len(todo[r])
ListStored(r) ==
  /\ Done(r) \in Nat
  /\ \A j \in DOMAIN todo[r] : todo[r][j] = op[r].pairs[Done(r) + j]
  /\ \A i \in 1 .. Done(r) : Stored(op[r].pairs[i])

AddStored(r) ==
  /\ pc[r] \in PairLabels => Len(todo[r]) = 1 /\ todo[r][1].talent = op[r].talent
  /\ pc[r] \in {"view", "ok"} => Assigned(op[r].talent) /\ HasLink(op[r].talent)

StoredBy(r) ==
  /\ op[r] \in AddOps => AddStored(r)
  /\ op[r] \in ConfirmAsk /\ pc[r] \in PairLabels => ListStored(r)
  /\ op[r] \in ConfirmAsk /\ pc[r] = "ok" => \A i \in DOMAIN op[r].pairs : Stored(op[r].pairs[i])

StoredInv == \A r \in Requests : StoredBy(r)

Unshared == \A t, w \in DOMAIN assignments : assignments[t].slot = assignments[w].slot => t = w

\* The slot of an assignment is taken, or a call is about to take it.
TakenOrTaking ==
  \A t \in DOMAIN assignments :
    LET s == assignments[t].slot
    IN  s \in DOMAIN slots /\ (slots[s].allocated \/ \E r \in Requests : pc[r] = "assign" /\ Head(todo[r]).slot = s)

Unclaimed(s) == \A t \in DOMAIN assignments : assignments[t].slot # s

\* A call whose listing is up to date claims a slot that no talent has.
FreshUnclaimed ==
  \A r \in fresh : pc[r] = "claim" /\ op[r] \in AddOps => Unclaimed(Head(todo[r]).slot)

FreshListed ==
  \A r \in fresh : pc[r] \notin {"idle", "check", "lookup", "list", "solve", "patch"} /\ op[r] \notin ConfirmAsk

SharingInv ==
  /\ FreshListed
  /\ ~raced /\ failures = 0 /\ ~confirmed => Unshared /\ TakenOrTaking /\ FreshUnclaimed

\* While nothing overtakes a call and no solver adds to what there is.
FundingInv ==
  ~raced /\ ~stacked =>
    /\ Tiers(DOMAIN slots) <= CycleBudget
    /\ \A r \in fresh :
         /\ pc[r] = "create_slot" => Tiers(DOMAIN slots) + picked[r].tier <= CycleBudget
         /\ pc[r] = "regenerate" =>
              LET n == Len(Waterfall) - Len(todo[r])
              IN  /\ DOMAIN slots = {r} \X (1 .. n)
                  /\ \A m \in 1 .. n : slots[<<r, m>>].tier = Waterfall[m].tier

Inv ==
  /\ Typed
  /\ CallsSound
  /\ IdsSound
  /\ SolversSound
  /\ PointsInv
  /\ StoredInv
  /\ SharingInv
  /\ FundingInv

-----------------------------------------------------------------------------
(* What is asked, picked and written *)

LEMMA Pieces ==
  ASSUME NEW S, NEW s \in Seq(S), s # <<>>
  PROVE  /\ Len(s) \in Nat \ {0} /\ DOMAIN s = 1 .. Len(s)
         /\ Head(s) = s[1] /\ Head(s) \in S
         /\ Tail(s) \in Seq(S) /\ Len(Tail(s)) = Len(s) - 1
         /\ \A j \in 1 .. Len(s) - 1 : Tail(s)[j] = s[j + 1]
OBVIOUS

LEMMA SeqOfFunction ==
  ASSUME NEW S, NEW n \in Nat, NEW f \in [1 .. n -> S]
  PROVE  f \in Seq(S) /\ Len(f) = n /\ DOMAIN f = 1 .. n
OBVIOUS

LEMMA Kinds ==
  ASSUME NEW o \in Asked
  PROVE  /\ o \in AddOps <=> o.kind = "add"
         /\ o \in PatchOps <=> o.kind = "patch"
         /\ o = SolveOp <=> o.kind = "solve"
         /\ o \in ConfirmAsk <=> o.kind = "confirm"
         /\ o = NoOp <=> o.kind = "none"
<1>1. \A x \in AddOps : x.kind = "add"
  BY DEF AddOps
<1>2. \A x \in PatchOps : x.kind = "patch"
  BY DEF PatchOps
<1>3. \A x \in ConfirmAsk : x.kind = "confirm"
  BY DEF ConfirmAsk
<1>4. SolveOp.kind = "solve" /\ NoOp.kind = "none"
  BY DEF SolveOp, NoOp
<1>5. o \in AddOps \/ o \in PatchOps \/ o = SolveOp \/ o \in ConfirmAsk \/ o = NoOp
  BY DEF Asked
<1>6. QED
  BY <1>1, <1>2, <1>3, <1>4, <1>5

LEMMA ConfirmIsAsked ==
  ASSUME NEW ids \in SUBSET SlotIds, NEW o \in ConfirmOps(ids)
  PROVE  /\ o \in ConfirmAsk /\ o.pairs \in Pairs /\ o.pairs # <<>> /\ o.kind = "confirm"
         /\ \A i \in DOMAIN o.pairs : o.pairs[i].slot \in ids
<1> DEFINE P == [talent : TalentIds, slot : ids]
<1>1. PICK q \in SeqOf(P, 2) : q # <<>> /\ o = [kind |-> "confirm", pairs |-> q]
  BY DEF ConfirmOps
<1>2. PICK m \in 0 .. 2 : q \in [1 .. m -> P]
  BY <1>1 DEF SeqOf
<1>3. q \in Seq(P) /\ DOMAIN q = 1 .. m /\ m \in Nat
  <2>1. m \in Nat
    OBVIOUS
  <2>2. QED
    BY <1>2, <2>1, SeqOfFunction
<1>4. \A e \in P : e \in Pair /\ e.slot \in ids
  BY DEF Pair
<1> HIDE DEF P
<1>5. q \in Pairs /\ \A i \in DOMAIN q : q[i].slot \in ids
  <2>1. \A i \in 1 .. m : q[i] \in P
    BY <1>2
  <2>2. q \in [1 .. m -> Pair]
    BY <1>2, <1>4, <2>1
  <2>3. QED
    BY <1>3, <1>4, <2>1, <2>2, SeqOfFunction DEF Pairs
<1>6. QED
  BY <1>1, <1>5 DEF ConfirmAsk

LEMMA WaterfallTyped ==
  /\ Waterfall \in MoreSlots /\ Len(Waterfall) \in Nat /\ DOMAIN Waterfall = 1 .. Len(Waterfall)
  /\ \A m \in 1 .. Len(Waterfall) : Waterfall[m] \in SlotTerms
  /\ \E fair \in Nat, capacity \in Nat :
       /\ capacity * fair <= CycleBudget /\ Len(Waterfall) <= capacity
       /\ \A m \in 1 .. Len(Waterfall) : Waterfall[m].tier <= fair
<1>1. PICK fair \in Nat, capacity \in Nat :
        /\ capacity * fair <= CycleBudget
        /\ Within(BuildBudgetSlots(CampaignTerms, CycleBudget, Talents), fair, capacity)
  BY AssignmentAssumption, WaterfallWithin
<1>2. Waterfall \in MoreSlots /\ Len(Waterfall) <= capacity
      /\ \A m \in 1 .. Len(Waterfall) : Waterfall[m].tier <= fair
  BY <1>1 DEF Within, Waterfall, MoreSlots
<1>3. Len(Waterfall) \in Nat /\ DOMAIN Waterfall = 1 .. Len(Waterfall)
      /\ \A m \in 1 .. Len(Waterfall) : Waterfall[m] \in SlotTerms
  BY <1>2 DEF MoreSlots
<1>4. QED
  BY <1>1, <1>2, <1>3

\* The greatest of some bounded numbers.
LEMMA Greatest ==
  ASSUME NEW S, S # {}, S \subseteq Nat, NEW bound \in Nat, \A x \in S : x <= bound
  PROVE  Max(S) \in S
<1> DEFINE B == {n \in Nat : \A x \in S : x <= n}
<1>3. bound \in B
  OBVIOUS
<1>4. PICK m \in B : \A n \in B : m <= n
  BY <1>3, LeastNat
<1>5. m \in S
  <2>1. SUFFICES ASSUME m \notin S PROVE FALSE
    OBVIOUS
  <2>2. \A x \in S : x \in Nat /\ x <= m /\ x # m
    BY <1>4, <2>1
  <2>3. m # 0
    <3>1. PICK x \in S : TRUE
      OBVIOUS
    <3>2. x \in Nat /\ x <= m /\ x # m
      BY <2>2
    <3>3. QED
      BY <3>2
  <2>4. m - 1 \in Nat /\ \A x \in S : x <= m - 1
    BY <1>4, <2>2, <2>3
  <2>5. QED
    BY <1>4, <2>4
<1>6. \E x \in S : \A y \in S : x >= y
  BY <1>4, <1>5
<1>7. QED
  BY <1>6 DEF Max

\* The first of finitely many slots.
LEMMA FirstIsOne ==
  ASSUME slots \in [DOMAIN slots -> SlotRow], NEW ids \in SUBSET DOMAIN slots, ids # {}
  PROVE  FirstSlot(ids) \in ids
<1>1. \A s \in ids : slots[s].tier \in Nat /\ slots[s].index \in Nat
  BY DEF SlotRow
<1> DEFINE T == {slots[s].tier : s \in ids}
<1>2. PICK m \in T : \A n \in T : m <= n
  <2>1. T \in SUBSET Nat /\ T # {}
    BY <1>1
  <2>2. QED
    BY <2>1, LeastNat
<1> DEFINE least == {s \in ids : slots[s].tier = m}
           I == {slots[s].index : s \in least}
<1>3. PICK k \in I : \A n \in I : k <= n
  <2>1. I \in SUBSET Nat /\ I # {}
    BY <1>1, <1>2
  <2>2. QED
    BY <2>1, LeastNat
<1>4. PICK s \in least : slots[s].index = k
  BY <1>3
<1>5. \A w \in ids : slots[s].tier <= slots[w].tier /\ (slots[s].tier = slots[w].tier => slots[s].index <= slots[w].index)
  BY <1>1, <1>2, <1>3, <1>4
<1>6. \A w \in ids : \/ slots[s].tier < slots[w].tier
                     \/ slots[s].tier = slots[w].tier /\ slots[s].index <= slots[w].index
  BY <1>1, <1>4, <1>5
<1>7. QED
  BY <1>4, <1>6 DEF FirstSlot

LEMMA NextIndexTyped ==
  ASSUME slots \in [DOMAIN slots -> SlotRow], IsFiniteSet(DOMAIN slots), NEW tier
  PROVE  NextIndexOf(tier) \in Nat
<1> DEFINE ids == {w \in DOMAIN slots : slots[w].tier = tier}
           nums == {slots[s].index : s \in ids}
           f == [s \in DOMAIN slots |-> slots[s].index]
           sum == SumFunctionOnSet(f, DOMAIN slots)
<1>1. nums \subseteq Nat /\ \A s \in DOMAIN slots : f[s] \in Nat
  BY DEF SlotRow
<1>2. sum \in Nat /\ \A s \in DOMAIN slots : f[s] <= sum
  <2>1. \A s \in DOMAIN slots : IsFiniteSet(DOMAIN slots \ {s})
    BY FS_RemoveElement
  <2> HIDE DEF f
  <2>2. \A s \in DOMAIN slots : SumFunctionOnSet(f, DOMAIN slots \ {s}) \in Nat
    BY <1>1, <2>1, SumOfNats
  <2>3. sum \in Nat /\ \A s \in DOMAIN slots : sum = f[s] + SumFunctionOnSet(f, DOMAIN slots \ {s})
    BY <1>1, SumOfNats
  <2> HIDE DEF sum
  <2>4. ASSUME NEW s \in DOMAIN slots PROVE f[s] <= sum
    <3>1. f[s] \in Nat /\ SumFunctionOnSet(f, DOMAIN slots \ {s}) \in Nat
      BY <1>1, <2>2
    <3>2. sum = f[s] + SumFunctionOnSet(f, DOMAIN slots \ {s})
      BY <2>3
    <3>3. QED
      BY <3>1, <3>2
  <2>5. QED
    BY <2>3, <2>4
<1>3. nums # {} => Max(nums) \in Nat
  <2>1. \A n \in nums : n <= sum
    BY <1>2
  <2> HIDE DEF sum, nums
  <2>2. QED
    BY <1>1, <1>2, <2>1, Greatest
<1>4. NextIndexOf(tier) = IF nums = {} THEN 0 ELSE Max(nums) + 1
  BY DEF NextIndexOf
<1> HIDE DEF nums
<1>5. QED
  BY <1>3, <1>4

LEMMA NormalTyped ==
  ASSUME NEW tier \in AskedTiers
  PROVE  NormalizeTier(tier) \in Nat
<1>1. tier \in Nat /\ LargestTier \in Nat
  BY AssignmentAssumption
<1>2. QED
  BY <1>1, Rounding DEF NormalizeTier, LesserOf

\* What pickOrCreateSlot returns.
LEMMA PickSound ==
  ASSUME slots \in [DOMAIN slots -> SlotRow], IsFiniteSet(DOMAIN slots), DOMAIN slots \subseteq SlotIds, NEW tier \in Nat
  PROVE  /\ Pick(tier) \in Picks
         /\ Pick(tier).kind \in {"take", "create", "none"}
         /\ Pick(tier).kind = "take" => Pick(tier).slot \in DOMAIN slots /\ ~slots[Pick(tier).slot].allocated
         /\ Pick(tier).kind = "create" => Pick(tier).tier = tier /\ Tiers(DOMAIN slots) + tier <= CycleBudget
<1> DEFINE free == {s \in DOMAIN slots : ~slots[s].allocated}
           exact == {s \in free : slots[s].tier = tier}
           room == Tiers(DOMAIN slots) + tier <= CycleBudget
           take(s) == [kind |-> "take", slot |-> s]
           new == [kind |-> "create", tier |-> tier, index |-> NextIndexOf(tier)]
<1>1. Pick(tier) = CASE exact # {} -> take(FirstSlot(exact))
                     [] exact = {} /\ room -> new
                     [] exact = {} /\ ~room /\ free # {} -> take(FirstSlot(free))
                     [] OTHER -> NoPick
  BY DEF Pick
<1>2. exact # {} => FirstSlot(exact) \in free
  BY FirstIsOne
<1>3. free # {} => FirstSlot(free) \in free
  BY FirstIsOne
<1>4. NextIndexOf(tier) \in Nat
  BY NextIndexTyped
<1>5. NoPick \in Picks /\ NoPick.kind = "none" /\ new \in Picks /\ new.kind = "create" /\ new.tier = tier
  BY <1>4 DEF Picks, NoPick
<1>6. ASSUME NEW s \in free PROVE take(s) \in Picks /\ take(s).kind = "take" /\ take(s).slot = s
  BY DEF Picks
<1> DEFINE e == Pick(tier)
<1>7. (\E s \in free : e = take(s)) \/ e = NoPick \/ (room /\ e = new)
  <2> HIDE DEF take, new, exact, free, room
  <2>1. CASE exact # {}
    BY <1>1, <1>2, <2>1
  <2>2. CASE exact = {} /\ room
    BY <1>1, <2>2
  <2>3. CASE exact = {} /\ ~room /\ free # {}
    BY <1>1, <1>3, <2>3
  <2>4. CASE exact = {} /\ ~room /\ free = {}
    BY <1>1, <2>4
  <2>5. QED
    BY <2>1, <2>2, <2>3, <2>4
<1> HIDE DEF e
<1>8. CASE \E s \in free : e = take(s)
  <2>1. PICK s \in free : e = take(s)
    BY <1>8
  <2>2. e \in Picks /\ e.kind = "take" /\ e.slot = s
    BY <1>6, <2>1
  <2>3. s \in DOMAIN slots /\ ~slots[s].allocated
    OBVIOUS
  <2> HIDE DEF free, take
  <2>4. QED
    BY <2>2, <2>3 DEF e
<1>9. CASE e = NoPick
  <2> HIDE DEF take, new, exact, free, room
  <2>1. QED
    BY <1>5, <1>9 DEF e
<1>10. CASE room /\ e = new
  <2>1. e \in Picks /\ e.kind = "create" /\ e.tier = tier
    <3> HIDE DEF new, room
    <3>1. QED
      BY <1>5, <1>10
  <2>2. QED
    BY <2>1, <1>10 DEF e
<1>11. QED
  <2> HIDE DEF take, new, exact, free, room
  <2>1. QED
    BY <1>7, <1>8, <1>9, <1>10

-----------------------------------------------------------------------------
(* What a step leaves alone *)

LEMMA TypedIsTypeOK == Typed => TypeOK
BY DEF Typed, RowsTyped, CallsTyped, GhostsTyped, TypeOK, Labels, EndLabels, Pairs

\* A step of r leaves the other calls alone.
Others(r) ==
  \A q \in Requests \ {r} :
    pc'[q] = pc[q] /\ op'[q] = op[q] /\ picked'[q] = picked[q] /\ todo'[q] = todo[q]

\* Slots, assignments and links stay, and an assignment keeps its slot.
Grows ==
  /\ DOMAIN slots \subseteq DOMAIN slots'
  /\ DOMAIN assignments \subseteq DOMAIN assignments'
  /\ \A t \in DOMAIN assignments : assignments'[t].slot = assignments[t].slot
  /\ \A t : HasLink(t) => HasLink(t)'

\* The calls after a step of r, which is then at the label l.
LEMMA CallMoves ==
  ASSUME CallsTyped, NEW r \in Requests, NEW l \in Labels, Goto(r, l),
         op' = op \/ (\E o \in Asked : op' = [op EXCEPT ![r] = o]),
         picked' = picked \/ (\E e \in Picks : picked' = [picked EXCEPT ![r] = e]),
         todo' = todo \/ (\E d : todo' = [todo EXCEPT ![r] = d]),
         l # "regenerate" => todo'[r] \in Pairs
  PROVE  CallsTyped' /\ Others(r) /\ pc'[r] = l
<1>1. /\ pc' \in [Requests -> Labels] /\ pc'[r] = l
      /\ \A q \in Requests \ {r} : pc'[q] = pc[q]
  BY DEF CallsTyped, Goto
<1>2. op' \in [Requests -> Asked] /\ \A q \in Requests \ {r} : op'[q] = op[q]
  BY DEF CallsTyped
<1>3. picked' \in [Requests -> Picks] /\ \A q \in Requests \ {r} : picked'[q] = picked[q]
  BY DEF CallsTyped
<1>4. todo' = [q \in Requests |-> todo'[q]] /\ \A q \in Requests \ {r} : todo'[q] = todo[q]
  <2>1. todo = [q \in Requests |-> todo[q]]
    BY DEF CallsTyped
  <2>2. CASE todo' = todo
    BY <2>1, <2>2
  <2>3. CASE \E d : todo' = [todo EXCEPT ![r] = d]
    <3>1. PICK d : todo' = [todo EXCEPT ![r] = d]
      BY <2>3
    <3>2. DOMAIN todo = Requests
      BY <2>1
    <3>3. QED
      BY <3>1, <3>2
  <2>4. QED
    BY <2>2, <2>3
<1>5. \A q \in Requests : pc'[q] # "regenerate" => todo'[q] \in Pairs
  BY <1>1, <1>4 DEF CallsTyped
<1>6. QED
  BY <1>1, <1>2, <1>3, <1>4, <1>5 DEF CallsTyped, Others

\* A row more.
LEMMA PutDoes ==
  ASSUME NEW f, NEW S, f \in [DOMAIN f -> S], NEW key, NEW value \in S
  PROVE  /\ DOMAIN Put(f, key, value) = DOMAIN f \cup {key}
         /\ Put(f, key, value) \in [DOMAIN Put(f, key, value) -> S]
         /\ Put(f, key, value)[key] = value
         /\ \A k \in DOMAIN f : k # key => Put(f, key, value)[k] = f[k]
BY DEF Put

LEMMA SlotsGrow ==
  ASSUME RowsTyped, UNCHANGED <<open, assignments, links>>,
         NEW id \in SlotIds, NEW tier \in Nat, NEW index \in Nat, slots' = Put(slots, id, FreeSlot(tier, index))
  PROVE  RowsTyped' /\ Grows
<1>1. FreeSlot(tier, index) \in SlotRow
  BY DEF FreeSlot, SlotRow
<1>2. slots \in [DOMAIN slots -> SlotRow] /\ DOMAIN slots \subseteq SlotIds /\ IsFiniteSet(DOMAIN slots)
  BY DEF RowsTyped
<1>3. DOMAIN slots' = DOMAIN slots \cup {id} /\ slots' \in [DOMAIN slots' -> SlotRow]
  <2> DEFINE new == FreeSlot(tier, index)
  <2>1. slots' = Put(slots, id, new) /\ new \in SlotRow
    BY <1>1
  <2> HIDE DEF new
  <2>2. /\ DOMAIN Put(slots, id, new) = DOMAIN slots \cup {id}
        /\ Put(slots, id, new) \in [DOMAIN Put(slots, id, new) -> SlotRow]
    BY <1>2, <2>1, SMT DEF Put
  <2>3. QED
    BY <2>1, <2>2
<1>4. IsFiniteSet(DOMAIN slots')
  BY <1>2, <1>3, FS_AddElement
<1>5. QED
  BY <1>2, <1>3, <1>4 DEF RowsTyped, Grows, HasLink

LEMMA RowsStay ==
  ASSUME RowsTyped, UNCHANGED <<slots, assignments, links>>, open' \in BOOLEAN
  PROVE  RowsTyped' /\ Grows
BY DEF RowsTyped, Grows, HasLink

LEMMA GhostsStay ==
  ASSUME GhostsTyped, UNCHANGED ghosts
  PROVE  GhostsTyped'
BY DEF GhostsTyped, ghosts

LEMMA GhostsWritten ==
  ASSUME GhostsTyped, NEW r \in Requests, Written(r) \/ Claimed(r), UNCHANGED <<stacked, failures>>, confirmed' \in BOOLEAN
  PROVE  GhostsTyped'
BY DEF GhostsTyped, Written, Claimed

-----------------------------------------------------------------------------
(* Each step keeps the types, and what it does *)

Kept(r) == Typed' /\ Others(r) /\ Grows

LEMMA LabelsListed ==
  \A l : l \in AddLabels \cup PairLabels \cup EndLabels \cup {"solve", "regenerate", "patch", "idle"} => l \in Labels
BY DEF AddLabels, PairLabels, EndLabels, Labels, Running

\* A step that only moves r to a label.
LEMMA QuietKeeps ==
  ASSUME Typed, NEW r \in Requests, NEW l \in Labels, l # "regenerate", pc[r] # "regenerate",
         Goto(r, l), UNCHANGED <<rows, op, picked, todo, ghosts>>
  PROVE  Kept(r) /\ pc'[r] = l
<1>1. UNCHANGED <<open, slots, assignments, links>>
  BY DEF rows
<1>2. todo'[r] \in Pairs
  BY DEF Typed, CallsTyped
<1>3. CallsTyped' /\ Others(r) /\ pc'[r] = l
  <2>1. op' = op /\ picked' = picked /\ todo' = todo /\ CallsTyped
    BY DEF Typed
  <2>2. QED
    BY <1>2, <2>1, CallMoves
<1>4. RowsTyped' /\ Grows
  <2>1. open' \in BOOLEAN /\ RowsTyped
    BY <1>1 DEF Typed, RowsTyped
  <2>2. QED
    BY <1>1, <2>1, RowsStay
<1>5. GhostsTyped'
  BY GhostsStay DEF Typed
<1>6. QED
  BY <1>3, <1>4, <1>5 DEF Kept, Typed

\* The label after Begin.
FirstLabel(o) ==
  CASE o.kind = "add" -> IF RoundDown(o.tier) < SmallestTier THEN "refused" ELSE "check"
    [] o.kind = "confirm" -> "claim"
    [] o.kind = "solve" -> "solve"
    [] o.kind = "patch" -> "patch"

LEMMA BeginDoes ==
  ASSUME Typed, CallsSound, NEW r \in Requests, Begin(r)
  PROVE  /\ Kept(r) /\ pc[r] = "idle" /\ op[r] = NoOp
         /\ UNCHANGED <<rows, picked, ghosts>>
         /\ \E o \in AddOps \cup PatchOps \cup {SolveOp} \cup ConfirmOps(DOMAIN slots) :
              /\ op'[r] = o
              /\ todo'[r] = IF o.kind = "confirm" THEN o.pairs ELSE <<>>
              /\ o.kind = "add" => pc'[r] \in {"refused", "check"}
              /\ o.kind = "confirm" => pc'[r] = "claim"
              /\ o.kind = "solve" => pc'[r] = "solve"
              /\ o.kind = "patch" => pc'[r] = "patch"
<1>1. PICK o \in AddOps \cup PatchOps \cup {SolveOp} \cup ConfirmOps(DOMAIN slots) :
        /\ op' = [op EXCEPT ![r] = o]
        /\ todo' = [todo EXCEPT ![r] = IF o.kind = "confirm" THEN o.pairs ELSE <<>>]
        /\ Goto(r, FirstLabel(o))
  BY DEF Begin, FirstLabel
<1>2. UNCHANGED <<rows, picked, ghosts>> /\ UNCHANGED <<open, slots, assignments, links>> /\ pc[r] = "idle"
  BY DEF Begin, rows
<1>3. DOMAIN slots \in SUBSET SlotIds
  BY DEF Typed, RowsTyped
<1>4. o \in Asked /\ (o.kind = "confirm" => o.pairs \in Pairs) /\ o.kind \in {"add", "confirm", "solve", "patch"}
  <2>1. CASE o \in AddOps \cup PatchOps \cup {SolveOp}
    <3>1. o \in Asked /\ o \notin ConfirmAsk /\ o # NoOp
      BY <2>1 DEF Asked, AddOps, PatchOps, SolveOp, ConfirmAsk, NoOp
    <3>2. o.kind \in {"add", "solve", "patch"}
      BY <2>1 DEF AddOps, PatchOps, SolveOp
    <3>3. QED
      BY <3>1, <3>2
  <2>2. CASE o \in ConfirmOps(DOMAIN slots)
    BY <1>3, <2>2, ConfirmIsAsked DEF Asked
  <2>3. QED
    BY <2>1, <2>2
<1> DEFINE l == FirstLabel(o)
           d == IF o.kind = "confirm" THEN o.pairs ELSE <<>>
<1>5. /\ o.kind = "add" => l \in {"refused", "check"}
      /\ o.kind = "confirm" => l = "claim"
      /\ o.kind = "solve" => l = "solve"
      /\ o.kind = "patch" => l = "patch"
  BY DEF FirstLabel
<1>6. l \in Labels /\ l # "regenerate"
  <2> HIDE DEF l
  <2>1. l \in {"refused", "check", "claim", "solve", "patch"}
    BY <1>4, <1>5
  <2>2. QED
    BY <2>1, LabelsListed DEF AddLabels, PairLabels, EndLabels
<1>7. d \in Pairs
  <2>1. <<>> \in Pairs
    BY DEF Pairs
  <2>2. QED
    BY <1>4, <2>1
<1>8. todo'[r] = d /\ op'[r] = o
  <2>1. DOMAIN todo = Requests /\ DOMAIN op = Requests
    BY DEF Typed, CallsTyped
  <2> HIDE DEF d, l
  <2>2. todo' = [todo EXCEPT ![r] = d]
    BY <1>1 DEF d
  <2>3. QED
    BY <1>1, <2>1, <2>2
<1>9. CallsTyped' /\ Others(r) /\ pc'[r] = l
  <2> HIDE DEF d, l
  <2>1. Goto(r, l) /\ CallsTyped /\ picked' = picked /\ todo'[r] \in Pairs
    BY <1>1, <1>2, <1>7, <1>8 DEF l, Typed
  <2>2. (\E x \in Asked : op' = [op EXCEPT ![r] = x]) /\ (\E x : todo' = [todo EXCEPT ![r] = x])
    BY <1>1, <1>4
  <2>3. QED
    BY <1>6, <2>1, <2>2, CallMoves
<1>10. RowsTyped' /\ Grows
  <2>1. open' \in BOOLEAN /\ RowsTyped
    BY <1>2 DEF Typed, RowsTyped
  <2>2. QED
    BY <1>2, <2>1, RowsStay
<1>11. GhostsTyped'
  BY <1>2, GhostsStay DEF Typed
<1>12. op[r] = NoOp
  BY <1>2 DEF CallsSound, CallSound
<1> HIDE DEF l
<1>13. QED
  BY <1>2, <1>5, <1>8, <1>9, <1>10, <1>11, <1>12 DEF Kept, Typed

\* The steps that change nothing but where r is.
Quiet(r) ==
  \/ CheckCycle(r)
  \/ LookupAssignment(r)
  \/ CreateSlotConflict(r)
  \/ CreateAssignmentConflict(r)
  \/ CreateLinkConflict(r)
  \/ View(r)

LEMMA QuietDoes ==
  ASSUME Typed, NEW r \in Requests, Quiet(r)
  PROVE  /\ Kept(r)
         /\ UNCHANGED <<rows, op, picked, todo, ghosts>>
         /\ \/ pc[r] = "check" /\ pc'[r] \in {"lookup", "refused"}
            \/ pc[r] = "lookup" /\ pc'[r] \in {"list", "refused"}
            \/ pc[r] \in {"create_slot", "claim", "link"} /\ pc'[r] \in {"refused", "failed"}
            \/ pc[r] = "view" /\ pc'[r] = "ok"
<1>1. \A l \in Labels : Goto(r, l) /\ l # "regenerate" /\ pc[r] # "regenerate"
         /\ UNCHANGED <<rows, op, picked, todo, ghosts>> => Kept(r) /\ pc'[r] = l
  BY QuietKeeps
<1>2. {"lookup", "refused", "list", "failed", "ok"} \subseteq Labels
  BY DEF Labels, Running, EndLabels
<1>3. CASE CheckCycle(r)
  <2>1. PICK l \in {"lookup", "refused"} : Goto(r, l)
    BY <1>3 DEF CheckCycle
  <2>2. pc[r] = "check" /\ UNCHANGED <<rows, op, picked, todo, ghosts>>
    BY <1>3 DEF CheckCycle
  <2>3. QED
    BY <1>1, <1>2, <2>1, <2>2
<1>4. CASE LookupAssignment(r)
  <2>1. PICK l \in {"list", "refused"} : Goto(r, l)
    BY <1>4 DEF LookupAssignment
  <2>2. pc[r] = "lookup" /\ UNCHANGED <<rows, op, picked, todo, ghosts>>
    BY <1>4 DEF LookupAssignment
  <2>3. QED
    BY <1>1, <1>2, <2>1, <2>2
<1>5. CASE CreateSlotConflict(r)
  BY <1>1, <1>2, <1>5 DEF CreateSlotConflict
<1>6. CASE CreateAssignmentConflict(r)
  BY <1>1, <1>2, <1>6 DEF CreateAssignmentConflict
<1>7. CASE CreateLinkConflict(r)
  BY <1>1, <1>2, <1>7 DEF CreateLinkConflict
<1>8. CASE View(r)
  BY <1>1, <1>2, <1>8 DEF View
<1>9. QED
  BY <1>3, <1>4, <1>5, <1>6, <1>7, <1>8 DEF Quiet

LEMMA ListSlotsDoes ==
  ASSUME Typed, CallsSound, NEW r \in Requests, ListSlots(r)
  PROVE  /\ Kept(r) /\ pc[r] = "list" /\ op[r] \in AddOps
         /\ UNCHANGED <<rows, op, raced, stacked, confirmed, failures>>
         /\ fresh' = IF \E q \in Requests : pc[q] = "assign" THEN fresh ELSE fresh \cup {r}
         /\ \/ /\ pc'[r] = "claim"
               /\ \E s \in DOMAIN slots : ~slots[s].allocated /\ todo'[r] = <<[talent |-> op[r].talent, slot |-> s]>>
            \/ /\ pc'[r] = "create_slot" /\ todo'[r] = <<>>
               /\ picked'[r].kind = "create" /\ Tiers(DOMAIN slots) + picked'[r].tier <= CycleBudget
            \/ pc'[r] = "refused" /\ todo'[r] = <<>>
<1> DEFINE e == Pick(NormalizeTier(op[r].tier))
           d == IF e.kind = "take" THEN <<[talent |-> op[r].talent, slot |-> e.slot]>> ELSE <<>>
           l == CASE e.kind = "take" -> "claim"
                  [] e.kind = "create" -> "create_slot"
                  [] e.kind = "none" -> "refused"
<1>1. /\ pc[r] = "list"
      /\ picked' = [picked EXCEPT ![r] = e]
      /\ todo' = [todo EXCEPT ![r] = d]
      /\ Goto(r, l)
      /\ fresh' = IF \E q \in Requests : pc[q] = "assign" THEN fresh ELSE fresh \cup {r}
      /\ UNCHANGED <<rows, op, raced, stacked, confirmed, failures>>
  BY DEF ListSlots
<1>2. op[r] \in AddOps /\ op[r].talent \in TalentIds /\ op[r].tier \in AskedTiers
  BY <1>1 DEF CallsSound, CallSound, AddLabels, AddOps
<1>3. /\ e \in Picks /\ e.kind \in {"take", "create", "none"}
      /\ e.kind = "take" => e.slot \in DOMAIN slots /\ ~slots[e.slot].allocated
      /\ e.kind = "create" => Tiers(DOMAIN slots) + e.tier <= CycleBudget
  <2>1. NormalizeTier(op[r].tier) \in Nat
    BY <1>2, NormalTyped
  <2>2. slots \in [DOMAIN slots -> SlotRow] /\ IsFiniteSet(DOMAIN slots) /\ DOMAIN slots \subseteq SlotIds
    BY DEF Typed, RowsTyped
  <2>3. QED
    BY <2>1, <2>2, PickSound
<1> HIDE DEF e
<1>4. /\ e.kind = "take" => l = "claim"
      /\ e.kind = "create" => l = "create_slot"
      /\ e.kind = "none" => l = "refused"
  OBVIOUS
<1> HIDE DEF l
<1>5. l \in Labels /\ l # "regenerate"
  BY <1>3, <1>4, LabelsListed DEF AddLabels, PairLabels, EndLabels
<1>6. d \in Pairs
  <2>1. DOMAIN slots \subseteq SlotIds
    BY DEF Typed, RowsTyped
  <2>2. <<>> \in Pairs
    BY DEF Pairs
  <2>3. e.kind = "take" => [talent |-> op[r].talent, slot |-> e.slot] \in Pair
    BY <1>2, <1>3, <2>1 DEF Pair
  <2>4. QED
    BY <2>2, <2>3 DEF Pairs
<1> HIDE DEF d
<1>7. todo'[r] = d /\ picked'[r] = e
  BY <1>1 DEF Typed, CallsTyped
<1>8. CallsTyped' /\ Others(r) /\ pc'[r] = l
  <2>1. CallsTyped /\ op' = op /\ Goto(r, l) /\ todo'[r] \in Pairs
    BY <1>1, <1>6, <1>7 DEF Typed
  <2>2. (\E x \in Picks : picked' = [picked EXCEPT ![r] = x]) /\ (\E x : todo' = [todo EXCEPT ![r] = x])
    BY <1>1, <1>3
  <2>3. QED
    BY <1>5, <2>1, <2>2, CallMoves
<1>9. RowsTyped' /\ Grows
  <2>1. open' \in BOOLEAN /\ RowsTyped /\ UNCHANGED <<slots, assignments, links>>
    BY <1>1 DEF Typed, RowsTyped, rows
  <2>2. QED
    BY <2>1, RowsStay
<1>10. GhostsTyped'
  BY <1>1 DEF Typed, GhostsTyped
<1>11. /\ e.kind = "take" => d = <<[talent |-> op[r].talent, slot |-> e.slot]>>
       /\ e.kind # "take" => d = <<>>
  BY DEF d
<1>12. Kept(r)
  BY <1>8, <1>9, <1>10 DEF Kept, Typed
<1>13. CASE e.kind = "take"
  BY <1>1, <1>2, <1>3, <1>4, <1>7, <1>8, <1>11, <1>12, <1>13
<1>14. CASE e.kind = "create"
  BY <1>1, <1>2, <1>3, <1>4, <1>7, <1>8, <1>11, <1>12, <1>14
<1>15. CASE e.kind = "none"
  BY <1>1, <1>2, <1>3, <1>4, <1>7, <1>8, <1>11, <1>12, <1>15
<1>16. QED
  BY <1>3, <1>13, <1>14, <1>15

LEMMA CreateSlotDoes ==
  ASSUME Typed, CallsSound, NEW r \in Requests, CreateSlot(r)
  PROVE  /\ Kept(r) /\ pc[r] = "create_slot" /\ op[r] \in AddOps /\ pc'[r] = "claim"
         /\ picked[r].tier \in Nat /\ picked[r].index \in Nat
         /\ slots' = Put(slots, <<r, 0>>, FreeSlot(picked[r].tier, picked[r].index))
         /\ todo'[r] = <<[talent |-> op[r].talent, slot |-> <<r, 0>>]>>
         /\ Written(r)
         /\ UNCHANGED <<open, assignments, links, op, picked, stacked, confirmed, failures>>
<1> DEFINE d == <<[talent |-> op[r].talent, slot |-> <<r, 0>>]>>
<1>1. /\ pc[r] = "create_slot" /\ Goto(r, "claim") /\ Written(r)
      /\ slots' = Put(slots, <<r, 0>>, FreeSlot(picked[r].tier, picked[r].index))
      /\ todo' = [todo EXCEPT ![r] = d]
      /\ UNCHANGED <<open, assignments, links, op, picked, stacked, confirmed, failures>>
  BY DEF CreateSlot
<1>2. op[r] \in AddOps /\ op[r].talent \in TalentIds /\ picked[r].kind = "create"
  BY <1>1 DEF CallsSound, CallSound, AddLabels, AddOps
<1>3. picked[r].tier \in Nat /\ picked[r].index \in Nat
  BY <1>2 DEF Typed, CallsTyped, Picks
<1>4. <<r, 0>> \in SlotIds
  BY DEF SlotIds
<1>5. d \in Pairs
  BY <1>2, <1>4 DEF Pairs, Pair
<1> HIDE DEF d
<1>6. todo'[r] = d
  BY <1>1 DEF Typed, CallsTyped
<1>7. CallsTyped' /\ Others(r) /\ pc'[r] = "claim"
  <2>1. CallsTyped /\ op' = op /\ picked' = picked /\ todo'[r] \in Pairs
    BY <1>1, <1>5, <1>6 DEF Typed
  <2>2. (\E x : todo' = [todo EXCEPT ![r] = x]) /\ "claim" \in Labels
    BY <1>1, LabelsListed DEF PairLabels
  <2>3. QED
    BY <1>1, <2>1, <2>2, CallMoves
<1>8. RowsTyped' /\ Grows
  <2>1. RowsTyped /\ UNCHANGED <<open, assignments, links>>
    BY <1>1 DEF Typed
  <2>2. QED
    BY <1>1, <1>3, <1>4, <2>1, SlotsGrow
<1>9. GhostsTyped'
  <2>1. GhostsTyped /\ UNCHANGED <<stacked, failures>> /\ confirmed' \in BOOLEAN
    BY <1>1 DEF Typed, GhostsTyped
  <2>2. QED
    BY <1>1, <2>1, GhostsWritten
<1>10. QED
  BY <1>1, <1>2, <1>3, <1>6, <1>7, <1>8, <1>9 DEF Kept, Typed, d

\* The first pair a call has still to do.
LEMMA FirstPair ==
  ASSUME Typed, CallsSound, NEW r \in Requests, pc[r] \in PairLabels
  PROVE  /\ op[r] \in AddOps \cup ConfirmAsk
         /\ todo[r] \in Pairs /\ todo[r] # <<>> /\ Len(todo[r]) \in Nat \ {0} /\ DOMAIN todo[r] = 1 .. Len(todo[r])
         /\ Head(todo[r]) = todo[r][1] /\ Head(todo[r]) \in Pair
         /\ Head(todo[r]).talent \in TalentIds /\ Head(todo[r]).slot \in SlotIds
         /\ Head(todo[r]).slot \in DOMAIN slots
         /\ Tail(todo[r]) \in Pairs /\ Len(Tail(todo[r])) = Len(todo[r]) - 1
         /\ \A j \in 1 .. Len(todo[r]) - 1 : Tail(todo[r])[j] = todo[r][j + 1]
<1>1. op[r] \in AddOps \cup ConfirmAsk /\ todo[r] \in Pairs /\ todo[r] # <<>>
      /\ \A i \in DOMAIN todo[r] : todo[r][i].slot \in DOMAIN slots
  BY DEF CallsSound, CallSound
<1>2. /\ Len(todo[r]) \in Nat \ {0} /\ DOMAIN todo[r] = 1 .. Len(todo[r])
      /\ Head(todo[r]) = todo[r][1] /\ Head(todo[r]) \in Pair
      /\ Tail(todo[r]) \in Pairs /\ Len(Tail(todo[r])) = Len(todo[r]) - 1
      /\ \A j \in 1 .. Len(todo[r]) - 1 : Tail(todo[r])[j] = todo[r][j + 1]
  BY <1>1, Pieces DEF Pairs
<1>3. 1 \in DOMAIN todo[r]
  BY <1>2
<1>4. QED
  BY <1>1, <1>2, <1>3 DEF Pair

LEMMA CreateAssignmentDoes ==
  ASSUME Typed, CallsSound, NEW r \in Requests, CreateAssignment(r)
  PROVE  /\ Kept(r) /\ pc[r] = "claim" /\ pc'[r] = "assign"
         /\ ~Assigned(Head(todo[r]).talent)
         /\ assignments' = Put(assignments, Head(todo[r]).talent, [slot |-> Head(todo[r]).slot, status |-> "active"])
         /\ Claimed(r)
         /\ confirmed' = (confirmed \/ op[r].kind = "confirm")
         /\ UNCHANGED <<open, slots, links, op, picked, todo, stacked, failures>>
<1> DEFINE e == Head(todo[r])
           rec == [slot |-> e.slot, status |-> "active"]
<1>1. /\ pc[r] = "claim" /\ Goto(r, "assign") /\ Claimed(r)
      /\ ~Assigned(e.talent)
      /\ assignments' = Put(assignments, e.talent, rec)
      /\ confirmed' = (confirmed \/ op[r].kind = "confirm")
      /\ UNCHANGED <<open, slots, links, op, picked, todo, stacked, failures>>
  BY DEF CreateAssignment
<1>2. todo[r] \in Pairs /\ e.talent \in TalentIds /\ e.slot \in SlotIds
  BY <1>1, FirstPair DEF PairLabels
<1>3. rec \in AssignmentRow
  BY <1>2 DEF AssignmentRow, Statuses
<1> HIDE DEF e, rec
<1>4. CallsTyped' /\ Others(r) /\ pc'[r] = "assign"
  <2>1. CallsTyped /\ op' = op /\ picked' = picked /\ todo' = todo /\ todo'[r] \in Pairs
    BY <1>1, <1>2 DEF Typed
  <2>2. "assign" \in Labels
    BY LabelsListed DEF PairLabels
  <2>3. QED
    BY <1>1, <2>1, <2>2, CallMoves
<1>5. assignments \in [DOMAIN assignments -> AssignmentRow] /\ DOMAIN assignments \subseteq TalentIds
  BY DEF Typed, RowsTyped
<1>6. /\ DOMAIN assignments' = DOMAIN assignments \cup {e.talent}
      /\ assignments' \in [DOMAIN assignments' -> AssignmentRow]
      /\ \A t \in DOMAIN assignments : assignments'[t] = assignments[t]
  <2>1. e.talent \notin DOMAIN assignments
    BY <1>1 DEF Assigned
  <2> DEFINE new == Put(assignments, e.talent, rec)
  <2>2. /\ DOMAIN new = DOMAIN assignments \cup {e.talent}
        /\ new \in [DOMAIN new -> AssignmentRow]
        /\ \A t \in DOMAIN assignments : t # e.talent => new[t] = assignments[t]
    BY <1>3, <1>5 DEF Put
  <2> HIDE DEF new
  <2>3. assignments' = new
    BY <1>1 DEF new
  <2>4. QED
    BY <2>1, <2>2, <2>3
<1>7. RowsTyped' /\ Grows
  BY <1>1, <1>2, <1>6 DEF Typed, RowsTyped, Grows, HasLink
<1>8. GhostsTyped'
  <2>1. GhostsTyped
    BY DEF Typed
  <2>2. UNCHANGED <<stacked, failures>> /\ confirmed' \in BOOLEAN
    <3>1. confirmed \in BOOLEAN
      BY <2>1 DEF GhostsTyped
    <3>2. QED
      BY <1>1, <3>1
  <2>3. QED
    BY <1>1, <2>1, <2>2, GhostsWritten
<1>9. QED
  BY <1>1, <1>4, <1>7, <1>8 DEF Kept, Typed, e, rec

LEMMA AssignSlotDoes ==
  ASSUME Typed, CallsSound, NEW r \in Requests, AssignSlot(r)
  PROVE  /\ Kept(r) /\ pc[r] = "assign" /\ pc'[r] = "link"
         /\ DOMAIN slots' = DOMAIN slots
         /\ Head(todo[r]).slot \in DOMAIN slots
         /\ slots'[Head(todo[r]).slot].allocated = TRUE
         /\ slots'[Head(todo[r]).slot].talent = Head(todo[r]).talent
         /\ \A s \in DOMAIN slots : slots'[s].tier = slots[s].tier
         /\ \A s \in DOMAIN slots : s # Head(todo[r]).slot => slots'[s] = slots[s]
         /\ UNCHANGED <<open, assignments, links, op, picked, todo, ghosts>>
<1> DEFINE e == Head(todo[r])
<1>1. /\ pc[r] = "assign" /\ Goto(r, "link")
      /\ slots' = [slots EXCEPT ![e.slot].allocated = TRUE, ![e.slot].talent = e.talent]
      /\ UNCHANGED <<open, assignments, links, op, picked, todo, ghosts>>
  BY DEF AssignSlot
<1>2. todo[r] \in Pairs /\ e.talent \in TalentIds /\ e.slot \in DOMAIN slots
  BY <1>1, FirstPair DEF PairLabels
<1> HIDE DEF e
<1>3. CallsTyped' /\ Others(r) /\ pc'[r] = "link"
  <2>1. CallsTyped /\ op' = op /\ picked' = picked /\ todo' = todo /\ todo'[r] \in Pairs
    BY <1>1, <1>2 DEF Typed
  <2>2. "link" \in Labels
    BY LabelsListed DEF PairLabels
  <2>3. QED
    BY <1>1, <2>1, <2>2, CallMoves
<1>4. slots \in [DOMAIN slots -> SlotRow] /\ DOMAIN slots \subseteq SlotIds /\ IsFiniteSet(DOMAIN slots)
  BY DEF Typed, RowsTyped
<1>5. /\ DOMAIN slots' = DOMAIN slots /\ slots' = [s \in DOMAIN slots |-> slots'[s]]
      /\ \A s \in DOMAIN slots : s # e.slot => slots'[s] = slots[s]
      /\ slots'[e.slot] = [slots[e.slot] EXCEPT !.allocated = TRUE, !.talent = e.talent]
  BY <1>1, <1>2, <1>4
<1>6. /\ slots'[e.slot] \in SlotRow /\ slots'[e.slot].allocated = TRUE /\ slots'[e.slot].talent = e.talent
      /\ slots'[e.slot].tier = slots[e.slot].tier
  <2> DEFINE old == slots[e.slot]
  <2>1. old \in SlotRow
    BY <1>2, <1>4
  <2> HIDE DEF old
  <2>2. [old EXCEPT !.allocated = TRUE, !.talent = e.talent] \in SlotRow
    BY <1>2, <2>1 DEF SlotRow
  <2>3. slots'[e.slot] = [old EXCEPT !.allocated = TRUE, !.talent = e.talent]
    BY <1>5 DEF old
  <2>4. /\ slots'[e.slot].allocated = TRUE /\ slots'[e.slot].talent = e.talent
        /\ slots'[e.slot].tier = old.tier
    BY <2>1, <2>3 DEF SlotRow
  <2>5. QED
    BY <2>2, <2>3, <2>4 DEF old
<1>7. slots' \in [DOMAIN slots' -> SlotRow]
  <2>1. \A s \in DOMAIN slots : slots'[s] \in SlotRow
    BY <1>4, <1>5, <1>6
  <2>2. QED
    BY <1>5, <2>1
<1>8. RowsTyped' /\ Grows
  BY <1>1, <1>4, <1>5, <1>7 DEF Typed, RowsTyped, Grows, HasLink
<1>9. GhostsTyped'
  BY <1>1, GhostsStay DEF Typed
<1>10. \A s \in DOMAIN slots : slots'[s].tier = slots[s].tier
  BY <1>5, <1>6
<1>11. QED
  BY <1>1, <1>2, <1>3, <1>5, <1>6, <1>8, <1>9, <1>10 DEF Kept, Typed, e

LEMMA CreateLinkDoes ==
  ASSUME Typed, CallsSound, NEW r \in Requests, CreateLink(r)
  PROVE  /\ Kept(r) /\ pc[r] = "link"
         /\ \E id \in DOMAIN links' : links'[id] = Head(todo[r]).talent
         /\ todo'[r] = Tail(todo[r])
         /\ Tail(todo[r]) # <<>> => pc'[r] = "claim"
         /\ Tail(todo[r]) = <<>> /\ op[r] \in AddOps => pc'[r] = "view"
         /\ Tail(todo[r]) = <<>> /\ op[r] \in ConfirmAsk => pc'[r] = "ok"
         /\ UNCHANGED <<open, slots, assignments, op, picked, ghosts>>
<1> DEFINE e == Head(todo[r])
           d == Tail(todo[r])
           l == CASE d # <<>> -> "claim"
                  [] d = <<>> /\ op[r].kind = "add" -> "view"
                  [] OTHER -> "ok"
<1>1. /\ pc[r] = "link" /\ Goto(r, l)
      /\ ~LinkTaken
      /\ links' = Put(links, "", e.talent)
      /\ todo' = [todo EXCEPT ![r] = Tail(@)]
      /\ UNCHANGED <<open, slots, assignments, op, picked, ghosts>>
  BY DEF CreateLink
<1>2. d \in Pairs /\ e.talent \in TalentIds
  BY <1>1, FirstPair DEF PairLabels
<1>3. todo' = [todo EXCEPT ![r] = d] /\ todo'[r] = d
  BY <1>1 DEF Typed, CallsTyped
<1>4. op[r] \in AddOps \cup ConfirmAsk /\ (op[r] \in AddOps <=> op[r].kind = "add")
  <2>1. op[r] \in Asked
    BY DEF Typed, CallsTyped
  <2>2. QED
    BY <1>1, <2>1, Kinds, FirstPair DEF PairLabels
<1> HIDE DEF e, d
<1>5. /\ d # <<>> => l = "claim"
      /\ d = <<>> /\ op[r].kind = "add" => l = "view"
      /\ d = <<>> /\ op[r].kind # "add" => l = "ok"
  OBVIOUS
<1> HIDE DEF l
<1>6. l \in Labels /\ l # "regenerate"
  BY <1>5, LabelsListed DEF AddLabels, PairLabels, EndLabels
<1>7. CallsTyped' /\ Others(r) /\ pc'[r] = l
  <2>1. CallsTyped /\ op' = op /\ picked' = picked /\ todo'[r] \in Pairs
    BY <1>1, <1>2, <1>3 DEF Typed
  <2>2. \E x : todo' = [todo EXCEPT ![r] = x]
    BY <1>3
  <2>3. QED
    BY <1>1, <1>6, <2>1, <2>2, CallMoves
<1>8. links \in [DOMAIN links -> TalentIds] /\ DOMAIN links \subseteq {""}
  BY DEF Typed, RowsTyped
<1>9. /\ DOMAIN links' = DOMAIN links \cup {""} /\ links' \in [DOMAIN links' -> TalentIds]
      /\ links'[""] = e.talent /\ \A id \in DOMAIN links : links'[id] = links[id]
  <2>1. "" \notin DOMAIN links
    BY <1>1 DEF LinkTaken
  <2> DEFINE new == Put(links, "", e.talent)
  <2>2. /\ DOMAIN new = DOMAIN links \cup {""}
        /\ new \in [DOMAIN new -> TalentIds] /\ new[""] = e.talent
        /\ \A id \in DOMAIN links : id # "" => new[id] = links[id]
    BY <1>2, <1>8 DEF Put
  <2> HIDE DEF new
  <2>3. links' = new
    BY <1>1 DEF new
  <2>4. QED
    BY <2>1, <2>2, <2>3
<1>10. RowsTyped' /\ Grows /\ \E id \in DOMAIN links' : links'[id] = e.talent
  <2>1. \E id \in DOMAIN links' : links'[id] = e.talent
    BY <1>9
  <2>2. Grows
    BY <1>1, <1>9 DEF Grows, HasLink
  <2>3. RowsTyped'
    BY <1>1, <1>8, <1>9 DEF Typed, RowsTyped
  <2>4. QED
    BY <2>1, <2>2, <2>3
<1>11. GhostsTyped'
  BY <1>1, GhostsStay DEF Typed
<1>12. op[r] \in ConfirmAsk => op[r] \notin AddOps
  BY DEF ConfirmAsk, AddOps
<1>13. QED
  BY <1>1, <1>3, <1>4, <1>5, <1>7, <1>10, <1>11, <1>12 DEF Kept, Typed, e, d

LEMMA SolveDoes ==
  ASSUME Typed, CallsSound, NEW r \in Requests, Solve(r)
  PROVE  /\ Kept(r) /\ pc[r] = "solve" /\ op[r] = SolveOp
         /\ fresh' = IF \E q \in Requests : pc[q] = "assign" THEN fresh ELSE fresh \cup {r}
         /\ stacked => stacked'
         /\ \/ pc'[r] \in {"ok", "refused"}
            \/ /\ pc'[r] = "regenerate" /\ todo'[r] = Waterfall /\ Waterfall # <<>>
               /\ ~stacked' => DOMAIN slots = {}
         /\ UNCHANGED <<rows, op, picked, raced, confirmed, failures>>
<1> DEFINE usable == \E s \in DOMAIN slots : UsableSlot(s)
           d == IF usable THEN <<>> ELSE Waterfall
           l == CASE usable -> "ok"
                  [] ~usable /\ Waterfall = <<>> -> "refused"
                  [] OTHER -> "regenerate"
<1>1. /\ pc[r] = "solve" /\ Goto(r, l)
      /\ todo' = [todo EXCEPT ![r] = d]
      /\ fresh' = IF \E q \in Requests : pc[q] = "assign" THEN fresh ELSE fresh \cup {r}
      /\ stacked' = (stacked \/ (~usable /\ slots # <<>>))
      /\ UNCHANGED <<rows, op, picked, raced, confirmed, failures>>
  BY DEF Solve
<1>2. op[r] = SolveOp
  BY <1>1 DEF CallsSound, CallSound
<1>3. todo'[r] = d
  BY <1>1 DEF Typed, CallsTyped
<1>4. slots = <<>> => DOMAIN slots = {}
  OBVIOUS
<1>5. slots # <<>> => stacked' \/ usable
  BY <1>1
<1> HIDE DEF usable
<1>6. /\ usable => l = "ok" /\ d = <<>>
      /\ ~usable /\ Waterfall = <<>> => l = "refused" /\ d = <<>>
      /\ ~usable /\ Waterfall # <<>> => l = "regenerate" /\ d = Waterfall
  OBVIOUS
<1> HIDE DEF l, d
<1>7. l \in Labels
  BY <1>6, LabelsListed DEF EndLabels
<1>8. l # "regenerate" => d \in Pairs
  <2>1. <<>> \in Pairs
    BY DEF Pairs
  <2>2. QED
    BY <1>6, <2>1
<1>9. CallsTyped' /\ Others(r) /\ pc'[r] = l
  <2>1. CallsTyped /\ op' = op /\ picked' = picked /\ (l # "regenerate" => todo'[r] \in Pairs)
    BY <1>1, <1>3, <1>8 DEF Typed
  <2>2. \E x : todo' = [todo EXCEPT ![r] = x]
    BY <1>1
  <2>3. QED
    BY <1>1, <1>7, <2>1, <2>2, CallMoves
<1>10. RowsTyped' /\ Grows
  <2>1. open' \in BOOLEAN /\ RowsTyped /\ UNCHANGED <<slots, assignments, links>>
    BY <1>1 DEF Typed, RowsTyped, rows
  <2>2. QED
    BY <2>1, RowsStay
<1>11. GhostsTyped' /\ (stacked => stacked')
  BY <1>1 DEF Typed, GhostsTyped
<1>12. Kept(r)
  BY <1>9, <1>10, <1>11 DEF Kept, Typed
<1>13. \/ pc'[r] \in {"ok", "refused"}
       \/ /\ pc'[r] = "regenerate" /\ todo'[r] = Waterfall /\ Waterfall # <<>>
          /\ ~stacked' => DOMAIN slots = {}
  BY <1>3, <1>4, <1>5, <1>6, <1>9
<1>14. QED
  BY <1>1, <1>2, <1>11, <1>12, <1>13

LEMMA RegenerateSlotDoes ==
  ASSUME Typed, CallsSound, SolversSound, NEW r \in Requests, RegenerateSlot(r)
  PROVE  /\ Kept(r) /\ pc[r] = "regenerate" /\ op[r] = SolveOp
         /\ RowsLeft(r) /\ todo[r] \in MoreSlots /\ todo[r] # <<>> /\ Head(todo[r]) \in SlotTerms
         /\ Len(Waterfall) - Len(todo[r]) + 1 \in Nat \ {0}
         /\ slots' = Put(slots, <<r, Len(Waterfall) - Len(todo[r]) + 1>>,
                         FreeSlot(Head(todo[r]).tier, Head(todo[r]).index))
         /\ todo'[r] = Tail(todo[r])
         /\ \/ Tail(todo[r]) = <<>> /\ pc'[r] = "ok"
            \/ Tail(todo[r]) # <<>> /\ pc'[r] = "regenerate"
         /\ Written(r)
         /\ UNCHANGED <<open, assignments, links, op, picked, stacked, confirmed, failures>>
<1> DEFINE s == Head(todo[r])
           n == Len(Waterfall) - Len(todo[r]) + 1
           d == Tail(todo[r])
           l == IF d = <<>> THEN "ok" ELSE "regenerate"
<1>1. /\ pc[r] = "regenerate" /\ Goto(r, l) /\ Written(r)
      /\ slots' = Put(slots, <<r, n>>, FreeSlot(s.tier, s.index))
      /\ todo' = [todo EXCEPT ![r] = Tail(@)]
      /\ UNCHANGED <<open, assignments, links, op, picked, stacked, confirmed, failures>>
  BY DEF RegenerateSlot
<1>2. op[r] = SolveOp /\ todo[r] \in MoreSlots /\ todo[r] # <<>> /\ RowsLeft(r)
  BY <1>1 DEF CallsSound, CallSound, SolversSound
<1>3. s \in SlotTerms /\ Len(todo[r]) \in Nat \ {0}
  BY <1>2, Pieces DEF MoreSlots
<1>4. n \in Nat \ {0}
  BY <1>2, <1>3, WaterfallTyped DEF RowsLeft
<1>5. todo' = [todo EXCEPT ![r] = d] /\ todo'[r] = d
  BY <1>1 DEF Typed, CallsTyped
<1> HIDE DEF s, n, d
<1>6. l \in Labels /\ (l # "regenerate" => d \in Pairs)
  <2>1. <<>> \in Pairs
    BY DEF Pairs
  <2>2. QED
    BY <2>1, LabelsListed DEF EndLabels
<1>7. /\ d = <<>> => l = "ok"
      /\ d # <<>> => l = "regenerate"
  OBVIOUS
<1> HIDE DEF l
<1>8. CallsTyped' /\ Others(r) /\ pc'[r] = l
  <2>1. CallsTyped /\ op' = op /\ picked' = picked /\ (l # "regenerate" => todo'[r] \in Pairs)
    BY <1>1, <1>5, <1>6 DEF Typed
  <2>2. \E x : todo' = [todo EXCEPT ![r] = x]
    BY <1>5
  <2>3. QED
    BY <1>1, <1>6, <2>1, <2>2, CallMoves
<1>9. RowsTyped' /\ Grows
  <2>1. RowsTyped /\ UNCHANGED <<open, assignments, links>>
    BY <1>1 DEF Typed
  <2>2. <<r, n>> \in SlotIds /\ s.tier \in Nat /\ s.index \in Nat
    BY <1>3, <1>4 DEF SlotIds, SlotTerms
  <2>3. QED
    BY <1>1, <2>1, <2>2, SlotsGrow
<1>10. GhostsTyped'
  <2>1. GhostsTyped /\ UNCHANGED <<stacked, failures>> /\ confirmed' \in BOOLEAN
    BY <1>1 DEF Typed, GhostsTyped
  <2>2. QED
    BY <1>1, <2>1, GhostsWritten
<1>11. Kept(r)
  BY <1>8, <1>9, <1>10 DEF Kept, Typed
<1>12. QED
  BY <1>1, <1>2, <1>3, <1>4, <1>5, <1>7, <1>8, <1>11 DEF s, n, d

LEMMA RegenerateConflictDoes ==
  ASSUME Typed, NEW r \in Requests, RegenerateConflict(r)
  PROVE  /\ Kept(r) /\ pc[r] = "regenerate" /\ pc'[r] = "failed" /\ todo'[r] = <<>>
         /\ UNCHANGED <<rows, op, picked, ghosts>>
<1>1. /\ pc[r] = "regenerate" /\ Goto(r, "failed") /\ todo' = [todo EXCEPT ![r] = <<>>]
      /\ UNCHANGED <<rows, op, picked, ghosts>>
  BY DEF RegenerateConflict
<1>2. todo'[r] = <<>> /\ <<>> \in Pairs
  BY <1>1 DEF Typed, CallsTyped, Pairs
<1>3. CallsTyped' /\ Others(r) /\ pc'[r] = "failed"
  <2>1. CallsTyped /\ op' = op /\ picked' = picked /\ todo'[r] \in Pairs
    BY <1>1, <1>2 DEF Typed
  <2>2. (\E x : todo' = [todo EXCEPT ![r] = x]) /\ "failed" \in Labels
    BY <1>1, LabelsListed DEF EndLabels
  <2>3. QED
    BY <1>1, <2>1, <2>2, CallMoves
<1>4. RowsTyped' /\ Grows
  <2>1. open' \in BOOLEAN /\ RowsTyped /\ UNCHANGED <<slots, assignments, links>>
    BY <1>1 DEF Typed, RowsTyped, rows
  <2>2. QED
    BY <2>1, RowsStay
<1>5. GhostsTyped'
  BY <1>1, GhostsStay DEF Typed
<1>6. QED
  BY <1>1, <1>2, <1>3, <1>4, <1>5 DEF Kept, Typed

LEMMA PatchDoes ==
  ASSUME Typed, CallsSound, NEW r \in Requests, PatchAssignment(r)
  PROVE  /\ Kept(r) /\ pc[r] = "patch" /\ pc'[r] \in {"ok", "refused"} /\ op[r] \in PatchOps
         /\ DOMAIN assignments' = DOMAIN assignments
         /\ \A t \in DOMAIN assignments : assignments'[t].slot = assignments[t].slot
         /\ UNCHANGED <<open, slots, links, op, picked, todo, ghosts>>
<1> DEFINE t == op[r].talent
<1>1. /\ pc[r] = "patch"
      /\ UNCHANGED <<open, slots, links, op, picked, todo, ghosts>>
      /\ \/ /\ Assigned(t) /\ Goto(r, "ok")
            /\ assignments' = [assignments EXCEPT ![t].status = op[r].status]
         \/ Goto(r, "refused") /\ assignments' = assignments
  BY DEF PatchAssignment
<1>2. op[r] \in PatchOps /\ op[r].status \in Statuses
  BY <1>1 DEF CallsSound, CallSound, PatchOps
<1>3. assignments \in [DOMAIN assignments -> AssignmentRow]
  BY DEF Typed, RowsTyped
<1>4. /\ DOMAIN assignments' = DOMAIN assignments
      /\ assignments' \in [DOMAIN assignments -> AssignmentRow]
      /\ \A w \in DOMAIN assignments : assignments'[w].slot = assignments[w].slot
  <2>1. CASE assignments' = assignments
    BY <1>3, <2>1
  <2>2. CASE Assigned(t) /\ assignments' = [assignments EXCEPT ![t].status = op[r].status]
    BY <1>2, <1>3, <2>2 DEF AssignmentRow, Assigned
  <2>3. QED
    BY <1>1, <2>1, <2>2
<1>5. PICK l \in {"ok", "refused"} : Goto(r, l)
  BY <1>1
<1>6. CallsTyped' /\ Others(r) /\ pc'[r] = l
  <2>1. CallsTyped /\ op' = op /\ picked' = picked /\ todo' = todo
    BY <1>1 DEF Typed
  <2>2. todo'[r] \in Pairs
    BY <1>1, <2>1 DEF CallsTyped
  <2>3. l \in Labels
    BY LabelsListed DEF EndLabels
  <2>4. QED
    BY <1>5, <2>1, <2>2, <2>3, CallMoves
<1>7. RowsTyped' /\ Grows
  BY <1>1, <1>4 DEF Typed, RowsTyped, Grows, HasLink
<1>8. GhostsTyped'
  BY <1>1, GhostsStay DEF Typed
<1>9. QED
  BY <1>1, <1>2, <1>4, <1>5, <1>6, <1>7, <1>8 DEF Kept, Typed

LEMMA FailDoes ==
  ASSUME Typed, NEW r \in Requests, Fail(r)
  PROVE  /\ Kept(r) /\ pc[r] \in Running
         /\ \/ pc[r] = "lookup" /\ pc'[r] = "list"
            \/ pc[r] # "lookup" /\ pc'[r] = "failed"
         /\ todo'[r] = <<>>
         /\ failures' = failures + 1 /\ failures' > 0
         /\ UNCHANGED <<rows, op, picked, fresh, raced, stacked, confirmed>>
<1> DEFINE l == IF pc[r] = "lookup" THEN "list" ELSE "failed"
<1>1. /\ pc[r] \in Running /\ Goto(r, l) /\ todo' = [todo EXCEPT ![r] = <<>>]
      /\ failures < MaxFailures /\ failures' = failures + 1
      /\ UNCHANGED <<rows, op, picked, fresh, raced, stacked, confirmed>>
  BY DEF Fail
<1>2. todo'[r] = <<>> /\ <<>> \in Pairs
  BY <1>1 DEF Typed, CallsTyped, Pairs
<1>3. l \in Labels /\ (pc[r] = "lookup" => l = "list") /\ (pc[r] # "lookup" => l = "failed")
  BY LabelsListed DEF EndLabels, AddLabels
<1> HIDE DEF l
<1>4. CallsTyped' /\ Others(r) /\ pc'[r] = l
  <2>1. CallsTyped /\ op' = op /\ picked' = picked /\ todo'[r] \in Pairs
    BY <1>1, <1>2 DEF Typed
  <2>2. \E x : todo' = [todo EXCEPT ![r] = x]
    BY <1>1
  <2>3. QED
    BY <1>1, <1>3, <2>1, <2>2, CallMoves
<1>5. RowsTyped' /\ Grows
  <2>1. open' \in BOOLEAN /\ RowsTyped /\ UNCHANGED <<slots, assignments, links>>
    BY <1>1 DEF Typed, RowsTyped, rows
  <2>2. QED
    BY <2>1, RowsStay
<1>6. GhostsTyped' /\ failures' > 0
  BY <1>1, AssignmentAssumption DEF Typed, GhostsTyped
<1>7. QED
  BY <1>1, <1>2, <1>3, <1>4, <1>5, <1>6 DEF Kept, Typed

-----------------------------------------------------------------------------
(* Calls, the ids of slots, and the rows of a solver *)

LEMMA StepIs ==
  ASSUME NEW r \in Requests, Step(r)
  PROVE  \/ Begin(r) \/ Quiet(r) \/ ListSlots(r) \/ CreateSlot(r) \/ CreateAssignment(r) \/ AssignSlot(r)
         \/ CreateLink(r) \/ Solve(r) \/ RegenerateSlot(r) \/ RegenerateConflict(r)
         \/ PatchAssignment(r) \/ Fail(r)
BY DEF Step, Quiet

LEMMA BeginLabels ==
  ASSUME Typed, CallsSound, NEW r \in Requests, Begin(r)
  PROVE  pc'[r] \in {"refused", "check", "claim", "solve", "patch"}
<1>1. PICK o \in AddOps \cup PatchOps \cup {SolveOp} \cup ConfirmOps(DOMAIN slots) :
        /\ o.kind = "add" => pc'[r] \in {"refused", "check"}
        /\ o.kind = "confirm" => pc'[r] = "claim"
        /\ o.kind = "solve" => pc'[r] = "solve"
        /\ o.kind = "patch" => pc'[r] = "patch"
  BY BeginDoes
<1>2. DOMAIN slots \in SUBSET SlotIds
  BY DEF Typed, RowsTyped
<1>3. o \in ConfirmOps(DOMAIN slots) => o.kind = "confirm"
  BY <1>2, ConfirmIsAsked
<1>4. o \in AddOps \cup PatchOps \cup {SolveOp} => o.kind \in {"add", "patch", "solve"}
  BY DEF AddOps, PatchOps, SolveOp
<1>5. QED
  BY <1>1, <1>3, <1>4

LEMMA StepKeeps ==
  ASSUME Typed, CallsSound, SolversSound, NEW r \in Requests, Step(r)
  PROVE  Kept(r)
<1>1. CASE Begin(r)
  BY <1>1, BeginDoes
<1>2. CASE Quiet(r)
  BY <1>2, QuietDoes
<1>3. CASE ListSlots(r)
  BY <1>3, ListSlotsDoes
<1>4. CASE CreateSlot(r)
  BY <1>4, CreateSlotDoes
<1>5. CASE CreateAssignment(r)
  BY <1>5, CreateAssignmentDoes
<1>6. CASE AssignSlot(r)
  BY <1>6, AssignSlotDoes
<1>7. CASE CreateLink(r)
  BY <1>7, CreateLinkDoes
<1>8. CASE Solve(r)
  BY <1>8, SolveDoes
<1>9. CASE RegenerateSlot(r)
  BY <1>9, RegenerateSlotDoes
<1>10. CASE RegenerateConflict(r)
  BY <1>10, RegenerateConflictDoes
<1>11. CASE PatchAssignment(r)
  BY <1>11, PatchDoes
<1>12. CASE Fail(r)
  BY <1>12, FailDoes
<1>13. QED
  BY <1>1, <1>2, <1>3, <1>4, <1>5, <1>6, <1>7, <1>8, <1>9, <1>10, <1>11, <1>12, StepIs

LEMMA CallStays ==
  ASSUME NEW q \in Requests, CallSound(q), DOMAIN slots \subseteq DOMAIN slots',
         pc'[q] = pc[q], op'[q] = op[q], picked'[q] = picked[q], todo'[q] = todo[q]
  PROVE  CallSound(q)'
BY DEF CallSound

\* A call that is at an end, or has only a pair to write.
LEMMA CallEnds ==
  ASSUME NEW q \in Requests, pc'[q] \in EndLabels
  PROVE  CallSound(q)'
BY DEF CallSound, AddLabels, PairLabels, EndLabels

LEMMA CallPairs ==
  ASSUME NEW q \in Requests, pc'[q] \in PairLabels, op'[q] \in AddOps \cup ConfirmAsk,
         todo'[q] \in Pairs, todo'[q] # <<>>, \A i \in DOMAIN todo'[q] : todo'[q][i].slot \in DOMAIN slots'
  PROVE  CallSound(q)'
<1>1. /\ pc'[q] # "idle" /\ pc'[q] \notin AddLabels /\ pc'[q] \notin {"solve", "regenerate"}
      /\ pc'[q] # "patch" /\ pc'[q] # "create_slot" /\ pc'[q] # "regenerate"
  BY DEF AddLabels, PairLabels
<1>2. QED
  BY <1>1 DEF CallSound

LEMMA CallAdds ==
  ASSUME NEW q \in Requests, pc'[q] \in AddLabels, op'[q] \in AddOps,
         pc'[q] = "create_slot" => picked'[q].kind = "create"
  PROVE  CallSound(q)'
<1>1. /\ pc'[q] # "idle" /\ pc'[q] \notin PairLabels /\ pc'[q] \notin {"solve", "regenerate"}
      /\ pc'[q] # "patch" /\ pc'[q] # "regenerate"
  BY DEF AddLabels, PairLabels
<1>2. QED
  BY <1>1 DEF CallSound

LEMMA OnePair ==
  ASSUME NEW e, NEW d, d = <<e>>
  PROVE  Len(d) = 1 /\ DOMAIN d = {1} /\ d[1] = e /\ Head(d) = e /\ d # <<>>
OBVIOUS

LEMMA CallsStep ==
  ASSUME Typed, CallsSound, SolversSound, NEW r \in Requests, Step(r)
  PROVE  CallsSound'
<1>1. Kept(r)
  BY StepKeeps
<1>2. ASSUME NEW q \in Requests, q # r PROVE CallSound(q)'
  <2>1. CallSound(q) /\ DOMAIN slots \subseteq DOMAIN slots'
        /\ pc'[q] = pc[q] /\ op'[q] = op[q] /\ picked'[q] = picked[q] /\ todo'[q] = todo[q]
    BY <1>1, <1>2 DEF CallsSound, Kept, Others, Grows
  <2>2. QED
    BY <2>1, CallStays
<1>3. SUFFICES CallSound(r)'
  BY <1>2 DEF CallsSound
<1>4. pc'[r] # "regenerate" => todo'[r] \in Pairs
  BY <1>1 DEF Kept, Typed, CallsTyped
<1>5. CASE Begin(r)
  <2>1. PICK o \in AddOps \cup PatchOps \cup {SolveOp} \cup ConfirmOps(DOMAIN slots) :
          /\ op'[r] = o
          /\ todo'[r] = IF o.kind = "confirm" THEN o.pairs ELSE <<>>
          /\ o.kind = "add" => pc'[r] \in {"refused", "check"}
          /\ o.kind = "confirm" => pc'[r] = "claim"
          /\ o.kind = "solve" => pc'[r] = "solve"
          /\ o.kind = "patch" => pc'[r] = "patch"
    BY <1>5, BeginDoes
  <2>2. slots' = slots
    BY <1>5, BeginDoes DEF rows
  <2>3. CASE o \in AddOps
    <3>1. pc'[r] \in {"refused", "check"}
      BY <2>1, <2>3 DEF AddOps
    <3>2. CASE pc'[r] = "refused"
      BY <3>2, CallEnds DEF EndLabels
    <3>3. CASE pc'[r] = "check"
      BY <2>1, <2>3, <3>3, CallAdds DEF AddLabels
    <3>4. QED
      BY <3>1, <3>2, <3>3
  <2>4. CASE o \in PatchOps
    <3>1. pc'[r] = "patch"
      BY <2>1, <2>4 DEF PatchOps
    <3>2. QED
      BY <2>1, <2>4, <3>1 DEF CallSound, AddLabels, PairLabels
  <2>5. CASE o = SolveOp
    <3>1. pc'[r] = "solve"
      BY <2>1, <2>5 DEF SolveOp
    <3>2. QED
      BY <2>1, <2>5, <3>1 DEF CallSound, AddLabels, PairLabels
  <2>6. CASE o \in ConfirmOps(DOMAIN slots)
    <3>1. DOMAIN slots \in SUBSET SlotIds
      BY DEF Typed, RowsTyped
    <3>2. o \in ConfirmAsk /\ o.pairs # <<>> /\ o.kind = "confirm" /\ \A i \in DOMAIN o.pairs : o.pairs[i].slot \in DOMAIN slots
      BY <2>6, <3>1, ConfirmIsAsked
    <3>3. pc'[r] = "claim" /\ todo'[r] = o.pairs
      BY <2>1, <3>2
    <3>4. todo'[r] \in Pairs /\ op'[r] \in AddOps \cup ConfirmAsk
      BY <1>4, <2>1, <3>2, <3>3
    <3>5. QED
      BY <2>2, <3>2, <3>3, <3>4, CallPairs DEF PairLabels
  <2>7. QED
    BY <2>3, <2>4, <2>5, <2>6
<1>6. CASE Quiet(r)
  <2>1. UNCHANGED <<op, picked, todo>>
    BY <1>6, QuietDoes
  <2>2. CASE pc'[r] \in EndLabels
    BY <2>2, CallEnds
  <2>3. CASE pc'[r] \notin EndLabels
    <3>1. pc[r] \in {"check", "lookup"} /\ pc'[r] \in {"lookup", "list"}
      BY <1>6, <2>3, QuietDoes DEF EndLabels
    <3>2. op[r] \in AddOps
      BY <3>1 DEF CallsSound, CallSound, AddLabels
    <3>3. QED
      BY <2>1, <3>1, <3>2, CallAdds DEF AddLabels
  <2>4. QED
    BY <2>2, <2>3
<1>7. CASE ListSlots(r)
  <2>1. op'[r] \in AddOps /\ slots' = slots
    BY <1>7, ListSlotsDoes DEF rows
  <2>2. CASE pc'[r] = "claim"
    <3>1. PICK s \in DOMAIN slots : todo'[r] = <<[talent |-> op[r].talent, slot |-> s]>>
      BY <1>7, <2>2, ListSlotsDoes
    <3>2. todo'[r] # <<>> /\ \A i \in DOMAIN todo'[r] : todo'[r][i].slot \in DOMAIN slots'
      BY <2>1, <3>1, OnePair
    <3>3. QED
      BY <1>4, <2>1, <2>2, <3>2, CallPairs DEF PairLabels
  <2>3. CASE pc'[r] = "create_slot"
    <3>1. picked'[r].kind = "create"
      BY <1>7, <2>3, ListSlotsDoes
    <3>2. QED
      BY <2>1, <2>3, <3>1, CallAdds DEF AddLabels
  <2>4. CASE pc'[r] = "refused"
    BY <2>4, CallEnds DEF EndLabels
  <2>5. QED
    BY <1>7, <2>2, <2>3, <2>4, ListSlotsDoes
<1>8. CASE CreateSlot(r)
  <2>1. /\ op'[r] \in AddOps /\ pc'[r] = "claim" /\ todo'[r] = <<[talent |-> op[r].talent, slot |-> <<r, 0>>]>>
        /\ slots' = Put(slots, <<r, 0>>, FreeSlot(picked[r].tier, picked[r].index))
    BY <1>8, CreateSlotDoes
  <2>2. <<r, 0>> \in DOMAIN slots'
    BY <2>1 DEF Put
  <2>3. todo'[r] # <<>> /\ \A i \in DOMAIN todo'[r] : todo'[r][i].slot \in DOMAIN slots'
    BY <2>1, <2>2, OnePair
  <2>4. QED
    BY <1>4, <2>1, <2>3, CallPairs DEF PairLabels
<1>9. CASE CreateAssignment(r)
  <2>1. pc[r] = "claim" /\ pc'[r] = "assign" /\ UNCHANGED <<slots, op, todo>>
    BY <1>9, CreateAssignmentDoes
  <2>2. /\ op[r] \in AddOps \cup ConfirmAsk /\ todo[r] \in Pairs /\ todo[r] # <<>>
        /\ \A i \in DOMAIN todo[r] : todo[r][i].slot \in DOMAIN slots
    BY <2>1 DEF CallsSound, CallSound, PairLabels
  <2>3. QED
    BY <2>1, <2>2, CallPairs DEF PairLabels
<1>10. CASE AssignSlot(r)
  <2>1. pc[r] = "assign" /\ pc'[r] = "link" /\ UNCHANGED <<op, todo>> /\ DOMAIN slots' = DOMAIN slots
    BY <1>10, AssignSlotDoes
  <2>2. /\ op[r] \in AddOps \cup ConfirmAsk /\ todo[r] \in Pairs /\ todo[r] # <<>>
        /\ \A i \in DOMAIN todo[r] : todo[r][i].slot \in DOMAIN slots
    BY <2>1 DEF CallsSound, CallSound, PairLabels
  <2>3. QED
    BY <2>1, <2>2, CallPairs DEF PairLabels
<1>11. CASE CreateLink(r)
  <2>1. /\ pc[r] = "link" /\ todo'[r] = Tail(todo[r]) /\ UNCHANGED <<slots, op>>
        /\ Tail(todo[r]) # <<>> => pc'[r] = "claim"
        /\ Tail(todo[r]) = <<>> /\ op[r] \in AddOps => pc'[r] = "view"
        /\ Tail(todo[r]) = <<>> /\ op[r] \in ConfirmAsk => pc'[r] = "ok"
    BY <1>11, CreateLinkDoes
  <2>2. /\ op[r] \in AddOps \cup ConfirmAsk
        /\ \A i \in DOMAIN todo[r] : todo[r][i].slot \in DOMAIN slots
    BY <2>1 DEF CallsSound, CallSound, PairLabels
  <2>3. CASE Tail(todo[r]) # <<>>
    <3>1. /\ DOMAIN todo[r] = 1 .. Len(todo[r]) /\ Len(todo[r]) \in Nat \ {0}
          /\ Tail(todo[r]) \in Pairs /\ Len(Tail(todo[r])) = Len(todo[r]) - 1
          /\ \A j \in 1 .. Len(todo[r]) - 1 : Tail(todo[r])[j] = todo[r][j + 1]
      BY <2>1, FirstPair DEF PairLabels
    <3>2. DOMAIN Tail(todo[r]) = 1 .. Len(todo[r]) - 1
      BY <3>1 DEF Pairs
    <3>3. \A j \in 1 .. Len(todo[r]) - 1 : j + 1 \in 1 .. Len(todo[r])
      BY <3>1
    <3>4. \A i \in DOMAIN todo'[r] : todo'[r][i].slot \in DOMAIN slots'
      BY <2>1, <2>2, <3>1, <3>2, <3>3
    <3>5. QED
      BY <1>4, <2>1, <2>2, <2>3, <3>4, CallPairs DEF PairLabels
  <2>4. CASE Tail(todo[r]) = <<>> /\ op[r] \in AddOps
    BY <2>1, <2>4, CallAdds DEF AddLabels
  <2>5. CASE Tail(todo[r]) = <<>> /\ op[r] \in ConfirmAsk
    BY <2>1, <2>5, CallEnds DEF EndLabels
  <2>6. QED
    BY <2>2, <2>3, <2>4, <2>5
<1>12. CASE Solve(r)
  <2>1. CASE pc'[r] \in {"ok", "refused"}
    BY <2>1, CallEnds DEF EndLabels
  <2>2. CASE pc'[r] = "regenerate" /\ todo'[r] = Waterfall /\ Waterfall # <<>>
    <3>1. op'[r] = SolveOp /\ todo'[r] \in MoreSlots /\ todo'[r] # <<>>
      BY <1>12, <2>2, SolveDoes, WaterfallTyped
    <3>2. QED
      BY <2>2, <3>1 DEF CallSound, AddLabels, PairLabels
  <2>3. QED
    BY <1>12, <2>1, <2>2, SolveDoes
<1>13. CASE RegenerateSlot(r)
  <2>1. /\ op'[r] = SolveOp /\ todo'[r] = Tail(todo[r]) /\ todo[r] \in MoreSlots /\ todo[r] # <<>>
        /\ \/ Tail(todo[r]) = <<>> /\ pc'[r] = "ok"
           \/ Tail(todo[r]) # <<>> /\ pc'[r] = "regenerate"
    BY <1>13, RegenerateSlotDoes
  <2>2. Tail(todo[r]) \in MoreSlots
    BY <2>1, Pieces DEF MoreSlots
  <2>3. CASE pc'[r] = "ok"
    BY <2>3, CallEnds DEF EndLabels
  <2>4. CASE pc'[r] = "regenerate"
    <3>1. Tail(todo[r]) # <<>>
      BY <2>1, <2>4
    <3>2. QED
      BY <2>1, <2>2, <2>4, <3>1 DEF CallSound, AddLabels, PairLabels
  <2>5. QED
    BY <2>1, <2>3, <2>4
<1>14. CASE RegenerateConflict(r)
  BY <1>14, RegenerateConflictDoes, CallEnds DEF EndLabels
<1>15. CASE PatchAssignment(r)
  BY <1>15, PatchDoes, CallEnds DEF EndLabels
<1>16. CASE Fail(r)
  <2>1. CASE pc'[r] = "failed"
    BY <2>1, CallEnds DEF EndLabels
  <2>2. CASE pc[r] = "lookup" /\ pc'[r] = "list"
    <3>1. op'[r] \in AddOps
      BY <1>16, <2>2, FailDoes DEF CallsSound, CallSound, AddLabels
    <3>2. QED
      BY <2>2, <3>1, CallAdds DEF AddLabels
  <2>3. QED
    BY <1>16, <2>1, <2>2, FailDoes
<1>17. QED
  BY <1>5, <1>6, <1>7, <1>8, <1>9, <1>10, <1>11, <1>12, <1>13, <1>14, <1>15, <1>16, StepIs

\* The rows left of the other solvers stay; those of r are one fewer.
LEMMA SolversStep ==
  ASSUME Typed, CallsSound, SolversSound, NEW r \in Requests, Step(r)
  PROVE  SolversSound'
<1>1. Kept(r)
  BY StepKeeps
<1>2. ASSUME NEW q \in Requests, q # r, pc'[q] = "regenerate" PROVE RowsLeft(q)'
  <2>1. pc[q] = "regenerate" /\ todo'[q] = todo[q]
    BY <1>1, <1>2 DEF Kept, Others
  <2>2. QED
    BY <2>1 DEF SolversSound, RowsLeft
<1>3. ASSUME pc'[r] = "regenerate" PROVE RowsLeft(r)'
  <2>1. Begin(r) => pc'[r] # "regenerate"
    BY BeginLabels
  <2>2. Solve(r) \/ RegenerateSlot(r)
    <3>1. Quiet(r) => pc'[r] # "regenerate"
      BY QuietDoes
    <3>2. ListSlots(r) => pc'[r] # "regenerate"
      BY ListSlotsDoes
    <3>3. CreateSlot(r) \/ CreateAssignment(r) => pc'[r] # "regenerate"
      BY CreateSlotDoes, CreateAssignmentDoes
    <3>4. AssignSlot(r) => pc'[r] # "regenerate"
      BY AssignSlotDoes
    <3>5. CreateLink(r) => pc'[r] # "regenerate"
      BY CreateLinkDoes, FirstPair DEF PairLabels
    <3>6. RegenerateConflict(r) \/ PatchAssignment(r) \/ Fail(r) => pc'[r] # "regenerate"
      BY RegenerateConflictDoes, PatchDoes, FailDoes
    <3>7. QED
      BY <1>3, <2>1, <3>1, <3>2, <3>3, <3>4, <3>5, <3>6, StepIs
  <2>3. CASE Solve(r)
    <3>1. todo'[r] = Waterfall
      BY <1>3, <2>3, SolveDoes
    <3>2. Len(todo'[r]) <= Len(Waterfall) /\ \A j \in DOMAIN todo'[r] : todo'[r][j] = Waterfall[Len(Waterfall) - Len(todo'[r]) + j]
      BY <3>1, WaterfallTyped
    <3>3. QED
      BY <3>2 DEF RowsLeft
  <2>4. CASE RegenerateSlot(r)
    <3>1. todo'[r] = Tail(todo[r]) /\ RowsLeft(r) /\ todo[r] \in MoreSlots /\ todo[r] # <<>>
      BY <2>4, RegenerateSlotDoes
    <3> DEFINE d == todo[r]
               n == Len(Waterfall)
    <3>2. /\ Len(d) \in Nat \ {0} /\ DOMAIN d = 1 .. Len(d)
          /\ Tail(d) \in Seq(SlotTerms) /\ Len(Tail(d)) = Len(d) - 1
          /\ \A j \in 1 .. Len(d) - 1 : Tail(d)[j] = d[j + 1]
      BY <3>1, Pieces DEF MoreSlots
    <3>3. n \in Nat /\ Len(d) <= n /\ \A j \in 1 .. Len(d) : d[j] = Waterfall[n - Len(d) + j]
      BY <3>1, <3>2, WaterfallTyped DEF RowsLeft
    <3>4. DOMAIN Tail(d) = 1 .. Len(d) - 1
      BY <3>2
    <3>5. ASSUME NEW j \in 1 .. Len(d) - 1 PROVE Tail(d)[j] = Waterfall[n - Len(Tail(d)) + j]
      <4> HIDE DEF d, n
      <4>1. j + 1 \in 1 .. Len(d) /\ n - Len(d) + (j + 1) = n - (Len(d) - 1) + j
        BY <3>2, <3>3
      <4>2. d[j + 1] = Waterfall[n - Len(d) + (j + 1)]
        BY <3>3, <4>1
      <4>3. QED
        BY <3>2, <4>1, <4>2
    <3>6. Len(Tail(d)) <= n
      BY <3>2, <3>3
    <3> HIDE DEF d
    <3>7. todo'[r] = Tail(d)
      BY <3>1 DEF d
    <3>8. QED
      BY <3>4, <3>5, <3>6, <3>7 DEF RowsLeft
  <2>5. QED
    BY <2>2, <2>3, <2>4
<1>4. QED
  BY <1>2, <1>3 DEF SolversSound

LEMMA IdKept ==
  ASSUME NEW s, IdSound(s), op'[s[1]] = op[s[1]],
         pc'[s[1]] \notin {"check", "lookup", "list", "create_slot", "solve", "regenerate"}
  PROVE  IdSound(s)'
BY DEF IdSound

\* A call makes its ids after it was asked for them, and each once.
LEMMA IdsStep ==
  ASSUME Typed, CallsSound, SolversSound, IdsSound, NEW r \in Requests, Step(r)
  PROVE  IdsSound'
<1>1. Kept(r)
  BY StepKeeps
<1>2. ASSUME NEW s \in DOMAIN slots, s[1] # r PROVE IdSound(s)'
  <2>1. IdSound(s)
    BY DEF IdsSound
  <2>2. CASE s[1] \notin Requests
    BY <2>2 DEF IdSound
  <2>3. CASE s[1] \in Requests
    <3>1. pc'[s[1]] = pc[s[1]] /\ op'[s[1]] = op[s[1]] /\ todo'[s[1]] = todo[s[1]]
      BY <1>1, <1>2, <2>3 DEF Kept, Others
    <3>2. QED
      BY <2>1, <3>1 DEF IdSound
  <2>4. QED
    BY <2>2, <2>3
<1>3. ASSUME NEW s \in DOMAIN slots, s[1] = r
      PROVE  /\ IdSound(s) /\ s[2] \in Nat
             /\ s[2] = 0 => op[r] \in AddOps /\ pc[r] \notin {"check", "lookup", "list", "create_slot"}
             /\ s[2] # 0 => /\ op[r] = SolveOp /\ pc[r] # "solve"
                            /\ pc[r] = "regenerate" => s[2] <= Len(Waterfall) - Len(todo[r])
             /\ op[r] \in AddOps \cup {SolveOp}
  <2>1. IdSound(s)
    BY DEF IdsSound
  <2>2. s[2] \in Nat
    BY DEF Typed, RowsTyped, SlotIds
  <2>3. QED
    BY <1>3, <2>1, <2>2 DEF IdSound
<1>4. SolveOp \notin AddOps /\ NoOp \notin AddOps /\ NoOp # SolveOp
      /\ \A o \in PatchOps : o \notin AddOps /\ o # SolveOp
  BY DEF SolveOp, NoOp, AddOps, PatchOps
<1>5. SUFFICES /\ \A s \in DOMAIN slots : s[1] = r => IdSound(s)'
               /\ \A s \in DOMAIN slots' : s \in DOMAIN slots \/ IdSound(s)'
  BY <1>2 DEF IdsSound
<1>6. CASE Begin(r)
  <2>1. op[r] = NoOp /\ slots' = slots
    BY <1>6, BeginDoes DEF rows
  <2>2. QED
    BY <1>3, <1>4, <2>1
<1>7. CASE Quiet(r)
  <2>1. UNCHANGED <<slots, op, todo>>
    BY <1>7, QuietDoes DEF rows
  <2>2. ASSUME NEW s \in DOMAIN slots, s[1] = r PROVE IdSound(s)'
    <3>1. CASE pc[r] \in {"check", "lookup"}
      <4>1. op[r] \in AddOps
        BY <3>1 DEF CallsSound, CallSound, AddLabels
      <4>2. QED
        BY <1>3, <1>4, <2>2, <3>1, <4>1
    <3>2. CASE pc[r] \notin {"check", "lookup"}
      <4>1. pc'[r] \in {"refused", "failed", "ok"}
        BY <1>7, <3>2, QuietDoes
      <4>2. QED
        BY <1>3, <2>1, <2>2, <4>1, IdKept
    <3>3. QED
      BY <3>1, <3>2
  <2>3. QED
    BY <2>1, <2>2
<1>8. CASE ListSlots(r)
  <2>1. op[r] \in AddOps /\ pc[r] = "list" /\ slots' = slots
    BY <1>8, ListSlotsDoes DEF rows
  <2>2. QED
    BY <1>3, <1>4, <2>1
<1>9. CASE CreateSlot(r)
  <2>1. op[r] \in AddOps /\ pc[r] = "create_slot" /\ op' = op /\ pc'[r] = "claim"
        /\ slots' = Put(slots, <<r, 0>>, FreeSlot(picked[r].tier, picked[r].index))
    BY <1>9, CreateSlotDoes
  <2>2. DOMAIN slots' = DOMAIN slots \cup {<<r, 0>>}
    BY <2>1 DEF Put
  <2>3. \A s \in DOMAIN slots : s[1] # r
    BY <1>3, <1>4, <2>1
  <2>4. IdSound(<<r, 0>>)'
    BY <2>1 DEF IdSound
  <2>5. QED
    BY <2>2, <2>3, <2>4
<1>10. CASE CreateAssignment(r)
  <2>1. pc'[r] = "assign" /\ UNCHANGED <<slots, op>>
    BY <1>10, CreateAssignmentDoes
  <2>2. QED
    BY <1>3, <2>1, IdKept
<1>11. CASE AssignSlot(r)
  <2>1. pc'[r] = "link" /\ DOMAIN slots' = DOMAIN slots /\ op' = op
    BY <1>11, AssignSlotDoes
  <2>2. QED
    BY <1>3, <2>1, IdKept
<1>12. CASE CreateLink(r)
  <2>1. pc'[r] \in {"claim", "view", "ok"} /\ UNCHANGED <<slots, op>>
    BY <1>12, CreateLinkDoes, FirstPair DEF PairLabels
  <2>2. QED
    BY <1>3, <2>1, IdKept
<1>13. CASE Solve(r)
  <2>1. op[r] = SolveOp /\ pc[r] = "solve" /\ slots' = slots
    BY <1>13, SolveDoes DEF rows
  <2>2. QED
    BY <1>3, <1>4, <2>1
<1>14. CASE RegenerateSlot(r)
  <2>1. PICK n \in Nat \ {0}, k \in Nat \ {0} :
        /\ n = Len(Waterfall) - Len(todo[r]) + 1 /\ k = Len(todo[r])
        /\ op[r] = SolveOp /\ pc[r] = "regenerate" /\ op' = op /\ pc'[r] \in {"ok", "regenerate"}
        /\ todo[r] \in MoreSlots /\ todo[r] # <<>> /\ todo'[r] = Tail(todo[r])
        /\ slots' = Put(slots, <<r, n>>, FreeSlot(Head(todo[r]).tier, Head(todo[r]).index))
    BY <1>14, RegenerateSlotDoes, Pieces DEF MoreSlots
  <2>2. Len(todo'[r]) = k - 1 /\ Len(Waterfall) \in Nat
    BY <2>1, Pieces, WaterfallTyped DEF MoreSlots
  <2>3. n <= Len(Waterfall) - Len(todo'[r])
    <3>1. n = Len(Waterfall) - k + 1
      BY <2>1
    <3>2. QED
      BY <2>2, <3>1
  <2>5. DOMAIN slots' = DOMAIN slots \cup {<<r, n>>}
    BY <2>1 DEF Put
  <2>6. IdSound(<<r, n>>)'
    BY <2>1, <2>3 DEF IdSound
  <2>7. ASSUME NEW s \in DOMAIN slots, s[1] = r PROVE IdSound(s)'
    <3>1. s[2] # 0 /\ s[2] \in Nat /\ s[2] <= Len(Waterfall) - Len(todo[r])
      BY <1>3, <1>4, <2>1, <2>7
    <3>2. s[2] <= Len(Waterfall) - Len(todo'[r])
      <4>1. s[2] <= Len(Waterfall) - k
        BY <2>1, <3>1
      <4>2. QED
        BY <2>2, <3>1, <4>1
    <3>3. QED
      BY <2>1, <2>7, <3>1, <3>2 DEF IdSound
  <2>8. QED
    BY <2>5, <2>6, <2>7
<1>15. CASE RegenerateConflict(r)
  <2>1. pc'[r] = "failed" /\ UNCHANGED <<slots, op>>
    BY <1>15, RegenerateConflictDoes DEF rows
  <2>2. QED
    BY <1>3, <2>1, IdKept
<1>16. CASE PatchAssignment(r)
  <2>1. pc'[r] \in {"ok", "refused"} /\ UNCHANGED <<slots, op>>
    BY <1>16, PatchDoes
  <2>2. QED
    BY <1>3, <2>1, IdKept
<1>17. CASE Fail(r)
  <2>1. UNCHANGED <<slots, op>>
    BY <1>17, FailDoes DEF rows
  <2>2. CASE pc'[r] = "failed"
    BY <1>3, <2>1, <2>2, IdKept
  <2>3. CASE pc[r] = "lookup" /\ pc'[r] = "list"
    <3>1. op[r] \in AddOps
      BY <2>3 DEF CallsSound, CallSound, AddLabels
    <3>2. QED
      BY <1>3, <1>4, <2>1, <2>3, <3>1
  <2>4. QED
    BY <1>17, <2>2, <2>3, FailDoes
<1>18. QED
  BY <1>6, <1>7, <1>8, <1>9, <1>10, <1>11, <1>12, <1>13, <1>14, <1>15, <1>16, <1>17, StepIs

-----------------------------------------------------------------------------
(* Slots and assignments name each other *)

\* What a talent holds, and what is stored, stays.
LEMMA HoldsOn ==
  ASSUME Grows, NEW e, Holds(e)
  PROVE  e.talent \in DOMAIN assignments' /\ assignments'[e.talent].slot = e.slot
BY DEF Grows, Holds

\* The slots that are made are free, and the others stay as they are.
LEMMA MadeFree ==
  ASSUME NEW id, NEW tier, NEW index, slots' = Put(slots, id, FreeSlot(tier, index))
  PROVE  /\ DOMAIN slots' = DOMAIN slots \cup {id}
         /\ ~slots'[id].allocated /\ slots'[id].tier = tier
         /\ \A s \in DOMAIN slots : s # id => slots'[s] = slots[s]
BY DEF Put, FreeSlot

LEMMA MadeKeepsPoints ==
  ASSUME NEW id, NEW tier, NEW index, slots' = Put(slots, id, FreeSlot(tier, index)),
         \A s \in DOMAIN slots : slots[s].allocated =>
           slots[s].talent \in DOMAIN assignments' /\ assignments'[slots[s].talent].slot = s
  PROVE  SlotPointsBack'
<1>1. ASSUME NEW s \in DOMAIN slots', slots'[s].allocated
      PROVE  slots'[s].talent \in DOMAIN assignments' /\ assignments'[slots'[s].talent].slot = s
  <2>1. s # id
    <3>1. ~slots'[id].allocated
      BY MadeFree
    <3>2. QED
      BY <1>1, <3>1
  <2>2. s \in DOMAIN slots /\ slots'[s] = slots[s]
    <3>1. DOMAIN slots' = DOMAIN slots \cup {id}
      BY MadeFree
    <3>2. \A w \in DOMAIN slots : w # id => slots'[w] = slots[w]
      BY MadeFree
    <3>3. QED
      BY <2>1, <3>1, <3>2
  <2>3. QED
    BY <1>1, <2>2
<1>2. QED
  BY <1>1 DEF SlotPointsBack

\* Only the first pair of r is new, or was done before.
LEMMA PointsStep ==
  ASSUME Typed, CallsSound, SolversSound, PointsInv, NEW r \in Requests, Step(r)
  PROVE  PointsInv'
<1>1. Kept(r)
  BY StepKeeps
<1>2. Grows /\ Others(r)
  BY <1>1 DEF Kept
<1>3. ASSUME NEW q \in Requests, pc[q] \in {"assign", "link"}, todo'[q] = todo[q]
      PROVE  Holds(Head(todo[q]))'
  <2>1. Holds(Head(todo[q]))
    BY <1>3 DEF PointsInv
  <2>2. QED
    BY <1>2, <1>3, <2>1, HoldsOn DEF Holds
<1>4. ASSUME NEW q \in Requests, q # r, pc'[q] \in {"assign", "link"} PROVE Holds(Head(todo[q]))'
  BY <1>2, <1>3, <1>4 DEF Others
<1>5. \A s \in DOMAIN slots : slots[s].allocated =>
        slots[s].talent \in DOMAIN assignments' /\ assignments'[slots[s].talent].slot = s
  BY <1>2 DEF PointsInv, SlotPointsBack, Grows
<1>6. CASE slots' = slots /\ pc'[r] \notin {"assign", "link"}
  BY <1>4, <1>5, <1>6 DEF PointsInv, SlotPointsBack
<1>7. CASE CreateSlot(r)
  <2>1. slots' = Put(slots, <<r, 0>>, FreeSlot(picked[r].tier, picked[r].index)) /\ pc'[r] = "claim"
    BY <1>7, CreateSlotDoes
  <2>2. SlotPointsBack'
    BY <1>5, <2>1, MadeKeepsPoints
  <2>3. QED
    BY <1>4, <2>1, <2>2 DEF PointsInv
<1>8. CASE RegenerateSlot(r)
  <2>1. slots' = Put(slots, <<r, Len(Waterfall) - Len(todo[r]) + 1>>,
                     FreeSlot(Head(todo[r]).tier, Head(todo[r]).index))
        /\ pc'[r] \notin {"assign", "link"}
    BY <1>8, RegenerateSlotDoes
  <2>2. SlotPointsBack'
    BY <1>5, <2>1, MadeKeepsPoints
  <2>3. QED
    BY <1>4, <2>1, <2>2 DEF PointsInv
<1>9. CASE CreateAssignment(r)
  <2> DEFINE e == Head(todo[r])
             rec == [slot |-> e.slot, status |-> "active"]
  <2>1. UNCHANGED <<slots, todo>> /\ assignments' = Put(assignments, e.talent, rec)
    BY <1>9, CreateAssignmentDoes
  <2>2. e.talent \in DOMAIN assignments' /\ assignments'[e.talent].slot = e.slot
    BY <2>1 DEF Put
  <2>3. Holds(Head(todo[r]))'
    BY <2>1, <2>2 DEF Holds
  <2>4. QED
    BY <1>4, <1>5, <2>1, <2>3 DEF PointsInv, SlotPointsBack
<1>10. CASE AssignSlot(r)
  <2> DEFINE e == Head(todo[r])
  <2>1. /\ pc[r] = "assign" /\ UNCHANGED <<assignments, todo>> /\ DOMAIN slots' = DOMAIN slots
        /\ slots'[e.slot].talent = e.talent
        /\ \A s \in DOMAIN slots : s # e.slot => slots'[s] = slots[s]
    BY <1>10, AssignSlotDoes
  <2>2. Holds(e)
    BY <2>1 DEF PointsInv
  <2>3. Holds(Head(todo[r]))'
    BY <1>3, <2>1
  <2> HIDE DEF e
  <2>4. SlotPointsBack'
    BY <1>5, <2>1, <2>2 DEF SlotPointsBack, Holds
  <2>5. QED
    BY <1>4, <2>3, <2>4 DEF PointsInv
<1>11. Begin(r) => slots' = slots /\ pc'[r] \notin {"assign", "link"}
  <2>1. ASSUME Begin(r) PROVE slots' = slots /\ pc'[r] \notin {"assign", "link"}
    <3>1. pc'[r] \in {"refused", "check", "claim", "solve", "patch"} /\ slots' = slots
      BY <2>1, BeginLabels, BeginDoes DEF rows
    <3>2. QED
      BY <3>1
  <2>2. QED
    BY <2>1
<1>12. Quiet(r) \/ ListSlots(r) => slots' = slots /\ pc'[r] \notin {"assign", "link"}
  BY QuietDoes, ListSlotsDoes DEF rows
<1>13. CreateLink(r) => slots' = slots /\ pc'[r] \notin {"assign", "link"}
  BY CreateLinkDoes, FirstPair DEF PairLabels
<1>14. Solve(r) \/ RegenerateConflict(r) => slots' = slots /\ pc'[r] \notin {"assign", "link"}
  BY SolveDoes, RegenerateConflictDoes DEF rows
<1>15. PatchAssignment(r) \/ Fail(r) => slots' = slots /\ pc'[r] \notin {"assign", "link"}
  BY PatchDoes, FailDoes DEF rows
<1>16. QED
  BY <1>6, <1>7, <1>8, <1>9, <1>10, <1>11, <1>12, <1>13, <1>14, <1>15, StepIs

-----------------------------------------------------------------------------
(* What a call has stored *)

LEMMA StoredOn ==
  ASSUME Grows, NEW e, Stored(e)
  PROVE  /\ e.talent \in DOMAIN assignments' /\ assignments'[e.talent].slot = e.slot
         /\ \E id \in DOMAIN links' : links'[id] = e.talent
<1>1. HasLink(e.talent) /\ Holds(e)
  BY DEF Stored
<1>2. \A t : HasLink(t) => \E id \in DOMAIN links' : links'[id] = t
  BY DEF Grows, HasLink
<1>3. QED
  BY <1>1, <1>2, HoldsOn

\* A call that does nothing keeps what it has stored.
LEMMA StoredStays ==
  ASSUME Grows, NEW q, StoredBy(q), op'[q] = op[q], todo'[q] = todo[q],
         \/ pc'[q] = pc[q]
         \/ pc[q] \in {"claim", "assign"} /\ pc'[q] \in {"assign", "link"}
         \/ op[q] \in AddOps /\ pc[q] = "view" /\ pc'[q] = "ok"
  PROVE  StoredBy(q)'
<1>1. ASSUME op[q] \in AddOps PROVE AddStored(q)'
  <2>1. AddStored(q)
    BY <1>1 DEF StoredBy
  <2>2. pc'[q] \in {"view", "ok"} => pc[q] \in {"view", "ok"}
    OBVIOUS
  <2>3. pc'[q] \in PairLabels => pc[q] \in PairLabels
    BY DEF PairLabels
  <2> DEFINE t == op[q].talent
  <2>4. pc'[q] \in {"view", "ok"} => t \in DOMAIN assignments' /\ \E id \in DOMAIN links' : links'[id] = t
    BY <2>1, <2>2 DEF AddStored, Grows, Assigned, HasLink
  <2>5. QED
    BY <2>1, <2>3, <2>4 DEF AddStored, Assigned, HasLink
<1>2. ASSUME op[q] \in ConfirmAsk, pc'[q] \in PairLabels PROVE ListStored(q)'
  <2>1. ListStored(q)
    <3>1. pc[q] \in PairLabels
      <4>1. op[q] \notin AddOps
        BY <1>2 DEF AddOps, ConfirmAsk
      <4>2. QED
        BY <1>2, <4>1 DEF PairLabels
    <3>2. QED
      BY <1>2, <3>1 DEF StoredBy
  <2>2. Done(q)' = Done(q)
    BY DEF Done
  <2>3. \A i \in 1 .. Done(q) : Stored(op[q].pairs[i])
    BY <2>1 DEF ListStored
  <2>4. \A i \in 1 .. Done(q) :
          /\ op[q].pairs[i].talent \in DOMAIN assignments'
          /\ assignments'[op[q].pairs[i].talent].slot = op[q].pairs[i].slot
          /\ \E id \in DOMAIN links' : links'[id] = op[q].pairs[i].talent
    BY <2>3, StoredOn
  <2>5. QED
    BY <2>1, <2>2, <2>4 DEF ListStored, Stored, Holds, HasLink
<1>3. ASSUME op[q] \in ConfirmAsk, pc'[q] = "ok" PROVE (\A i \in DOMAIN op[q].pairs : Stored(op[q].pairs[i]))'
  <2>1. pc[q] = "ok"
    <3>1. op[q] \notin AddOps
      BY <1>3 DEF AddOps, ConfirmAsk
    <3>2. QED
      BY <1>3, <3>1
  <2>2. \A i \in DOMAIN op[q].pairs : Stored(op[q].pairs[i])
    BY <1>3, <2>1 DEF StoredBy
  <2>3. \A i \in DOMAIN op[q].pairs :
          /\ op[q].pairs[i].talent \in DOMAIN assignments'
          /\ assignments'[op[q].pairs[i].talent].slot = op[q].pairs[i].slot
          /\ \E id \in DOMAIN links' : links'[id] = op[q].pairs[i].talent
    BY <2>2, StoredOn
  <2>4. QED
    BY <2>3 DEF Stored, Holds, HasLink
<1>4. QED
  BY <1>1, <1>2, <1>3 DEF StoredBy

\* A call with nothing to show for it.
LEMMA StoredNothing ==
  ASSUME NEW q, \/ op'[q] \notin AddOps \cup ConfirmAsk
                \/ pc'[q] \notin PairLabels \cup {"view", "ok"}
  PROVE  StoredBy(q)'
BY DEF StoredBy, AddStored

\* A call of AddHuman has one pair to write.
LEMMA StoredOne ==
  ASSUME NEW q, op'[q] \in AddOps, pc'[q] \in PairLabels, NEW s,
         todo'[q] = <<[talent |-> op'[q].talent, slot |-> s]>>
  PROVE  StoredBy(q)'
<1> DEFINE d == <<[talent |-> op'[q].talent, slot |-> s]>>
<1>1. Len(d) = 1 /\ d[1].talent = op'[q].talent
  OBVIOUS
<1>2. pc'[q] \notin {"view", "ok"} /\ op'[q] \notin ConfirmAsk
  BY DEF PairLabels, AddOps, ConfirmAsk
<1> HIDE DEF d
<1>3. todo'[q] = d
  BY DEF d
<1>4. QED
  BY <1>1, <1>2, <1>3 DEF StoredBy, AddStored

LEMMA BeginStores ==
  ASSUME Typed, CallsSound, NEW r \in Requests, Begin(r)
  PROVE  StoredBy(r)'
<1>1. PICK o \in AddOps \cup PatchOps \cup {SolveOp} \cup ConfirmOps(DOMAIN slots) :
        /\ op'[r] = o
        /\ todo'[r] = IF o.kind = "confirm" THEN o.pairs ELSE <<>>
        /\ o.kind = "add" => pc'[r] \in {"refused", "check"}
        /\ o.kind = "confirm" => pc'[r] = "claim"
  BY BeginDoes
<1>2. CASE o \in AddOps
  <2>1. pc'[r] \in {"refused", "check"}
    BY <1>1, <1>2 DEF AddOps
  <2>2. QED
    BY <2>1, StoredNothing DEF PairLabels
<1>3. CASE o \in PatchOps \cup {SolveOp}
  <2>1. o \notin AddOps \cup ConfirmAsk
    BY <1>3 DEF AddOps, PatchOps, SolveOp, ConfirmAsk
  <2>2. QED
    BY <1>1, <2>1, StoredNothing
<1>4. CASE o \in ConfirmOps(DOMAIN slots)
  <2>1. DOMAIN slots \in SUBSET SlotIds
    BY DEF Typed, RowsTyped
  <2>2. o \in ConfirmAsk /\ o.pairs \in Pairs /\ o.kind = "confirm"
    BY <1>4, <2>1, ConfirmIsAsked
  <2>3. o \notin AddOps /\ pc'[r] = "claim" /\ todo'[r] = o.pairs
    BY <1>1, <2>2 DEF AddOps
  <2>4. Len(o.pairs) \in Nat /\ DOMAIN o.pairs = 1 .. Len(o.pairs)
    BY <2>2 DEF Pairs
  <2>5. Len(op'[r].pairs) - Len(todo'[r]) = 0
    BY <1>1, <2>3, <2>4
  <2>6. Done(r)' = 0
    BY <2>5 DEF Done
  <2>7. \A j \in DOMAIN todo'[r] : todo'[r][j] = op'[r].pairs[0 + j]
    BY <1>1, <2>3, <2>4
  <2>8. ListStored(r)'
    BY <2>6, <2>7 DEF ListStored
  <2>9. QED
    BY <1>1, <2>3, <2>8 DEF StoredBy
<1>5. QED
  BY <1>2, <1>3, <1>4

LEMMA NoMore ==
  ASSUME NEW S, NEW s \in Seq(S)
  PROVE  s = <<>> <=> Len(s) = 0
OBVIOUS

\* The pair that gets its link is stored now, after those before it.
LEMMA LinkStores ==
  ASSUME Typed, CallsSound, PointsInv, StoredInv, NEW r \in Requests, CreateLink(r)
  PROVE  StoredBy(r)'
<1> DEFINE d == todo[r]
           e == Head(todo[r])
<1>1. /\ pc[r] = "link" /\ Grows /\ todo'[r] = Tail(d)
      /\ UNCHANGED <<assignments, op>>
      /\ \E id \in DOMAIN links' : links'[id] = e.talent
      /\ Tail(d) # <<>> => pc'[r] = "claim"
      /\ Tail(d) = <<>> /\ op[r] \in AddOps => pc'[r] = "view"
      /\ Tail(d) = <<>> /\ op[r] \in ConfirmAsk => pc'[r] = "ok"
  BY CreateLinkDoes DEF Kept
<1>2. /\ op[r] \in AddOps \cup ConfirmAsk
      /\ Len(d) \in Nat \ {0} /\ DOMAIN d = 1 .. Len(d) /\ e = d[1]
      /\ Tail(d) \in Pairs /\ Len(Tail(d)) = Len(d) - 1
      /\ \A j \in 1 .. Len(d) - 1 : Tail(d)[j] = d[j + 1]
  BY <1>1, FirstPair DEF PairLabels
<1>3. Holds(e) /\ StoredBy(r)
  BY <1>1 DEF PointsInv, StoredInv
<1>4. Tail(d) = <<>> <=> Len(d) = 1
  <2>1. Tail(d) \in Seq(Pair)
    BY <1>2 DEF Pairs
  <2> HIDE DEF d
  <2>2. Tail(d) = <<>> <=> Len(Tail(d)) = 0
    BY <2>1, NoMore
  <2>3. QED
    BY <1>2, <2>2
<1>5. /\ e.talent \in DOMAIN assignments' /\ assignments'[e.talent].slot = e.slot
      /\ \E id \in DOMAIN links' : links'[id] = e.talent
  BY <1>1, <1>3 DEF Holds
<1> HIDE DEF e
<1>6. CASE op[r] \in AddOps
  <2>1. Len(d) = 1 /\ d[1].talent = op[r].talent
    BY <1>1, <1>3, <1>6 DEF StoredBy, AddStored, PairLabels
  <2>2. pc'[r] = "view" /\ op[r] \notin ConfirmAsk
    <3>1. op[r] \notin ConfirmAsk
      BY <1>6 DEF AddOps, ConfirmAsk
    <3>2. QED
      BY <1>1, <1>4, <1>6, <2>1, <3>1
  <2>3. op'[r] = op[r] /\ e.talent = op[r].talent
    BY <1>1, <1>2, <2>1
  <2>4. AddStored(r)'
    BY <1>5, <2>2, <2>3 DEF AddStored, Assigned, HasLink, PairLabels
  <2>5. QED
    BY <2>2, <2>3, <2>4 DEF StoredBy
<1>7. CASE op[r] \in ConfirmAsk
  <2> DEFINE ps == op[r].pairs
             n == Len(ps)
             k == Len(d)
             done == Done(r)
  <2>1. ListStored(r)
    BY <1>1, <1>3, <1>7 DEF StoredBy, PairLabels
  <2>2. ps \in Pairs /\ n \in Nat /\ DOMAIN ps = 1 .. n
    BY <1>7 DEF ConfirmAsk, Pairs
  <2>3. done = n - k /\ done \in Nat
    BY <2>1 DEF ListStored, Done
  <2>4. /\ \A j \in 1 .. k : d[j] = ps[done + j]
        /\ \A i \in 1 .. done : Stored(ps[i])
    BY <1>2, <2>1 DEF ListStored
  <2>5. \A i \in 1 .. done :
          /\ ps[i].talent \in DOMAIN assignments' /\ assignments'[ps[i].talent].slot = ps[i].slot
          /\ \E id \in DOMAIN links' : links'[id] = ps[i].talent
    BY <1>1, <2>4, StoredOn
  <2> HIDE DEF n, k, done, ps
  <2>6. k \in Nat \ {0} /\ e = ps[done + 1]
    BY <1>2, <2>4 DEF k
  <2>7. \A i \in 1 .. done + 1 :
          /\ ps[i].talent \in DOMAIN assignments' /\ assignments'[ps[i].talent].slot = ps[i].slot
          /\ \E id \in DOMAIN links' : links'[id] = ps[i].talent
    <3>1. \A i \in 1 .. done + 1 : i \in 1 .. done \/ i = done + 1
      BY <2>3
    <3>2. QED
      BY <1>5, <2>5, <2>6, <3>1
  <2>8. op'[r] = op[r] /\ op'[r].pairs = ps /\ op[r] \notin AddOps
    BY <1>1, <1>7 DEF ps, AddOps, ConfirmAsk
  <2>9. CASE Tail(d) = <<>>
    <3>1. k = 1
      BY <1>4, <2>9 DEF k
    <3>2. done + 1 = n
      BY <2>2, <2>3, <3>1
    <3>3. (\A i \in DOMAIN op[r].pairs : Stored(op[r].pairs[i]))'
      BY <2>2, <2>7, <2>8, <3>2 DEF Stored, Holds, HasLink
    <3>4. pc'[r] = "ok"
      BY <1>1, <1>7, <2>9
    <3>5. QED
      BY <2>8, <3>3, <3>4 DEF StoredBy, PairLabels
  <2>10. CASE Tail(d) # <<>>
    <3>1. pc'[r] = "claim"
      BY <1>1, <2>10
    <3>2. Len(todo'[r]) = k - 1 /\ Len(op'[r].pairs) = n
      BY <1>1, <1>2, <2>8 DEF n, k
    <3>3. n - (k - 1) = done + 1
      BY <2>2, <2>3, <2>6
    <3>4. Done(r)' = done + 1
      BY <3>2, <3>3 DEF Done
    <3>5. \A j \in 1 .. k - 1 : todo'[r][j] = ps[(done + 1) + j]
      <4>1. \A j \in 1 .. k - 1 : todo'[r][j] = d[j + 1]
        BY <1>1, <1>2 DEF k
      <4>2. \A j \in 1 .. k - 1 : j + 1 \in 1 .. k /\ done + (j + 1) = (done + 1) + j
        BY <2>3, <2>6
      <4> HIDE DEF d
      <4>3. QED
        BY <2>4, <4>1, <4>2
    <3>6. DOMAIN todo'[r] = 1 .. k - 1
      BY <1>1, <1>2, <3>2 DEF Pairs
    <3>7. done + 1 \in Nat
      BY <2>3
    <3>8. ListStored(r)'
      <4>1. \A j \in DOMAIN todo'[r] : todo'[r][j] = op'[r].pairs[Done(r)' + j]
        BY <2>8, <3>4, <3>5, <3>6
      <4>2. \A i \in 1 .. Done(r)' :
              /\ op'[r].pairs[i].talent \in DOMAIN assignments'
              /\ assignments'[op'[r].pairs[i].talent].slot = op'[r].pairs[i].slot
              /\ \E id \in DOMAIN links' : links'[id] = op'[r].pairs[i].talent
        BY <2>7, <2>8, <3>4
      <4>3. QED
        BY <3>4, <3>7, <4>1, <4>2 DEF ListStored, Stored, Holds, HasLink
    <3>9. QED
      BY <2>8, <3>1, <3>8 DEF StoredBy
  <2>11. QED
    BY <2>9, <2>10
<1>8. QED
  BY <1>2, <1>6, <1>7

LEMMA StoredStep ==
  ASSUME Typed, CallsSound, SolversSound, PointsInv, StoredInv, NEW r \in Requests, Step(r)
  PROVE  StoredInv'
<1>1. Grows /\ Others(r)
  BY StepKeeps DEF Kept
<1>2. ASSUME NEW q \in Requests, q # r PROVE StoredBy(q)'
  <2>1. StoredBy(q) /\ op'[q] = op[q] /\ todo'[q] = todo[q] /\ pc'[q] = pc[q]
    BY <1>1, <1>2 DEF StoredInv, Others
  <2>2. QED
    BY <1>1, <2>1, StoredStays
<1>3. SUFFICES StoredBy(r)'
  BY <1>2 DEF StoredInv
<1>4. StoredBy(r)
  BY DEF StoredInv
<1>5. CASE Begin(r)
  BY <1>5, BeginStores
<1>6. CASE Quiet(r)
  <2>1. UNCHANGED <<op, todo>>
    BY <1>6, QuietDoes
  <2>2. CASE pc[r] = "view" /\ pc'[r] = "ok"
    <3>1. op[r] \in AddOps
      BY <2>2 DEF CallsSound, CallSound, AddLabels
    <3>2. QED
      BY <1>1, <1>4, <2>1, <2>2, <3>1, StoredStays
  <2>3. CASE pc'[r] \in {"lookup", "refused", "list", "failed"}
    BY <2>3, StoredNothing DEF PairLabels
  <2>4. QED
    BY <1>6, <2>2, <2>3, QuietDoes
<1>7. CASE ListSlots(r)
  <2>1. op'[r] = op[r] /\ op[r] \in AddOps
    BY <1>7, ListSlotsDoes
  <2>2. CASE pc'[r] = "claim" /\ \E s \in DOMAIN slots : todo'[r] = <<[talent |-> op[r].talent, slot |-> s]>>
    BY <2>1, <2>2, StoredOne DEF PairLabels
  <2>3. CASE pc'[r] \in {"create_slot", "refused"}
    BY <2>3, StoredNothing DEF PairLabels
  <2>4. QED
    BY <1>7, <2>2, <2>3, ListSlotsDoes
<1>8. CASE CreateSlot(r)
  <2>1. op'[r] = op[r] /\ op[r] \in AddOps /\ pc'[r] = "claim"
        /\ todo'[r] = <<[talent |-> op[r].talent, slot |-> <<r, 0>>]>>
    BY <1>8, CreateSlotDoes
  <2>2. QED
    BY <2>1, StoredOne DEF PairLabels
<1>9. CASE CreateAssignment(r)
  <2>1. pc[r] = "claim" /\ pc'[r] = "assign" /\ UNCHANGED <<op, todo>>
    BY <1>9, CreateAssignmentDoes
  <2>2. QED
    BY <1>1, <1>4, <2>1, StoredStays
<1>10. CASE AssignSlot(r)
  <2>1. pc[r] = "assign" /\ pc'[r] = "link" /\ UNCHANGED <<op, todo>>
    BY <1>10, AssignSlotDoes
  <2>2. QED
    BY <1>1, <1>4, <2>1, StoredStays
<1>11. CASE CreateLink(r)
  BY <1>11, LinkStores
<1>12. CASE Solve(r) \/ RegenerateSlot(r) \/ PatchAssignment(r)
  <2>1. op'[r] = SolveOp \/ op'[r] \in PatchOps
    BY <1>12, SolveDoes, RegenerateSlotDoes, PatchDoes
  <2>2. op'[r] \notin AddOps \cup ConfirmAsk
    BY <2>1 DEF AddOps, PatchOps, SolveOp, ConfirmAsk
  <2>3. QED
    BY <2>2, StoredNothing
<1>13. CASE RegenerateConflict(r) \/ Fail(r)
  <2>1. pc'[r] \in {"list", "failed"}
    BY <1>13, RegenerateConflictDoes, FailDoes
  <2>2. QED
    BY <2>1, StoredNothing DEF PairLabels
<1>14. QED
  BY <1>5, <1>6, <1>7, <1>8, <1>9, <1>10, <1>11, <1>12, <1>13, StepIs

-----------------------------------------------------------------------------
(* Talents share no slot while listings are up to date *)

Clean == ~raced /\ failures = 0 /\ ~confirmed

LEMMA FreshOn ==
  ASSUME FreshListed, NEW r \in Requests, Others(r), fresh \subseteq Requests, fresh' \subseteq fresh \cup {r},
         r \in fresh' => /\ pc'[r] \notin {"idle", "check", "lookup", "list", "solve", "patch"}
                         /\ op'[r] \notin ConfirmAsk
  PROVE  FreshListed'
BY DEF FreshListed, Others

LEMMA ListedStep ==
  ASSUME Typed, CallsSound, SolversSound, FreshListed, NEW r \in Requests, Step(r)
  PROVE  FreshListed' /\ fresh' \subseteq fresh \cup {r}
<1>1. Others(r) /\ fresh \subseteq Requests
  BY StepKeeps DEF Kept, Typed, GhostsTyped
<1>2. SUFFICES /\ fresh' \subseteq fresh \cup {r}
               /\ r \in fresh' => /\ pc'[r] \notin {"idle", "check", "lookup", "list", "solve", "patch"}
                                  /\ op'[r] \notin ConfirmAsk
  BY <1>1, FreshOn
<1>3. r \in fresh => pc[r] \notin {"idle", "check", "lookup", "list", "solve", "patch"} /\ op[r] \notin ConfirmAsk
  BY DEF FreshListed
<1>4. CASE Begin(r)
  BY <1>3, <1>4, BeginDoes DEF ghosts
<1>5. CASE Quiet(r)
  <2>1. fresh' = fresh /\ op' = op
    BY <1>5, QuietDoes DEF ghosts
  <2>2. CASE pc[r] \in {"check", "lookup"}
    BY <1>3, <2>1, <2>2
  <2>3. CASE pc'[r] \in {"refused", "failed", "ok"}
    BY <1>3, <2>1, <2>3
  <2>4. QED
    BY <1>5, <2>2, <2>3, QuietDoes
<1>6. CASE ListSlots(r)
  <2>1. op'[r] \in AddOps /\ fresh' \subseteq fresh \cup {r} /\ pc'[r] \in {"claim", "create_slot", "refused"}
    BY <1>6, ListSlotsDoes
  <2>2. op'[r] \notin ConfirmAsk
    BY <2>1 DEF AddOps, ConfirmAsk
  <2>3. QED
    BY <2>1, <2>2
<1>7. CASE CreateSlot(r)
  <2>1. op' = op /\ fresh' \subseteq fresh /\ pc'[r] = "claim"
    BY <1>7, CreateSlotDoes DEF Written
  <2>2. QED
    BY <1>3, <2>1
<1>8. CASE CreateAssignment(r)
  <2>1. op' = op /\ fresh' \subseteq fresh /\ pc'[r] = "assign"
    BY <1>8, CreateAssignmentDoes DEF Claimed
  <2>2. QED
    BY <1>3, <2>1
<1>9. CASE AssignSlot(r)
  <2>1. op' = op /\ fresh' = fresh /\ pc'[r] = "link"
    BY <1>9, AssignSlotDoes DEF ghosts
  <2>2. QED
    BY <1>3, <2>1
<1>10. CASE CreateLink(r)
  <2>1. op' = op /\ fresh' = fresh /\ pc'[r] \in {"claim", "view", "ok"}
    BY <1>10, CreateLinkDoes, FirstPair DEF ghosts, PairLabels
  <2>2. QED
    BY <1>3, <2>1
<1>11. CASE Solve(r)
  <2>1. op'[r] = SolveOp /\ fresh' \subseteq fresh \cup {r} /\ pc'[r] \in {"ok", "refused", "regenerate"}
    BY <1>11, SolveDoes
  <2>2. SolveOp \notin ConfirmAsk
    BY DEF SolveOp, ConfirmAsk
  <2>3. QED
    BY <2>1, <2>2
<1>12. CASE RegenerateSlot(r)
  <2>1. op' = op /\ fresh' \subseteq fresh /\ pc'[r] \in {"ok", "regenerate"}
    BY <1>12, RegenerateSlotDoes DEF Written
  <2>2. QED
    BY <1>3, <2>1
<1>13. CASE RegenerateConflict(r)
  <2>1. op' = op /\ fresh' = fresh /\ pc'[r] = "failed"
    BY <1>13, RegenerateConflictDoes DEF ghosts
  <2>2. QED
    BY <1>3, <2>1
<1>14. CASE PatchAssignment(r)
  BY <1>3, <1>14, PatchDoes DEF ghosts
<1>15. CASE Fail(r)
  <2>1. op' = op /\ fresh' = fresh
    BY <1>15, FailDoes
  <2>2. CASE pc[r] = "lookup"
    BY <1>3, <2>1, <2>2
  <2>3. CASE pc'[r] = "failed"
    BY <1>3, <2>1, <2>3
  <2>4. QED
    BY <1>15, <2>2, <2>3, FailDoes
<1>16. QED
  BY <1>4, <1>5, <1>6, <1>7, <1>8, <1>9, <1>10, <1>11, <1>12, <1>13, <1>14, <1>15, StepIs

\* A step that assigns no slot to a talent.
LEMMA SharingOn ==
  ASSUME Unshared, TakenOrTaking, FreshUnclaimed, NEW r \in Requests, Others(r), fresh \subseteq Requests,
         fresh' \subseteq fresh \cup {r}, DOMAIN slots \subseteq DOMAIN slots',
         \A s \in DOMAIN slots : slots[s].allocated => slots'[s].allocated,
         DOMAIN assignments' = DOMAIN assignments,
         \A t \in DOMAIN assignments : assignments'[t].slot = assignments[t].slot,
         pc[r] = "assign" => slots'[Head(todo[r]).slot].allocated,
         r \in fresh' /\ pc'[r] = "claim" /\ op'[r] \in AddOps =>
           \A t \in DOMAIN assignments : assignments[t].slot # Head(todo'[r]).slot
  PROVE  Unshared' /\ TakenOrTaking' /\ FreshUnclaimed'
<1>1. Unshared'
  BY DEF Unshared
<1>2. TakenOrTaking'
  <2>1. ASSUME NEW t \in DOMAIN assignments
        PROVE  /\ assignments[t].slot \in DOMAIN slots'
               /\ \/ slots'[assignments[t].slot].allocated
                  \/ \E q \in Requests : pc'[q] = "assign" /\ Head(todo'[q]).slot = assignments[t].slot
    <3> DEFINE s == assignments[t].slot
    <3>1. s \in DOMAIN slots /\ (slots[s].allocated \/ \E q \in Requests : pc[q] = "assign" /\ Head(todo[q]).slot = s)
      BY DEF TakenOrTaking
    <3> HIDE DEF s
    <3>2. s \in DOMAIN slots'
      BY <3>1
    <3>3. CASE slots[s].allocated
      BY <3>1, <3>2, <3>3 DEF s
    <3>4. CASE \E q \in Requests : pc[q] = "assign" /\ Head(todo[q]).slot = s
      <4>1. PICK q \in Requests : pc[q] = "assign" /\ Head(todo[q]).slot = s
        BY <3>4
      <4>2. CASE q = r
        <5>1. slots'[s].allocated
          BY <4>1, <4>2
        <5>2. QED
          BY <3>2, <5>1 DEF s
      <4>3. CASE q # r
        <5>1. pc'[q] = "assign" /\ Head(todo'[q]).slot = s
          BY <4>1, <4>3 DEF Others
        <5>2. QED
          BY <3>2, <5>1 DEF s
      <4>4. QED
        BY <4>2, <4>3
    <3>5. QED
      BY <3>1, <3>3, <3>4
  <2>2. QED
    BY <2>1 DEF TakenOrTaking
<1>3. FreshUnclaimed'
  <2>1. ASSUME NEW q \in fresh', pc'[q] = "claim", op'[q] \in AddOps, NEW t \in DOMAIN assignments
        PROVE  assignments[t].slot # Head(todo'[q]).slot
    <3>1. CASE q = r
      BY <2>1, <3>1
    <3>2. CASE q # r
      <4>1. q \in fresh /\ q \in Requests \ {r}
        BY <3>2
      <4>2. pc[q] = "claim" /\ op[q] \in AddOps /\ todo'[q] = todo[q]
        BY <2>1, <4>1 DEF Others
      <4>3. QED
        BY <4>1, <4>2 DEF FreshUnclaimed, Unclaimed
    <3>3. QED
      BY <3>1, <3>2
  <2>2. QED
    BY <2>1 DEF FreshUnclaimed, Unclaimed
<1>4. QED
  BY <1>1, <1>2, <1>3

\* A step that touches no row.
LEMMA SharingQuiet ==
  ASSUME Unshared, TakenOrTaking, FreshUnclaimed, NEW r \in Requests, Others(r), fresh \subseteq Requests,
         fresh' \subseteq fresh \cup {r}, UNCHANGED <<slots, assignments>>, pc[r] # "assign",
         \/ r \notin fresh' \/ pc'[r] # "claim" \/ op'[r] \notin AddOps
         \/ \A t \in DOMAIN assignments : assignments[t].slot # Head(todo'[r]).slot
  PROVE  Unshared' /\ TakenOrTaking' /\ FreshUnclaimed'
<1>1. DOMAIN slots \subseteq DOMAIN slots' /\ DOMAIN assignments' = DOMAIN assignments
      /\ (\A s \in DOMAIN slots : slots[s].allocated => slots'[s].allocated)
      /\ \A t \in DOMAIN assignments : assignments'[t].slot = assignments[t].slot
  OBVIOUS
<1>2. QED
  BY <1>1, SharingOn

LEMMA SharingMade ==
  ASSUME Unshared, TakenOrTaking, FreshUnclaimed, NEW r \in Requests, Others(r), fresh \subseteq Requests,
         fresh' \subseteq fresh \cup {r}, assignments' = assignments, pc[r] # "assign",
         NEW id, id \notin DOMAIN slots, NEW tier, NEW index, slots' = Put(slots, id, FreeSlot(tier, index)),
         pc'[r] = "claim" => Head(todo'[r]).slot = id
  PROVE  Unshared' /\ TakenOrTaking' /\ FreshUnclaimed'
<1>1. DOMAIN slots' = DOMAIN slots \cup {id}
  BY MadeFree
<1>2. \A s \in DOMAIN slots : s # id => slots'[s] = slots[s]
  BY MadeFree
<1>3. \A s \in DOMAIN slots : slots[s].allocated => slots'[s].allocated
  <2>1. \A s \in DOMAIN slots : slots'[s] = slots[s]
    BY <1>2
  <2>2. QED
    BY <2>1
<1>4. \A t \in DOMAIN assignments : assignments[t].slot # id
  BY DEF TakenOrTaking
<1>5. DOMAIN slots \subseteq DOMAIN slots' /\ DOMAIN assignments' = DOMAIN assignments
      /\ \A t \in DOMAIN assignments : assignments'[t].slot = assignments[t].slot
  BY <1>1
<1>6. r \in fresh' /\ pc'[r] = "claim" /\ op'[r] \in AddOps =>
        \A t \in DOMAIN assignments : assignments[t].slot # Head(todo'[r]).slot
  BY <1>4
<1>7. QED
  BY <1>3, <1>5, <1>6, SharingOn

\* A slot that no talent has is assigned to one.
LEMMA SharingTaken ==
  ASSUME Typed, CallsSound, FreshListed, Unshared, TakenOrTaking, FreshUnclaimed,
         NEW r \in Requests, CreateAssignment(r), ~raced', ~confirmed'
  PROVE  Unshared' /\ TakenOrTaking' /\ FreshUnclaimed'
<1> DEFINE e == Head(todo[r])
           rec == [slot |-> e.slot, status |-> "active"]
<1>1. /\ Others(r) /\ pc[r] = "claim" /\ pc'[r] = "assign" /\ e.talent \notin DOMAIN assignments
      /\ assignments' = Put(assignments, e.talent, rec)
      /\ r \in fresh /\ fresh' = fresh \cap {r} /\ op[r].kind # "confirm"
      /\ UNCHANGED <<slots, todo>>
  BY CreateAssignmentDoes DEF Kept, Claimed, Assigned
<1>2. op[r] \in AddOps /\ e.slot \in DOMAIN slots
  <2>1. op[r] \in AddOps \cup ConfirmAsk /\ e.slot \in DOMAIN slots
    BY <1>1, FirstPair DEF PairLabels
  <2>2. QED
    BY <1>1, <2>1 DEF ConfirmAsk
<1>3. \A t \in DOMAIN assignments : assignments[t].slot # e.slot
  BY <1>1, <1>2 DEF FreshUnclaimed, Unclaimed
<1>4. /\ DOMAIN assignments' = DOMAIN assignments \cup {e.talent}
      /\ assignments'[e.talent].slot = e.slot
      /\ \A t \in DOMAIN assignments : assignments'[t] = assignments[t]
  BY <1>1 DEF Put
<1>5. Head(todo'[r]).slot = e.slot
  BY <1>1
<1> HIDE DEF e, rec
<1>6. Unshared'
  BY <1>3, <1>4 DEF Unshared
<1>7. TakenOrTaking'
  <2>1. ASSUME NEW t \in DOMAIN assignments
        PROVE  /\ assignments[t].slot \in DOMAIN slots
               /\ \/ slots[assignments[t].slot].allocated
                  \/ \E q \in Requests : pc'[q] = "assign" /\ Head(todo'[q]).slot = assignments[t].slot
    <3> DEFINE s == assignments[t].slot
    <3>1. s \in DOMAIN slots /\ (slots[s].allocated \/ \E q \in Requests : pc[q] = "assign" /\ Head(todo[q]).slot = s)
      BY DEF TakenOrTaking
    <3>2. ASSUME NEW q \in Requests, pc[q] = "assign" PROVE pc'[q] = "assign" /\ todo'[q] = todo[q]
      BY <1>1, <3>2 DEF Others
    <3> HIDE DEF s
    <3>3. (\E q \in Requests : pc[q] = "assign" /\ Head(todo[q]).slot = s)
            => \E q \in Requests : pc'[q] = "assign" /\ Head(todo'[q]).slot = s
      BY <3>2
    <3>4. QED
      BY <3>1, <3>3 DEF s
  <2>2. e.slot \in DOMAIN slots /\ \E q \in Requests : pc'[q] = "assign" /\ Head(todo'[q]).slot = e.slot
    BY <1>1, <1>2, <1>5
  <2>3. \A t \in DOMAIN assignments : assignments'[t].slot = assignments[t].slot
    BY <1>4
  <2>4. \A t \in DOMAIN assignments' : t \in DOMAIN assignments \/ t = e.talent
    BY <1>4
  <2>5. ASSUME NEW t \in DOMAIN assignments'
        PROVE  /\ assignments'[t].slot \in DOMAIN slots'
               /\ \/ slots'[assignments'[t].slot].allocated
                  \/ \E q \in Requests : pc'[q] = "assign" /\ Head(todo'[q]).slot = assignments'[t].slot
    <3>1. slots' = slots
      BY <1>1
    <3>2. CASE t \in DOMAIN assignments
      BY <2>1, <2>3, <3>1, <3>2
    <3>3. CASE t = e.talent
      BY <1>4, <2>2, <3>1, <3>3
    <3>4. QED
      BY <2>4, <3>2, <3>3
  <2>6. QED
    BY <2>5 DEF TakenOrTaking
<1>8. FreshUnclaimed'
  <2>1. \A q \in fresh' : pc'[q] # "claim"
    BY <1>1
  <2>2. QED
    BY <2>1 DEF FreshUnclaimed
<1>9. QED
  BY <1>6, <1>7, <1>8

LEMMA SharingStep ==
  ASSUME Typed, CallsSound, IdsSound, SolversSound, PointsInv, StoredInv, SharingInv, NEW r \in Requests, Step(r)
  PROVE  SharingInv'
<1>1. FreshListed
  BY DEF SharingInv
<1>2. FreshListed' /\ fresh' \subseteq fresh \cup {r}
  BY <1>1, ListedStep
<1>3. Others(r) /\ fresh \subseteq Requests
  BY StepKeeps DEF Kept, Typed, GhostsTyped
<1>4. SUFFICES ASSUME ~raced', failures' = 0, ~confirmed'
               PROVE  Unshared' /\ TakenOrTaking' /\ FreshUnclaimed'
  BY <1>2 DEF SharingInv
<1>5. r \in fresh => pc[r] \notin {"idle", "check", "lookup", "list", "solve", "patch"}
  BY <1>1 DEF FreshListed
<1>6. ASSUME ~raced, failures = 0, ~confirmed PROVE Unshared /\ TakenOrTaking /\ FreshUnclaimed
  BY <1>6 DEF SharingInv
<1>7. CASE Begin(r)
  <2>1. UNCHANGED ghosts /\ UNCHANGED <<slots, assignments>> /\ pc[r] = "idle"
    BY <1>7, BeginDoes DEF rows
  <2>2. ~raced /\ failures = 0 /\ ~confirmed /\ r \notin fresh'
    BY <1>4, <1>5, <2>1 DEF ghosts
  <2>3. QED
    BY <1>2, <1>3, <1>6, <2>1, <2>2, SharingQuiet
<1>8. CASE Quiet(r)
  <2>1. UNCHANGED ghosts /\ UNCHANGED <<slots, assignments>> /\ pc[r] # "assign" /\ pc'[r] # "claim"
    BY <1>8, QuietDoes DEF rows
  <2>2. ~raced /\ failures = 0 /\ ~confirmed
    BY <1>4, <2>1 DEF ghosts
  <2>3. QED
    BY <1>2, <1>3, <1>6, <2>1, <2>2, SharingQuiet
<1>9. CASE ListSlots(r)
  <2>1. /\ UNCHANGED <<slots, assignments>> /\ pc[r] = "list"
        /\ ~raced /\ failures = 0 /\ ~confirmed
        /\ fresh' = IF \E q \in Requests : pc[q] = "assign" THEN fresh ELSE fresh \cup {r}
    BY <1>4, <1>9, ListSlotsDoes DEF rows
  <2>2. ASSUME r \in fresh', pc'[r] = "claim"
        PROVE  \A t \in DOMAIN assignments : assignments[t].slot # Head(todo'[r]).slot
    <3>1. \A q \in Requests : pc[q] # "assign"
      BY <1>5, <2>1, <2>2
    <3>2. \A t \in DOMAIN assignments : slots[assignments[t].slot].allocated
      BY <1>6, <2>1, <3>1 DEF TakenOrTaking
    <3>3. PICK s \in DOMAIN slots : ~slots[s].allocated /\ todo'[r] = <<[talent |-> op[r].talent, slot |-> s]>>
      BY <1>9, <2>2, ListSlotsDoes
    <3>4. Head(todo'[r]).slot = s
      BY <3>3
    <3>5. QED
      BY <3>2, <3>3, <3>4
  <2>3. QED
    <3>1. Unshared /\ TakenOrTaking /\ FreshUnclaimed /\ pc[r] # "assign"
      BY <1>6, <2>1
    <3>2. CASE r \in fresh' /\ pc'[r] = "claim"
      <4>1. \A t \in DOMAIN assignments : assignments[t].slot # Head(todo'[r]).slot
        BY <2>2, <3>2
      <4>2. QED
        BY <1>2, <1>3, <2>1, <3>1, <4>1, SharingQuiet
    <3>3. CASE ~(r \in fresh' /\ pc'[r] = "claim")
      BY <1>2, <1>3, <2>1, <3>1, <3>3, SharingQuiet
    <3>4. QED
      BY <3>2, <3>3
<1>10. CASE CreateSlot(r)
  <2>1. /\ assignments' = assignments /\ pc[r] = "create_slot"
        /\ ~raced /\ failures = 0 /\ ~confirmed
        /\ slots' = Put(slots, <<r, 0>>, FreeSlot(picked[r].tier, picked[r].index))
        /\ todo'[r] = <<[talent |-> op[r].talent, slot |-> <<r, 0>>]>>
    BY <1>4, <1>10, CreateSlotDoes DEF Written
  <2>2. <<r, 0>> \notin DOMAIN slots
    <3>1. ASSUME <<r, 0>> \in DOMAIN slots PROVE FALSE
      <4>1. IdSound(<<r, 0>>)
        BY <3>1 DEF IdsSound
      <4>2. QED
        BY <2>1, <4>1 DEF IdSound
    <3>2. QED
      BY <3>1
  <2>3. Head(todo'[r]).slot = <<r, 0>>
    BY <2>1
  <2>4. QED
    BY <1>2, <1>3, <1>6, <2>1, <2>2, <2>3, SharingMade
<1>11. CASE CreateAssignment(r)
  <2>1. ~raced /\ failures = 0 /\ ~confirmed
    BY <1>4, <1>11, CreateAssignmentDoes DEF Claimed
  <2>2. QED
    BY <1>1, <1>4, <1>6, <1>11, <2>1, SharingTaken
<1>12. CASE AssignSlot(r)
  <2>1. /\ ~raced /\ failures = 0 /\ ~confirmed
        /\ assignments' = assignments /\ DOMAIN slots' = DOMAIN slots /\ pc'[r] = "link"
        /\ slots'[Head(todo[r]).slot].allocated = TRUE
        /\ \A s \in DOMAIN slots : s # Head(todo[r]).slot => slots'[s] = slots[s]
    BY <1>4, <1>12, AssignSlotDoes DEF ghosts
  <2>2. \A s \in DOMAIN slots : slots[s].allocated => slots'[s].allocated
    <3>1. ASSUME NEW s \in DOMAIN slots, slots[s].allocated PROVE slots'[s].allocated
      <4>1. CASE s = Head(todo[r]).slot
        BY <2>1, <4>1
      <4>2. CASE s # Head(todo[r]).slot
        BY <2>1, <3>1, <4>2
      <4>3. QED
        BY <4>1, <4>2
    <3>2. QED
      BY <3>1
  <2>3. Unshared /\ TakenOrTaking /\ FreshUnclaimed
    BY <1>6, <2>1
  <2>4. /\ DOMAIN slots \subseteq DOMAIN slots' /\ DOMAIN assignments' = DOMAIN assignments
        /\ \A t \in DOMAIN assignments : assignments'[t].slot = assignments[t].slot
        /\ slots'[Head(todo[r]).slot].allocated
        /\ pc'[r] # "claim"
    BY <2>1
  <2>5. QED
    BY <1>2, <1>3, <2>2, <2>3, <2>4, SharingOn
<1>13. CASE CreateLink(r)
  <2>1. UNCHANGED ghosts /\ UNCHANGED <<slots, assignments, op>> /\ pc[r] = "link" /\ todo'[r] = Tail(todo[r])
    BY <1>13, CreateLinkDoes
  <2>2. ~raced /\ failures = 0 /\ ~confirmed
    BY <1>4, <2>1 DEF ghosts
  <2>3. pc'[r] = "claim" => op'[r] \notin AddOps
    <3>1. ASSUME op[r] \in AddOps PROVE pc'[r] = "view"
      <4>1. Len(todo[r]) = 1
        BY <2>1, <3>1 DEF StoredInv, StoredBy, AddStored, PairLabels
      <4>2. Tail(todo[r]) \in Seq(Pair) /\ Len(Tail(todo[r])) = Len(todo[r]) - 1
        BY <2>1, FirstPair DEF PairLabels, Pairs
      <4>3. Len(Tail(todo[r])) = 0
        BY <4>1, <4>2
      <4>4. Tail(todo[r]) = <<>>
        BY <4>2, <4>3, NoMore
      <4>5. QED
        BY <1>13, <3>1, <4>4, CreateLinkDoes
    <3>2. QED
      BY <2>1, <3>1
  <2>4. QED
    BY <1>2, <1>3, <1>6, <2>1, <2>2, <2>3, SharingQuiet
<1>14. CASE Solve(r)
  <2>1. /\ UNCHANGED <<slots, assignments>> /\ pc[r] = "solve" /\ pc'[r] # "claim"
        /\ ~raced /\ failures = 0 /\ ~confirmed
    <3>1. UNCHANGED <<slots, assignments, raced, confirmed>> /\ pc[r] = "solve" /\ pc'[r] # "claim" /\ failures' = failures
      BY <1>14, SolveDoes DEF rows
    <3>2. QED
      BY <1>4, <3>1
  <2>2. QED
    BY <1>2, <1>3, <1>6, <2>1, SharingQuiet
<1>15. CASE RegenerateSlot(r)
  <2> DEFINE n == Len(Waterfall) - Len(todo[r]) + 1
  <2>1. /\ assignments' = assignments /\ pc[r] = "regenerate" /\ pc'[r] # "claim"
        /\ ~raced /\ failures = 0 /\ ~confirmed
        /\ slots' = Put(slots, <<r, n>>, FreeSlot(Head(todo[r]).tier, Head(todo[r]).index))
        /\ n \in Nat \ {0}
    BY <1>4, <1>15, RegenerateSlotDoes DEF Written
  <2>2. <<r, n>> \notin DOMAIN slots
    <3>1. ASSUME <<r, n>> \in DOMAIN slots PROVE FALSE
      <4>1. IdSound(<<r, n>>)
        BY <3>1 DEF IdsSound
      <4>2. n <= Len(Waterfall) - Len(todo[r])
        <5> HIDE DEF n
        <5>1. n # 0
          BY <2>1
        <5>2. QED
          BY <2>1, <4>1, <5>1 DEF IdSound
      <4>3. Len(Waterfall) \in Nat /\ Len(todo[r]) \in Nat
        <5>1. todo[r] \in MoreSlots
          BY <1>15, RegenerateSlotDoes
        <5>2. QED
          BY <5>1, WaterfallTyped DEF MoreSlots
      <4>4. QED
        BY <4>2, <4>3
    <3>2. QED
      BY <3>1
  <2> HIDE DEF n
  <2>3. QED
    BY <1>2, <1>3, <1>6, <2>1, <2>2, SharingMade
<1>16. CASE RegenerateConflict(r)
  <2>1. UNCHANGED ghosts /\ UNCHANGED <<slots, assignments>> /\ pc[r] = "regenerate" /\ pc'[r] = "failed"
    BY <1>16, RegenerateConflictDoes DEF rows
  <2>2. ~raced /\ failures = 0 /\ ~confirmed
    BY <1>4, <2>1 DEF ghosts
  <2>3. QED
    BY <1>2, <1>3, <1>6, <2>1, <2>2, SharingQuiet
<1>17. CASE PatchAssignment(r)
  <2>1. /\ UNCHANGED ghosts /\ slots' = slots /\ pc[r] = "patch" /\ pc'[r] # "claim"
        /\ DOMAIN assignments' = DOMAIN assignments
        /\ \A t \in DOMAIN assignments : assignments'[t].slot = assignments[t].slot
    BY <1>17, PatchDoes
  <2>2. ~raced /\ failures = 0 /\ ~confirmed
    BY <1>4, <2>1 DEF ghosts
  <2>3. DOMAIN slots \subseteq DOMAIN slots' /\ \A s \in DOMAIN slots : slots[s].allocated => slots'[s].allocated
    BY <2>1
  <2>4. QED
    BY <1>2, <1>3, <1>6, <2>1, <2>2, <2>3, SharingOn
<1>18. CASE Fail(r)
  <2>1. failures' > 0
    BY <1>18, FailDoes
  <2>2. QED
    BY <1>4, <2>1
<1>19. QED
  BY <1>7, <1>8, <1>9, <1>10, <1>11, <1>12, <1>13, <1>14, <1>15, <1>16, <1>17, <1>18, StepIs

-----------------------------------------------------------------------------
(* The budget while no listing is overtaken *)

LEMMA OneLess ==
  ASSUME NEW c \in Nat \ {0}, NEW b \in Nat
  PROVE  b + (c - 1) * b = c * b
OBVIOUS

LEMMA MoreTimes ==
  ASSUME NEW m \in Nat, NEW n \in Nat, m <= n, NEW b \in Nat
  PROVE  m * b <= n * b
<1>1. n - m \in Nat /\ (n - m) * b \in Nat
  OBVIOUS
<1>2. n * b = m * b + (n - m) * b
  OBVIOUS
<1>3. m * b \in Nat /\ n * b \in Nat
  OBVIOUS
<1>4. QED
  BY <1>1, <1>2, <1>3

\* A sum of bounded numbers is bounded.
LEMMA SumBounded ==
  ASSUME NEW S, IsFiniteSet(S), NEW f, NEW b \in Nat, \A x \in S : f[x] \in Nat /\ f[x] <= b
  PROVE  SumFunctionOnSet(f, S) <= Cardinality(S) * b
<1> DEFINE D == {U \in SUBSET S : ~(SumFunctionOnSet(f, U) <= Cardinality(U) * b)}
           B == {Cardinality(U) : U \in D}
<1>1. \A s \in SUBSET S : IsFiniteSet(s) /\ Cardinality(s) \in Nat
  BY FS_Subset, FS_CardinalityType
<1>2. SUFFICES ASSUME D # {} PROVE FALSE
  <2>1. S \notin D => SumFunctionOnSet(f, S) <= Cardinality(S) * b
    OBVIOUS
  <2>2. QED
    BY <2>1
<1>3. B \in SUBSET Nat /\ B # {}
  BY <1>1, <1>2
<1>4. PICK m \in B : \A n \in B : m <= n
  BY <1>3, LeastNat
<1>5. PICK U \in D : Cardinality(U) = m
  BY <1>4
<1>6. U \in SUBSET S /\ ~(SumFunctionOnSet(f, U) <= m * b)
  BY <1>5
<1>7. SumFunctionOnSet(f, U) = IF U = {} THEN 0 ELSE f[Some(U)] + SumFunctionOnSet(f, Rest(U))
  BY <1>1, <1>6, SumStep
<1>8. U # {}
  <2>1. m \in Nat /\ 0 <= m * b
    BY <1>3, <1>4
  <2>2. QED
    BY <1>6, <1>7, <2>1
<1>9. Some(U) \in S /\ Rest(U) \in SUBSET S /\ Cardinality(Rest(U)) = m - 1 /\ m \in Nat \ {0}
  BY <1>1, <1>5, <1>6, <1>8, RestSmaller
<1>10. SumFunctionOnSet(f, Rest(U)) <= (m - 1) * b
  <2>1. m - 1 \notin B
    BY <1>3, <1>4, <1>9
  <2>2. Rest(U) \notin D
    BY <1>9, <2>1
  <2>3. QED
    BY <1>9, <2>2
<1>11. SumFunctionOnSet(f, Rest(U)) \in Nat /\ f[Some(U)] \in Nat /\ f[Some(U)] <= b
  <2>1. \A x \in Rest(U) : f[x] \in Nat
    BY <1>9
  <2>2. QED
    BY <1>1, <1>9, <2>1, SumOfNats
<1>12. b + (m - 1) * b = m * b /\ (m - 1) * b \in Nat
  <2>1. m - 1 \in Nat
    BY <1>9
  <2>2. QED
    BY <1>9, <2>1, OneLess
<1> HIDE DEF D, B
<1> DEFINE x == SumFunctionOnSet(f, Rest(U))
           y == (m - 1) * b
           z == m * b
<1>13. SumFunctionOnSet(f, U) = f[Some(U)] + x
  BY <1>7, <1>8
<1>14. x <= y /\ x \in Nat /\ y \in Nat /\ b + y = z
  BY <1>10, <1>11, <1>12
<1>15. ~(f[Some(U)] + x <= z)
  BY <1>6, <1>13
<1> HIDE DEF x, y, z
<1>16. QED
  BY <1>11, <1>14, <1>15

\* The first slots of the waterfall, whoever makes them, fit the budget.
LEMMA PrefixFits ==
  ASSUME NEW c, NEW n \in Nat, n <= Len(Waterfall), NEW f, \A m \in 1 .. n : f[<<c, m>>] = Waterfall[m].tier
  PROVE  /\ IsFiniteSet({c} \X (1 .. n))
         /\ SumFunctionOnSet(f, {c} \X (1 .. n)) <= CycleBudget
<1> DEFINE S == {c} \X (1 .. n)
<1>1. IsFiniteSet(S) /\ Cardinality(S) = n
  <2>1. IsFiniteSet({c}) /\ Cardinality({c}) = 1
    BY FS_Singleton
  <2>2. IsFiniteSet(1 .. n) /\ Cardinality(1 .. n) = n
    BY FS_Interval
  <2> DEFINE C == {c}
             I == 1 .. n
  <2>3. IsFiniteSet(C) /\ Cardinality(C) = 1 /\ IsFiniteSet(I) /\ Cardinality(I) = n
    BY <2>1, <2>2
  <2> HIDE DEF C, I
  <2>4. IsFiniteSet(C \X I) /\ Cardinality(C \X I) = Cardinality(C) * Cardinality(I)
    BY <2>3, FS_Product
  <2>5. Cardinality(C \X I) = n
    BY <2>3, <2>4
  <2>6. QED
    BY <2>4, <2>5 DEF C, I
<1>2. PICK fair \in Nat, capacity \in Nat :
        /\ capacity * fair <= CycleBudget /\ Len(Waterfall) <= capacity
        /\ \A m \in 1 .. Len(Waterfall) : Waterfall[m].tier <= fair
  BY WaterfallTyped
<1>3. Len(Waterfall) \in Nat /\ \A m \in 1 .. Len(Waterfall) : Waterfall[m].tier \in Nat
  <2>1. \A m \in 1 .. Len(Waterfall) : Waterfall[m] \in SlotTerms
    BY WaterfallTyped
  <2>2. QED
    BY <2>1, WaterfallTyped DEF SlotTerms
<1>4. \A m \in 1 .. n : f[<<c, m>>] \in Nat /\ f[<<c, m>>] <= fair
  <2>1. \A m \in 1 .. n : m \in 1 .. Len(Waterfall)
    BY <1>3
  <2>2. QED
    BY <1>2, <1>3, <2>1
<1>5. \A x \in S : \E m \in 1 .. n : x = <<c, m>>
  OBVIOUS
<1>6. \A x \in S : f[x] \in Nat /\ f[x] <= fair
  BY <1>4, <1>5
<1> HIDE DEF S
<1>7. SumFunctionOnSet(f, S) <= n * fair /\ SumFunctionOnSet(f, S) \in Nat
  <2>1. SumFunctionOnSet(f, S) <= Cardinality(S) * fair
    BY <1>1, <1>6, SumBounded
  <2>2. SumFunctionOnSet(f, S) \in Nat
    BY <1>1, <1>6, SumOfNats
  <2>3. QED
    BY <1>1, <2>1, <2>2
<1>8. n * fair <= capacity * fair
  <2>1. n <= capacity
    BY <1>2, <1>3
  <2>2. QED
    BY <2>1, MoreTimes
<1>9. n * fair \in Nat /\ capacity * fair \in Nat /\ CycleBudget \in Nat
  BY AssignmentAssumption
<1> DEFINE x == n * fair
           y == capacity * fair
           z == SumFunctionOnSet(f, S)
<1>10. z <= x /\ x <= y /\ y <= CycleBudget /\ x \in Nat /\ y \in Nat /\ z \in Nat
  BY <1>2, <1>7, <1>8, <1>9
<1> HIDE DEF x, y, z
<1>11. z <= CycleBudget
  BY <1>9, <1>10
<1>12. QED
  BY <1>1, <1>11 DEF S, z

LEMMA TiersAre ==
  ASSUME slots \in [DOMAIN slots -> SlotRow], IsFiniteSet(DOMAIN slots)
  PROVE  Tiers(DOMAIN slots) \in Nat
<1> DEFINE f == [s \in DOMAIN slots |-> slots[s].tier]
<1>1. \A s \in DOMAIN slots : f[s] \in Nat
  BY DEF SlotRow
<1> HIDE DEF f
<1>2. SumFunctionOnSet(f, DOMAIN slots) \in Nat
  BY <1>1, SumOfNats
<1>3. QED
  BY <1>2 DEF Tiers, f

\* Slots of the same tiers.
LEMMA TiersSame ==
  ASSUME IsFiniteSet(DOMAIN slots), DOMAIN slots' = DOMAIN slots, \A s \in DOMAIN slots : slots'[s].tier = slots[s].tier
  PROVE  Tiers(DOMAIN slots)' = Tiers(DOMAIN slots)
<1> DEFINE f == [s \in DOMAIN slots |-> slots[s].tier]
           g == [s \in DOMAIN slots |-> slots'[s].tier]
<1>1. f = g
  OBVIOUS
<1>2. Tiers(DOMAIN slots) = SumFunctionOnSet(f, DOMAIN slots)
  BY DEF Tiers
<1>3. Tiers(DOMAIN slots)' = SumFunctionOnSet(g, DOMAIN slots)
  BY DEF Tiers
<1>4. QED
  BY <1>1, <1>2, <1>3

\* A slot more.
LEMMA TiersMore ==
  ASSUME slots \in [DOMAIN slots -> SlotRow], IsFiniteSet(DOMAIN slots),
         NEW id, id \notin DOMAIN slots, NEW tier \in Nat, NEW index, slots' = Put(slots, id, FreeSlot(tier, index))
  PROVE  Tiers(DOMAIN slots)' = Tiers(DOMAIN slots) + tier
<1> DEFINE f == [s \in DOMAIN slots |-> slots[s].tier]
           h == [s \in DOMAIN slots' |-> slots'[s].tier]
           S == DOMAIN slots \cup {id}
<1>1. DOMAIN slots' = S /\ slots'[id].tier = tier
  BY MadeFree
<1>2. \A s \in DOMAIN slots : s # id => slots'[s] = slots[s]
  BY MadeFree
<1>3. \A s \in DOMAIN slots : h[s] = f[s] /\ f[s] \in Nat
  BY <1>1, <1>2 DEF SlotRow
<1>4. h[id] = tier
  BY <1>1
<1>5. Tiers(DOMAIN slots) = SumFunctionOnSet(f, DOMAIN slots) /\ Tiers(DOMAIN slots)' = SumFunctionOnSet(h, DOMAIN slots')
  BY DEF Tiers
<1> HIDE DEF f, h
<1>6. SumFunctionOnSet(h, DOMAIN slots) = SumFunctionOnSet(f, DOMAIN slots)
  BY <1>3, SumSame
<1>7. SumFunctionOnSet(f, DOMAIN slots) \in Nat
  BY <1>3, SumOfNats
<1>8. SumFunctionOnSet(h, S) = h[id] + SumFunctionOnSet(h, S \ {id})
  <2>1. IsFiniteSet(S)
    BY FS_AddElement
  <2>2. \A x \in S : h[x] \in Nat
    BY <1>3, <1>4
  <2>3. id \in S
    OBVIOUS
  <2> HIDE DEF S
  <2>4. QED
    BY <2>1, <2>2, <2>3, SumOfNats
<1>9. S \ {id} = DOMAIN slots
  OBVIOUS
<1> HIDE DEF S
<1>10. QED
  BY <1>1, <1>4, <1>5, <1>6, <1>7, <1>8, <1>9

\* What is known of a call that is about to make slots.
Funded(q) ==
  /\ pc[q] = "create_slot" => Tiers(DOMAIN slots) + picked[q].tier <= CycleBudget
  /\ pc[q] = "regenerate" =>
       LET n == Len(Waterfall) - Len(todo[q])
       IN  /\ DOMAIN slots = {q} \X (1 .. n)
           /\ \A m \in 1 .. n : slots[<<q, m>>].tier = Waterfall[m].tier

LEMMA FundingIs ==
  FundingInv <=> (~raced /\ ~stacked => Tiers(DOMAIN slots) <= CycleBudget /\ \A q \in fresh : Funded(q))
BY DEF FundingInv, Funded

\* A step that makes no slot.
LEMMA FundingOn ==
  ASSUME FundingInv, ~raced, ~stacked, IsFiniteSet(DOMAIN slots), NEW r \in Requests, Others(r),
         fresh \subseteq Requests, fresh' \subseteq fresh \cup {r},
         DOMAIN slots' = DOMAIN slots, \A s \in DOMAIN slots : slots'[s].tier = slots[s].tier,
         Funded(r)'
  PROVE  FundingInv'
<1>1. Tiers(DOMAIN slots)' = Tiers(DOMAIN slots)
  BY TiersSame
<1>2. Tiers(DOMAIN slots) <= CycleBudget /\ \A q \in fresh : Funded(q)
  BY FundingIs
<1>3. ASSUME NEW q \in fresh' PROVE Funded(q)'
  <2>1. CASE q = r
    BY <2>1
  <2>2. CASE q # r
    <3>1. q \in fresh /\ q \in Requests \ {r}
      BY <2>2
    <3>2. Funded(q) /\ pc'[q] = pc[q] /\ picked'[q] = picked[q] /\ todo'[q] = todo[q]
      BY <1>2, <3>1 DEF Others
    <3>3. pc[q] = "create_slot" => (Tiers(DOMAIN slots) + picked[q].tier <= CycleBudget)'
      <4>1. ASSUME pc[q] = "create_slot" PROVE Tiers(DOMAIN slots)' + picked'[q].tier <= CycleBudget
        <5>1. Tiers(DOMAIN slots) + picked[q].tier <= CycleBudget
          BY <3>2, <4>1 DEF Funded
        <5>2. QED
          BY <1>1, <3>2, <5>1
      <4>2. QED
        BY <4>1
    <3>4. ASSUME pc[q] = "regenerate"
          PROVE  /\ DOMAIN slots' = {q} \X (1 .. Len(Waterfall) - Len(todo'[q]))
                 /\ \A m \in 1 .. Len(Waterfall) - Len(todo'[q]) : slots'[<<q, m>>].tier = Waterfall[m].tier
      <4> DEFINE I == 1 .. Len(Waterfall) - Len(todo[q])
      <4>1. DOMAIN slots = {q} \X I /\ \A m \in I : slots[<<q, m>>].tier = Waterfall[m].tier
        BY <3>2, <3>4 DEF Funded
      <4>2. 1 .. Len(Waterfall) - Len(todo'[q]) = I
        BY <3>2
      <4> HIDE DEF I
      <4>3. \A m \in I : <<q, m>> \in DOMAIN slots
        BY <4>1
      <4>4. QED
        BY <4>1, <4>2, <4>3
    <3>5. QED
      BY <3>2, <3>3, <3>4 DEF Funded
  <2>3. QED
    BY <2>1, <2>2
<1>4. Tiers(DOMAIN slots)' <= CycleBudget
  BY <1>1, <1>2
<1>5. QED
  BY <1>3, <1>4 DEF FundingInv, Funded

LEMMA FundedElsewhere ==
  ASSUME NEW r, pc'[r] \notin {"create_slot", "regenerate"}
  PROVE  Funded(r)'
BY DEF Funded

\* The solver's next slot is the next one of the waterfall.
LEMMA FundingRegenerates ==
  ASSUME Typed, CallsSound, SolversSound, FundingInv, NEW r \in Requests, RegenerateSlot(r), ~raced', ~stacked'
  PROVE  FundingInv'
<1> DEFINE rec == Head(todo[r])
<1>1. /\ ~raced /\ ~stacked /\ r \in fresh /\ fresh' = fresh \cap {r}
      /\ pc[r] = "regenerate" /\ RowsLeft(r) /\ todo[r] \in MoreSlots /\ todo[r] # <<>>
      /\ slots' = Put(slots, <<r, Len(Waterfall) - Len(todo[r]) + 1>>, FreeSlot(rec.tier, rec.index))
      /\ todo'[r] = Tail(todo[r])
      /\ pc'[r] \in {"ok", "regenerate"}
  BY RegenerateSlotDoes DEF Written
<1>2. /\ Len(todo[r]) \in Nat \ {0} /\ DOMAIN todo[r] = 1 .. Len(todo[r]) /\ rec = todo[r][1]
      /\ Len(todo'[r]) = Len(todo[r]) - 1
  BY <1>1, Pieces DEF MoreSlots
<1>3. Len(Waterfall) \in Nat /\ Len(todo[r]) <= Len(Waterfall)
      /\ rec = Waterfall[Len(Waterfall) - Len(todo[r]) + 1]
  <2>1. Len(todo[r]) <= Len(Waterfall)
        /\ \A j \in DOMAIN todo[r] : todo[r][j] = Waterfall[Len(Waterfall) - Len(todo[r]) + j]
    BY <1>1 DEF RowsLeft
  <2>2. 1 \in DOMAIN todo[r]
    BY <1>2
  <2>3. todo[r][1] = Waterfall[Len(Waterfall) - Len(todo[r]) + 1]
    BY <2>1, <2>2
  <2>4. QED
    BY <1>2, <2>1, <2>3, WaterfallTyped
<1>4. PICK n \in Nat : n = Len(Waterfall) - Len(todo[r]) /\ n + 1 <= Len(Waterfall)
                       /\ n + 1 = Len(Waterfall) - Len(todo'[r])
  <2>1. PICK w \in Nat, k \in Nat \ {0} : w = Len(Waterfall) /\ k = Len(todo[r]) /\ k <= w /\ Len(todo'[r]) = k - 1
    BY <1>2, <1>3
  <2>2. w - k \in Nat /\ w - k + 1 <= w /\ w - k + 1 = w - (k - 1)
    BY <2>1
  <2>3. QED
    BY <2>1, <2>2
<1>5. DOMAIN slots = {r} \X (1 .. n) /\ \A m \in 1 .. n : slots[<<r, m>>].tier = Waterfall[m].tier
  BY <1>1, <1>4, FundingIs DEF Funded
<1>6. rec = Waterfall[n + 1] /\ slots' = Put(slots, <<r, n + 1>>, FreeSlot(rec.tier, rec.index))
  BY <1>1, <1>3, <1>4
<1> HIDE DEF rec
<1> DEFINE id == <<r, n + 1>>
           tier == rec.tier
           index == rec.index
<1>7. DOMAIN slots' = DOMAIN slots \cup {<<r, n + 1>>} /\ slots'[<<r, n + 1>>].tier = rec.tier
  <2>1. slots' = Put(slots, id, FreeSlot(tier, index))
    BY <1>6
  <2> HIDE DEF id, tier, index
  <2>2. DOMAIN slots' = DOMAIN slots \cup {id} /\ slots'[id].tier = tier
    BY <2>1, MadeFree
  <2>3. QED
    BY <2>2 DEF id, tier
<1>8. \A s \in DOMAIN slots : s # <<r, n + 1>> => slots'[s] = slots[s]
  <2>1. slots' = Put(slots, id, FreeSlot(tier, index))
    BY <1>6
  <2> HIDE DEF id, tier, index
  <2>2. \A s \in DOMAIN slots : s # id => slots'[s] = slots[s]
    BY <2>1, MadeFree
  <2>3. QED
    BY <2>2 DEF id
<1> HIDE DEF id, tier, index
<1>9. DOMAIN slots' = {r} \X (1 .. n + 1)
  <2>1. 1 .. n + 1 = (1 .. n) \cup {n + 1}
    OBVIOUS
  <2>2. QED
    BY <1>5, <1>7, <2>1
<1>10. \A m \in 1 .. n + 1 : slots'[<<r, m>>].tier = Waterfall[m].tier
  <2>1. ASSUME NEW m \in 1 .. n PROVE slots'[<<r, m>>].tier = Waterfall[m].tier
    <3>1. <<r, m>> \in DOMAIN slots
      BY <1>5
    <3>2. m # n + 1
      BY <1>4
    <3>3. <<r, m>> # <<r, n + 1>>
      BY <3>2
    <3>4. QED
      BY <1>5, <1>8, <3>1, <3>3
  <2>2. \A m \in 1 .. n + 1 : m \in 1 .. n \/ m = n + 1
    BY <1>4
  <2>3. QED
    BY <1>6, <1>7, <2>1, <2>2
<1>11. Tiers(DOMAIN slots)' <= CycleBudget
  <2> DEFINE h == [s \in DOMAIN slots' |-> slots'[s].tier]
  <2>1. \A m \in 1 .. n + 1 : h[<<r, m>>] = Waterfall[m].tier
    BY <1>9, <1>10
  <2>2. Tiers(DOMAIN slots)' = SumFunctionOnSet(h, {r} \X (1 .. n + 1))
    BY <1>9 DEF Tiers
  <2> HIDE DEF h
  <2>3. n + 1 \in Nat /\ n + 1 <= Len(Waterfall)
    BY <1>4
  <2> DEFINE k == n + 1
  <2>4. k \in Nat /\ k <= Len(Waterfall) /\ \A m \in 1 .. k : h[<<r, m>>] = Waterfall[m].tier
    BY <2>1, <2>3
  <2>5. Tiers(DOMAIN slots)' = SumFunctionOnSet(h, {r} \X (1 .. k))
    BY <2>2
  <2> HIDE DEF k
  <2>6. QED
    BY <2>4, <2>5, PrefixFits
<1>12. Funded(r)'
  <2>1. pc'[r] # "create_slot"
    BY <1>1
  <2>2. Len(Waterfall) - Len(todo'[r]) = n + 1
    BY <1>4
  <2>3. QED
    BY <1>9, <1>10, <2>1, <2>2 DEF Funded
<1>13. \A q \in fresh' : q = r
  BY <1>1
<1>14. QED
  BY <1>11, <1>12, <1>13 DEF FundingInv, Funded

LEMMA FundingStep ==
  ASSUME Typed, CallsSound, SolversSound, IdsSound, SharingInv, FundingInv, NEW r \in Requests, Step(r)
  PROVE  FundingInv'
<1>1. FreshListed
  BY DEF SharingInv
<1>2. fresh' \subseteq fresh \cup {r}
  BY <1>1, ListedStep
<1>3. Others(r) /\ fresh \subseteq Requests /\ slots \in [DOMAIN slots -> SlotRow] /\ IsFiniteSet(DOMAIN slots)
  BY StepKeeps DEF Kept, Typed, GhostsTyped, RowsTyped
<1>4. SUFFICES ASSUME ~raced', ~stacked' PROVE FundingInv'
  BY DEF FundingInv
<1>5. ASSUME ~raced, ~stacked, slots' = slots, Funded(r)' PROVE FundingInv'
  <2>1. DOMAIN slots' = DOMAIN slots /\ \A s \in DOMAIN slots : slots'[s].tier = slots[s].tier
    BY <1>5
  <2>2. QED
    BY <1>2, <1>3, <1>5, <2>1, FundingOn
<1>6. CASE Begin(r)
  <2>1. UNCHANGED ghosts /\ slots' = slots /\ pc'[r] \in {"refused", "check", "claim", "solve", "patch"}
    BY <1>6, BeginDoes, BeginLabels DEF rows
  <2>2. ~raced /\ ~stacked
    BY <1>4, <2>1 DEF ghosts
  <2>3. QED
    BY <1>5, <2>1, <2>2, FundedElsewhere
<1>7. CASE Quiet(r)
  <2>1. UNCHANGED ghosts /\ slots' = slots /\ pc'[r] \notin {"create_slot", "regenerate"}
    BY <1>7, QuietDoes DEF rows
  <2>2. ~raced /\ ~stacked
    BY <1>4, <2>1 DEF ghosts
  <2>3. QED
    BY <1>5, <2>1, <2>2, FundedElsewhere
<1>8. CASE ListSlots(r)
  <2>1. ~raced /\ ~stacked /\ slots' = slots
    BY <1>4, <1>8, ListSlotsDoes DEF rows
  <2>2. CASE pc'[r] = "create_slot"
    <3>1. Tiers(DOMAIN slots) + picked'[r].tier <= CycleBudget
      BY <1>8, <2>2, ListSlotsDoes
    <3>2. Tiers(DOMAIN slots)' = Tiers(DOMAIN slots)
      BY <2>1 DEF Tiers
    <3>3. Tiers(DOMAIN slots)' + picked'[r].tier <= CycleBudget
      BY <3>1, <3>2
    <3>4. Funded(r)'
      BY <2>2, <3>3 DEF Funded
    <3>5. QED
      BY <1>5, <2>1, <3>4
  <2>3. CASE pc'[r] \in {"claim", "refused"}
    BY <1>5, <2>1, <2>3, FundedElsewhere
  <2>4. QED
    BY <1>8, <2>2, <2>3, ListSlotsDoes
<1>9. CASE CreateSlot(r)
  <2>1. /\ ~raced /\ ~stacked /\ r \in fresh /\ fresh' = fresh \cap {r}
        /\ pc[r] = "create_slot" /\ pc'[r] = "claim" /\ picked[r].tier \in Nat
        /\ slots' = Put(slots, <<r, 0>>, FreeSlot(picked[r].tier, picked[r].index))
    BY <1>4, <1>9, CreateSlotDoes DEF Written
  <2>2. <<r, 0>> \notin DOMAIN slots
    <3>1. ASSUME <<r, 0>> \in DOMAIN slots PROVE FALSE
      <4>1. IdSound(<<r, 0>>)
        BY <3>1 DEF IdsSound
      <4>2. QED
        BY <2>1, <4>1 DEF IdSound
    <3>2. QED
      BY <3>1
  <2>3. Tiers(DOMAIN slots)' = Tiers(DOMAIN slots) + picked[r].tier
    BY <1>3, <2>1, <2>2, TiersMore
  <2>4. Tiers(DOMAIN slots) + picked[r].tier <= CycleBudget
    BY <2>1, FundingIs DEF Funded
  <2>5. Tiers(DOMAIN slots)' <= CycleBudget
    BY <2>3, <2>4
  <2>6. \A q \in fresh' : Funded(q)'
    <3>1. \A q \in fresh' : q = r
      BY <2>1
    <3>2. Funded(r)'
      BY <2>1, FundedElsewhere
    <3>3. QED
      BY <3>1, <3>2
  <2>7. QED
    BY <2>5, <2>6 DEF FundingInv, Funded
<1>10. CASE CreateAssignment(r)
  <2>1. ~raced /\ ~stacked /\ slots' = slots /\ pc'[r] = "assign"
    BY <1>4, <1>10, CreateAssignmentDoes DEF Claimed
  <2>2. QED
    BY <1>5, <2>1, FundedElsewhere
<1>11. CASE AssignSlot(r)
  <2>1. /\ UNCHANGED ghosts /\ DOMAIN slots' = DOMAIN slots /\ pc'[r] = "link"
        /\ \A s \in DOMAIN slots : slots'[s].tier = slots[s].tier
    BY <1>11, AssignSlotDoes
  <2>2. ~raced /\ ~stacked
    BY <1>4, <2>1 DEF ghosts
  <2>3. Funded(r)'
    BY <2>1, FundedElsewhere
  <2>4. QED
    BY <1>2, <1>3, <2>1, <2>2, <2>3, FundingOn
<1>12. CASE CreateLink(r)
  <2>1. UNCHANGED ghosts /\ slots' = slots /\ pc'[r] \in {"claim", "view", "ok"}
    BY <1>12, CreateLinkDoes, FirstPair DEF PairLabels
  <2>2. ~raced /\ ~stacked
    BY <1>4, <2>1 DEF ghosts
  <2>3. QED
    BY <1>5, <2>1, <2>2, FundedElsewhere
<1>13. CASE Solve(r)
  <2>1. ~raced /\ ~stacked /\ slots' = slots
    BY <1>4, <1>13, SolveDoes DEF rows
  <2>2. CASE pc'[r] \in {"ok", "refused"}
    BY <1>5, <2>1, <2>2, FundedElsewhere
  <2>3. CASE pc'[r] = "regenerate"
    <3>1. todo'[r] = Waterfall /\ DOMAIN slots = {}
      BY <1>4, <1>13, <2>3, SolveDoes
    <3>2. Len(Waterfall) - Len(todo'[r]) = 0
      BY <3>1, WaterfallTyped
    <3>3. 1 .. 0 = {} /\ {r} \X {} = {}
      OBVIOUS
    <3>4. Funded(r)'
      BY <2>1, <2>3, <3>1, <3>2, <3>3 DEF Funded
    <3>5. QED
      BY <1>5, <2>1, <3>4
  <2>4. QED
    BY <1>13, <2>2, <2>3, SolveDoes
<1>14. CASE RegenerateSlot(r)
  BY <1>4, <1>14, FundingRegenerates
<1>15. CASE RegenerateConflict(r)
  <2>1. UNCHANGED ghosts /\ slots' = slots /\ pc'[r] = "failed"
    BY <1>15, RegenerateConflictDoes DEF rows
  <2>2. ~raced /\ ~stacked
    BY <1>4, <2>1 DEF ghosts
  <2>3. QED
    BY <1>5, <2>1, <2>2, FundedElsewhere
<1>16. CASE PatchAssignment(r)
  <2>1. UNCHANGED ghosts /\ slots' = slots /\ pc'[r] \in {"ok", "refused"}
    BY <1>16, PatchDoes
  <2>2. ~raced /\ ~stacked
    BY <1>4, <2>1 DEF ghosts
  <2>3. QED
    BY <1>5, <2>1, <2>2, FundedElsewhere
<1>17. CASE Fail(r)
  <2>1. slots' = slots /\ pc'[r] \in {"list", "failed"} /\ ~raced /\ ~stacked
    <3>1. slots' = slots /\ raced' = raced /\ stacked' = stacked
      BY <1>17, FailDoes DEF rows
    <3>2. pc'[r] \in {"list", "failed"}
      BY <1>17, FailDoes
    <3>3. QED
      BY <1>4, <3>1, <3>2
  <2>2. QED
    BY <1>5, <2>1, FundedElsewhere
<1>18. QED
  BY <1>6, <1>7, <1>8, <1>9, <1>10, <1>11, <1>12, <1>13, <1>14, <1>15, <1>16, <1>17, StepIs

-----------------------------------------------------------------------------
(* The specification keeps the invariant *)

LEMMA StepInv ==
  ASSUME Inv, NEW r \in Requests, Step(r)
  PROVE  Inv'
<1>1. /\ Typed /\ CallsSound /\ IdsSound /\ SolversSound
      /\ PointsInv /\ StoredInv /\ SharingInv /\ FundingInv
  BY DEF Inv
<1>2. Typed'
  BY <1>1, StepKeeps DEF Kept
<1>3. CallsSound' /\ IdsSound' /\ SolversSound'
  BY <1>1, CallsStep, IdsStep, SolversStep
<1>4. PointsInv' /\ StoredInv'
  BY <1>1, PointsStep, StoredStep
<1>5. SharingInv' /\ FundingInv'
  BY <1>1, SharingStep, FundingStep
<1>6. QED
  BY <1>2, <1>3, <1>4, <1>5 DEF Inv

\* Only open changes, or nothing.
LEMMA OpenInv ==
  ASSUME Inv, open' \in BOOLEAN, UNCHANGED <<slots, assignments, links, pc, op, picked, todo, ghosts>>
  PROVE  Inv'
<1>1. UNCHANGED <<fresh, raced, stacked, confirmed, failures>>
  BY DEF ghosts
<1>2. Typed'
  BY <1>1 DEF Inv, Typed, RowsTyped, CallsTyped, GhostsTyped
<1>3. CallsSound'
  BY DEF Inv, CallsSound, CallSound
<1>4. IdsSound' /\ SolversSound'
  BY DEF Inv, IdsSound, IdSound, SolversSound, RowsLeft
<1>5. PointsInv'
  BY DEF Inv, PointsInv, SlotPointsBack, Holds
<1>6. StoredInv'
  BY DEF Inv, StoredInv, StoredBy, AddStored, ListStored, Done, Stored, Holds, HasLink, Assigned
<1>7. SharingInv'
  BY <1>1 DEF Inv, SharingInv, FreshListed, Unshared, TakenOrTaking, FreshUnclaimed, Unclaimed
<1>8. FundingInv'
  BY <1>1 DEF Inv, FundingInv, Tiers
<1>9. QED
  BY <1>2, <1>3, <1>4, <1>5, <1>6, <1>7, <1>8 DEF Inv

LEMMA NextInv == Inv /\ [Next]_vars => Inv'
<1> SUFFICES ASSUME Inv, [Next]_vars PROVE Inv'
  OBVIOUS
<1>1. CASE SetCycleStatus
  <2>1. open' \in BOOLEAN /\ UNCHANGED <<slots, assignments, links, pc, op, picked, todo, ghosts>>
    BY <1>1 DEF SetCycleStatus
  <2>2. QED
    BY <2>1, OpenInv
<1>2. CASE \E r \in Requests : Step(r)
  BY <1>2, StepInv
<1>3. CASE UNCHANGED vars
  <2>1. open' \in BOOLEAN /\ UNCHANGED <<slots, assignments, links, pc, op, picked, todo, ghosts>>
    BY <1>3 DEF vars, rows, Inv, Typed, RowsTyped
  <2>2. QED
    BY <2>1, OpenInv
<1>4. QED
  BY <1>1, <1>2, <1>3 DEF Next

LEMMA InitInv == Init => Inv
<1> SUFFICES ASSUME Init PROVE Inv
  OBVIOUS
<1>1. PICK n \in 0 .. Len(Waterfall) :
        slots = [s \in {Creation} \X (1 .. n) |-> FreeSlot(Waterfall[s[2]].tier, Waterfall[s[2]].index)]
  BY DEF Init
<1>2. n \in Nat /\ n <= Len(Waterfall) /\ Len(Waterfall) \in Nat
  BY WaterfallTyped
<1> DEFINE S == {Creation} \X (1 .. n)
<1>3. DOMAIN slots = S /\ \A s \in S : slots[s] = FreeSlot(Waterfall[s[2]].tier, Waterfall[s[2]].index)
  BY <1>1
<1>4. \A s \in S : s \in SlotIds /\ s[1] \notin Requests /\ s[2] \in 1 .. n /\ s = <<Creation, s[2]>>
  BY <1>2, AssignmentAssumption DEF SlotIds
<1>5. \A m \in 1 .. n : Waterfall[m] \in SlotTerms
  BY <1>2, WaterfallTyped
<1>6. \A s \in S : slots[s] \in SlotRow /\ ~slots[s].allocated /\ slots[s].tier = Waterfall[s[2]].tier
  <2>1. ASSUME NEW s \in S
        PROVE  slots[s] \in SlotRow /\ ~slots[s].allocated /\ slots[s].tier = Waterfall[s[2]].tier
    <3>1. Waterfall[s[2]].tier \in Nat /\ Waterfall[s[2]].index \in Nat
      BY <1>4, <1>5 DEF SlotTerms
    <3>2. slots[s] = FreeSlot(Waterfall[s[2]].tier, Waterfall[s[2]].index)
      BY <1>3
    <3>3. QED
      BY <3>1, <3>2 DEF FreeSlot, SlotRow
  <2>2. QED
    BY <2>1
<1>7. /\ open = TRUE /\ assignments = <<>> /\ links = <<>>
      /\ pc = [r \in Requests |-> "idle"] /\ op = [r \in Requests |-> NoOp]
      /\ picked = [r \in Requests |-> NoPick] /\ todo = [r \in Requests |-> <<>>]
      /\ fresh = {} /\ raced = FALSE /\ stacked = FALSE /\ confirmed = FALSE /\ failures = 0
  BY DEF Init
<1>8. DOMAIN assignments = {} /\ DOMAIN links = {}
  BY <1>7
<1>9. IsFiniteSet(S) /\ Tiers(DOMAIN slots) <= CycleBudget
  <2> DEFINE f == [s \in DOMAIN slots |-> slots[s].tier]
  <2>1. ASSUME NEW m \in 1 .. n PROVE f[<<Creation, m>>] = Waterfall[m].tier
    <3>1. <<Creation, m>> \in S
      OBVIOUS
    <3>2. QED
      BY <1>3, <1>6, <3>1
  <2>2. Tiers(DOMAIN slots) = SumFunctionOnSet(f, S)
    BY <1>3 DEF Tiers
  <2> HIDE DEF f
  <2>3. QED
    BY <1>2, <2>1, <2>2, PrefixFits
<1> HIDE DEF S
<1>10. slots \in [DOMAIN slots -> SlotRow]
  BY <1>1, <1>3, <1>6
<1>11. RowsTyped
  <2>1. assignments \in [DOMAIN assignments -> AssignmentRow] /\ links \in [DOMAIN links -> TalentIds]
    BY <1>7, <1>8
  <2>2. QED
    BY <1>3, <1>4, <1>7, <1>8, <1>9, <1>10, <2>1 DEF RowsTyped
<1>12. \A r \in Requests : pc[r] = "idle" /\ op[r] = NoOp /\ picked[r] = NoPick /\ todo[r] = <<>>
  BY <1>7
<1>13. CallsTyped
  <2>1. "idle" \in Labels /\ NoOp \in Asked /\ NoPick \in Picks
    BY DEF Labels, Asked, Picks, NoPick
  <2>2. <<>> \in Pairs
    BY DEF Pairs
  <2>3. QED
    BY <1>7, <1>12, <2>1, <2>2 DEF CallsTyped
<1>14. GhostsTyped
  <2>1. 0 \in 0 .. MaxFailures
    BY AssignmentAssumption
  <2>2. QED
    BY <1>7, <2>1 DEF GhostsTyped
<1>15. CallsSound
  BY <1>12 DEF CallsSound, CallSound, AddLabels, PairLabels
<1>16. IdsSound
  BY <1>3, <1>4 DEF IdsSound, IdSound
<1>17. SolversSound
  BY <1>12 DEF SolversSound
<1>18. PointsInv
  BY <1>3, <1>6, <1>12 DEF PointsInv, SlotPointsBack
<1>19. StoredInv
  <2>1. NoOp \notin AddOps /\ NoOp \notin ConfirmAsk
    BY DEF NoOp, AddOps, ConfirmAsk
  <2>2. QED
    BY <1>12, <2>1 DEF StoredInv, StoredBy
<1>20. SharingInv
  BY <1>7, <1>8 DEF SharingInv, FreshListed, Unshared, TakenOrTaking, FreshUnclaimed
<1>21. FundingInv
  BY <1>7, <1>9 DEF FundingInv
<1>22. QED
  BY <1>11, <1>13, <1>14, <1>15, <1>16, <1>17, <1>18, <1>19, <1>20, <1>21 DEF Inv, Typed

LEMMA SpecInv == Spec => []Inv
BY InitInv, NextInv, PTL DEF Spec

-----------------------------------------------------------------------------
(* Theorems *)

\* The rows, the calls and what the ghosts count are of their types, for any
\* number of calls, talents and slots: a slot names a talent of the cycle, an
\* assignment a slot of the cycle, and a call has pairs to write.
THEOREM TypeCorrect == Spec => []TypeOK
<1>1. Inv => TypeOK
  BY TypedIsTypeOK DEF Inv
<1>2. QED
  BY <1>1, SpecInv, PTL

\* An allocated slot names a talent whose assignment names the slot, whatever
\* calls of AddHuman, RunSolver and ConfirmAssignments interleave and fail.
THEOREM PointsCorrect == Spec => []SlotPointsBack
<1>1. Inv => SlotPointsBack
  BY DEF Inv, PointsInv
<1>2. QED
  BY <1>1, SpecInv, PTL

\* Two talents share a slot only after an outdated listing, a failure between
\* the writes of a call, or a confirmed list; and the slots exceed the budget
\* only after an outdated listing or a solver that adds to what there is: in
\* particular the waterfall alone never exceeds the budget of the cycle.
THEOREM FaultsCorrect == Spec => []SlotFaultsNeedCause
<1>1. Inv => SharedSlotNeedsCause
  <2> SUFFICES ASSUME Inv, ~raced, ~(failures > 0), ~confirmed, NEW t \in DOMAIN assignments,
                      NEW w \in DOMAIN assignments, assignments[t].slot = assignments[w].slot
               PROVE  t = w
    BY DEF SharedSlotNeedsCause
  <2>1. failures = 0
    BY DEF Inv, Typed, GhostsTyped
  <2>2. Unshared
    BY <2>1 DEF Inv, SharingInv
  <2>3. QED
    BY <2>2 DEF Unshared
<1>2. Inv => OverfundingNeedsCause
  <2> SUFFICES ASSUME Inv, ~raced, ~stacked PROVE ~(Tiers(DOMAIN slots) > CycleBudget)
    BY DEF OverfundingNeedsCause
  <2>1. Tiers(DOMAIN slots) <= CycleBudget
    BY DEF Inv, FundingInv
  <2>2. Tiers(DOMAIN slots) \in Nat /\ CycleBudget \in Nat
    BY TiersAre, AssignmentAssumption DEF Inv, Typed, RowsTyped
  <2>3. QED
    BY <2>1, <2>2
<1>3. Inv => SlotFaultsNeedCause
  BY <1>1, <1>2 DEF SlotFaultsNeedCause
<1>4. QED
  BY <1>3, SpecInv, PTL

\* A call of AddHuman or ConfirmAssignments that returns success has stored
\* every assignment it was asked for, in its slot, and a link for each talent.
THEOREM StoredCorrect == Spec => []SuccessIsStored
<1>1. Inv => SuccessIsStored
  <2> SUFFICES ASSUME Inv, NEW r \in Requests, pc[r] = "ok"
               PROVE  /\ op[r].kind = "add" => Assigned(op[r].talent) /\ HasLink(op[r].talent)
                      /\ op[r].kind = "confirm" =>
                           \A i \in DOMAIN op[r].pairs :
                             LET e == op[r].pairs[i]
                             IN  Assigned(e.talent) /\ assignments[e.talent].slot = e.slot /\ HasLink(e.talent)
    BY DEF SuccessIsStored
  <2>1. op[r] \in Asked /\ StoredBy(r)
    BY DEF Inv, Typed, CallsTyped, StoredInv
  <2>2. op[r].kind = "add" => Assigned(op[r].talent) /\ HasLink(op[r].talent)
    <3>1. op[r].kind = "add" => op[r] \in AddOps
      BY <2>1, Kinds
    <3>2. QED
      BY <2>1, <3>1 DEF StoredBy, AddStored
  <2>3. ASSUME op[r].kind = "confirm"
        PROVE  \A i \in DOMAIN op[r].pairs : Stored(op[r].pairs[i])
    <3>1. op[r] \in ConfirmAsk
      BY <2>1, <2>3, Kinds
    <3>2. QED
      BY <2>1, <3>1 DEF StoredBy
  <2>4. QED
    BY <2>2, <2>3 DEF Stored, Holds, Assigned
<1>2. QED
  BY <1>1, SpecInv, PTL

-----------------------------------------------------------------------------
(* What the waterfall promises, for every campaign, budget and talents *)

Whole(n) == n % TierIncrement = 0

LEMMA Remainder ==
  ASSUME NEW x \in Int, NEW k \in Nat \ {0}
  PROVE  x \div k \in Int /\ x % k \in 0 .. k - 1 /\ x % k = x - k * (x \div k)
OBVIOUS

LEMMA RoundedWhole ==
  ASSUME NEW n \in Int
  PROVE  RoundDown(n) \in Int /\ Whole(RoundDown(n)) /\ RoundDown(n) <= n /\ n < RoundDown(n) + TierIncrement
<1> DEFINE k == TierIncrement
           q == n \div k
<1>1. k \in Nat \ {0}
  BY TierAssumption
<1>2. \A x \in Int, y \in Nat \ {0} : x \div y \in Int /\ (x \div y) * y <= x /\ x < (x \div y) * y + y
  OBVIOUS
<1> HIDE DEF k
<1>3. q \in Int /\ q * k <= n /\ n < q * k + k /\ q * k \in Int
  BY <1>1, <1>2
<1> HIDE DEF q
<1>4. (q * k) % k = 0
  <2> DEFINE d == (q * k) \div k
             r == (q * k) % k
  <2>1. d \in Int /\ r \in 0 .. k - 1 /\ q * k = k * d + r
    <3>1. d \in Int /\ r \in 0 .. k - 1 /\ r = q * k - k * d
      BY <1>1, <1>3, Remainder
    <3> HIDE DEF d, r
    <3>2. QED
      BY <1>1, <1>3, <3>1
  <2> HIDE DEF d, r
  <2>2. r = k * (q - d)
    BY <1>1, <1>3, <2>1
  <2>3. CASE q - d = 0
    BY <1>1, <2>2, <2>3 DEF r
  <2>4. CASE q - d >= 1
    <3>1. k * (q - d) >= k
      BY <1>1, <1>3, <2>1, <2>4
    <3>2. QED
      BY <1>1, <2>1, <2>2, <3>1
  <2>5. CASE q - d <= -1
    <3>1. k * (q - d) <= -k
      BY <1>1, <1>3, <2>1, <2>5
    <3>2. QED
      BY <1>1, <2>1, <2>2, <3>1
  <2>6. QED
    BY <1>3, <2>1, <2>3, <2>4, <2>5
<1>5. RoundDown(n) = q * k
  BY DEF RoundDown, q, k
<1>6. QED
  BY <1>3, <1>4, <1>5 DEF Whole, k

\* Rounding down keeps what is above a whole tier above it.
LEMMA RoundedAbove ==
  ASSUME NEW m \in Int, NEW n \in Int, Whole(m), m <= n
  PROVE  m <= RoundDown(n)
<1> DEFINE k == TierIncrement
           e == m \div k
           q == n \div k
<1>1. k \in Nat \ {0}
  BY TierAssumption
<1> HIDE DEF k
<1>2. /\ e \in Int /\ m % k = m - k * e
      /\ q \in Int /\ n < q * k + k
  <2>1. \A x \in Int : x \div k \in Int /\ x < (x \div k) * k + k
    BY <1>1
  <2>2. QED
    BY <1>1, <2>1, Remainder
<1> HIDE DEF e, q
<1>3. m = k * e
  <2>1. m % k = 0
    BY DEF Whole, k
  <2>2. k * e \in Int
    BY <1>1, <1>2
  <2>3. QED
    BY <1>2, <2>1, <2>2
<1>4. e <= q
  <2>1. SUFFICES ASSUME e >= q + 1 PROVE FALSE
    BY <1>2
  <2>2. k * e >= k * (q + 1)
    BY <1>1, <1>2, <2>1
  <2>3. k * (q + 1) = q * k + k /\ q * k \in Int
    BY <1>1, <1>2
  <2>4. QED
    BY <1>1, <1>2, <1>3, <2>2, <2>3
<1>5. k * e <= q * k
  BY <1>1, <1>2, <1>4
<1>6. QED
  BY <1>3, <1>5 DEF RoundDown, q, k

LEMMA MinTierWhole ==
  ASSUME NEW campaign \in Terms
  PROVE  /\ MinTier(campaign) \in Int /\ Whole(MinTier(campaign))
         /\ campaign.target_cpa \in Int /\ MinTier(campaign) >= campaign.target_cpa
<1>1. campaign.target_cpa \in Int /\ TierIncrement \in Nat \ {0}
  BY TierAssumption DEF Terms
<1>2. campaign.target_cpa + TierIncrement - 1 \in Int
  BY <1>1
<1>3. QED
  BY <1>1, <1>2, RoundedWhole DEF MinTier, RoundUp

\* What the tier of a talent is, between the smallest tier, the share and the ceiling.
LEMMA TierWhole ==
  ASSUME NEW campaign \in Terms, NEW fair \in Nat, Whole(fair), NEW talent \in TalentTerms
  PROVE  LET tier == TierOf(campaign, fair, talent)
         IN  /\ tier \in Int /\ Whole(tier)
             /\ talent.max_tier > 0 => tier <= talent.max_tier
             /\ MinTier(campaign) <= fair /\ (talent.max_tier <= 0 \/ talent.max_tier >= MinTier(campaign))
                  => tier >= MinTier(campaign)
<1> DEFINE demand == DemandTier(CategoryPDC(talent.category), campaign)
           least == MinTier(campaign)
           natural == GreaterOf(demand, least)
           shared == LesserOf(natural, fair)
<1>1. demand \in Int /\ Whole(demand)
  <2>1. CategoryPDC(talent.category) \in Int
    BY DEF CategoryPDC
  <2>2. \A a, b, c \in Int : (a * b) * c \in Int
    OBVIOUS
  <2>3. CategoryPDC(talent.category) * campaign.cycle_length * campaign.max_cpa \in Int
    BY <2>1, <2>2 DEF Terms
  <2>4. QED
    BY <2>3, RoundedWhole DEF DemandTier
<1>2. least \in Int /\ Whole(least)
  BY MinTierWhole
<1> HIDE DEF demand, least
<1>3. natural \in Int /\ Whole(natural) /\ natural >= least
  BY <1>1, <1>2 DEF GreaterOf
<1> HIDE DEF natural
<1>4. shared \in Int /\ Whole(shared) /\ (least <= fair => shared >= least)
  BY <1>2, <1>3 DEF LesserOf
<1> HIDE DEF shared
<1>5. talent.max_tier \in Int
  BY DEF TalentTerms
<1>6. TierOf(campaign, fair, talent) = IF talent.max_tier > 0 /\ shared > talent.max_tier
                                       THEN RoundDown(talent.max_tier) ELSE shared
  BY DEF TierOf, shared, natural, least, demand
<1>7. /\ RoundDown(talent.max_tier) \in Int /\ Whole(RoundDown(talent.max_tier))
      /\ RoundDown(talent.max_tier) <= talent.max_tier
      /\ least <= talent.max_tier => least <= RoundDown(talent.max_tier)
  BY <1>2, <1>5, RoundedWhole, RoundedAbove
<1>8. QED
  BY <1>2, <1>4, <1>5, <1>6, <1>7 DEF least

\* The fair share is a whole tier, and no smaller than the smallest.
LEMMA FairSound ==
  ASSUME NEW campaign \in Terms, campaign.target_cpa > 0, NEW budget \in Nat, NEW active,
         IsFiniteSet(active), Capacity(campaign, budget, active) # 0
  PROVE  LET capacity == Capacity(campaign, budget, active)
             fair == FairBudget(campaign, budget, active)
         IN  /\ capacity \in Nat \ {0} /\ fair \in Nat /\ Whole(fair) /\ fair >= MinTier(campaign)
             /\ capacity * fair <= budget
             /\ capacity = LesserOf(budget \div MinTier(campaign), Cardinality(active))
<1> DEFINE capacity == Capacity(campaign, budget, active)
           fair == FairBudget(campaign, budget, active)
           least == MinTier(campaign)
           most == budget \div least
<1>1. least \in Nat \ {0} /\ Whole(least)
  BY MinTierSound, MinTierWhole
<1> HIDE DEF least
<1>2. most \in Nat /\ most * least <= budget
  BY <1>1, Quotient
<1> HIDE DEF most
<1>3. Cardinality(active) \in Nat
  BY FS_CardinalityType
<1>4. capacity = LesserOf(most, Cardinality(active))
  BY DEF Capacity, most, least
<1>5. capacity \in Nat \ {0} /\ capacity <= most
  BY <1>2, <1>3, <1>4 DEF LesserOf
<1>6. fair = RoundDown(budget \div capacity)
  BY DEF FairBudget
<1> HIDE DEF capacity, fair
<1> DEFINE share == budget \div capacity
<1>7. share \in Nat /\ share * capacity <= budget /\ budget < share * capacity + capacity
  BY <1>5, Quotient
<1> HIDE DEF share
<1>8. least <= share
  <2>1. SUFFICES ASSUME share + 1 <= least PROVE FALSE
    BY <1>1, <1>7
  <2>2. (share + 1) * capacity <= least * capacity
    BY <1>1, <1>5, <1>7, <2>1
  <2>3. least * capacity <= most * least
    BY <1>1, <1>2, <1>5
  <2>4. (share + 1) * capacity = share * capacity + capacity
    BY <1>5, <1>7
  <2>5. least * capacity \in Nat /\ most * least \in Nat /\ share * capacity \in Nat
    BY <1>1, <1>2, <1>5, <1>7
  <2>6. QED
    BY <1>2, <1>5, <1>7, <2>2, <2>3, <2>4, <2>5
<1>9. fair \in Nat /\ Whole(fair) /\ fair <= share /\ least <= fair
  <2>1. RoundDown(share) \in Nat /\ Whole(RoundDown(share)) /\ RoundDown(share) <= share
        /\ least <= RoundDown(share)
    BY <1>1, <1>7, <1>8, Rounding, RoundedWhole, RoundedAbove
  <2>2. QED
    BY <1>6, <2>1 DEF share
<1>10. capacity * fair <= budget
  <2>1. capacity * fair <= share * capacity
    BY <1>5, <1>7, <1>9
  <2>2. capacity * fair \in Nat /\ share * capacity \in Nat
    BY <1>5, <1>7, <1>9
  <2>3. QED
    BY <1>7, <2>1, <2>2
<1>11. QED
  BY <1>4, <1>5, <1>9, <1>10 DEF capacity, fair, most, least

\* The rows can be given to the first n talents in order.
Matched(list, talents, n) ==
  \E f \in [1 .. Len(list) -> {i \in ActiveTalents(talents) : i <= n}] :
    /\ \A i, j \in 1 .. Len(list) : i < j => f[i] < f[j]
    /\ \A i \in 1 .. Len(list) : talents[f[i]].max_tier > 0 => list[i].tier <= talents[f[i]].max_tier

EligibleTo(campaign, talents, n) == {i \in Eligible(campaign, talents) : i <= n}

\* The loop has ended.
Over(result, capacity) == result.error # "" \/ Len(result.slots) = capacity

\* What the loop keeps: the first n talents have been looked at.
Turned(campaign, fair, capacity, talents, n, result) ==
  /\ Within(result, fair, capacity)
  /\ \A i \in 1 .. Len(result.slots) :
       result.slots[i].tier >= MinTier(campaign) /\ Whole(result.slots[i].tier)
  /\ IndexedInOrder(result.slots)
  /\ Matched(result.slots, talents, n)
  /\ ~Over(result, capacity) =>
       Len(result.slots) >= Cardinality(EligibleTo(campaign, talents, n))

LEMMA EligibleFinite ==
  ASSUME NEW campaign, NEW talents \in Seq(TalentTerms), NEW n \in Nat
  PROVE  /\ IsFiniteSet(EligibleTo(campaign, talents, n))
         /\ Cardinality(EligibleTo(campaign, talents, n)) \in Nat
         /\ EligibleTo(campaign, talents, 0) = {}
<1>1. DOMAIN talents = 1 .. Len(talents) /\ Len(talents) \in Nat
  OBVIOUS
<1>2. EligibleTo(campaign, talents, n) \subseteq 1 .. Len(talents) /\ EligibleTo(campaign, talents, 0) = {}
  BY <1>1 DEF EligibleTo, Eligible, ActiveTalents
<1>3. IsFiniteSet(EligibleTo(campaign, talents, n))
  <2>1. IsFiniteSet(1 .. Len(talents))
    BY <1>1, FS_Interval
  <2>2. QED
    BY <1>2, <2>1, FS_Subset
<1>4. QED
  BY <1>2, <1>3, FS_CardinalityType

LEMMA NoSlotsTurned ==
  ASSUME NEW campaign, NEW fair \in Nat, NEW capacity \in Nat, NEW talents \in Seq(TalentTerms),
         NEW n \in Nat, NEW error \in Errors, n = 0 \/ Over(NoSlots(error), capacity)
  PROVE  Turned(campaign, fair, capacity, talents, n, NoSlots(error))
<1>1. Within(NoSlots(error), fair, capacity)
  BY NoSlotsWithin
<1>2. NoSlots(error).slots = <<>> /\ NoSlots(error).error = error
  BY DEF NoSlots
<1>3. Len(<<>>) = 0 /\ DOMAIN <<>> = {} /\ 1 .. 0 = {}
  OBVIOUS
<1>4. Matched(<<>>, talents, n)
  <2>1. [i \in {} |-> 0] \in [1 .. 0 -> {i \in ActiveTalents(talents) : i <= n}]
    BY <1>3
  <2>2. QED
    BY <1>3, <2>1 DEF Matched
<1>5. IndexedInOrder(<<>>)
  BY <1>3 DEF IndexedInOrder
<1>6. ~Over(NoSlots(error), capacity) => Cardinality(EligibleTo(campaign, talents, n)) = 0
  BY EligibleFinite, FS_EmptySet
<1>7. QED
  BY <1>1, <1>2, <1>3, <1>4, <1>5, <1>6 DEF Turned

\* A talent who gets no slot was not eligible, or the capacity is reached.
LEMMA TurnStays ==
  ASSUME NEW campaign, NEW fair, NEW capacity, NEW talents \in Seq(TalentTerms),
         NEW n \in 1 .. Len(talents), NEW result,
         Turned(campaign, fair, capacity, talents, n - 1, result),
         n \notin Eligible(campaign, talents) \/ Over(result, capacity)
  PROVE  Turned(campaign, fair, capacity, talents, n, result)
<1> DEFINE list == result.slots
<1>1. Len(talents) \in Nat /\ n \in Nat /\ n - 1 \in Nat
  OBVIOUS
<1>2. \A i \in ActiveTalents(talents) : i \in Nat
  BY DEF ActiveTalents
<1>3. Matched(list, talents, n)
  <2>1. {i \in ActiveTalents(talents) : i <= n - 1} \subseteq {i \in ActiveTalents(talents) : i <= n}
    BY <1>1, <1>2
  <2>2. Matched(list, talents, n - 1)
    BY DEF Turned
  <2> HIDE DEF list
  <2>3. QED
    BY <2>1, <2>2 DEF Matched
<1>4. n \notin Eligible(campaign, talents) =>
        EligibleTo(campaign, talents, n) = EligibleTo(campaign, talents, n - 1)
  BY <1>1, <1>2 DEF EligibleTo, Eligible
<1>5. QED
  BY <1>3, <1>4 DEF Turned

LEMMA Appended ==
  ASSUME NEW S, NEW s \in Seq(S), NEW x \in S
  PROVE  /\ Append(s, x) \in Seq(S) /\ Len(Append(s, x)) = Len(s) + 1
         /\ DOMAIN Append(s, x) = 1 .. Len(s) + 1
         /\ Append(s, x)[Len(s) + 1] = x /\ \A i \in 1 .. Len(s) : Append(s, x)[i] = s[i]
OBVIOUS

LEMMA TurnAdds ==
  ASSUME NEW campaign, NEW fair \in Nat, NEW capacity \in Nat, NEW talents \in Seq(TalentTerms),
         NEW n \in ActiveTalents(talents), NEW result, NEW tier \in Nat,
         Turned(campaign, fair, capacity, talents, n - 1, result),
         ~Over(result, capacity), Whole(tier),
         tier <= fair, tier >= MinTier(campaign), talents[n].max_tier > 0 => tier <= talents[n].max_tier
  PROVE  Turned(campaign, fair, capacity, talents, n,
           [result EXCEPT !.slots = Append(@, [tier |-> tier, index |-> NextIndex(@, tier)])])
<1> DEFINE list == result.slots
           l == Len(list)
           rec == [tier |-> tier, index |-> NextIndex(list, tier)]
           longer == Append(list, rec)
           more == [result EXCEPT !.slots = longer]
<1>1. /\ list \in Seq(SlotTerms) /\ l \in Nat /\ DOMAIN list = 1 .. l /\ l <= capacity /\ l # capacity
      /\ result \in [slots : Seq(SlotTerms), error : Errors]
  <2>1. l # capacity
    BY DEF Over
  <2>2. result \in [slots : Seq(SlotTerms), error : Errors] /\ l <= capacity
    BY DEF Turned, Within
  <2>3. QED
    BY <2>1, <2>2
<1>2. n \in Nat \ {0} /\ n - 1 \in Nat /\ n \in 1 .. Len(talents)
  BY DEF ActiveTalents
<1>3. NextIndex(list, tier) \in Nat
  <2>1. IsFiniteSet(DOMAIN list)
    BY <1>1, FS_Interval
  <2>2. IsFiniteSet({i \in DOMAIN list : list[i].tier = tier})
    BY <2>1, FS_Subset
  <2>3. QED
    BY <2>2, FS_CardinalityType DEF NextIndex
<1>4. rec \in SlotTerms /\ rec.tier = tier /\ rec.index = NextIndex(list, tier)
  BY <1>3 DEF SlotTerms
<1> HIDE DEF list, l, rec
<1>5. /\ longer \in Seq(SlotTerms) /\ Len(longer) = l + 1 /\ DOMAIN longer = 1 .. l + 1
      /\ longer[l + 1] = rec /\ \A i \in 1 .. l : longer[i] = list[i]
  <2>1. l = Len(list) /\ longer = Append(list, rec)
    BY DEF l
  <2> HIDE DEF longer
  <2>2. list \in Seq(SlotTerms) /\ rec \in SlotTerms
    BY <1>1, <1>4
  <2>3. /\ Append(list, rec) \in Seq(SlotTerms) /\ Len(Append(list, rec)) = Len(list) + 1
        /\ DOMAIN Append(list, rec) = 1 .. Len(list) + 1
        /\ Append(list, rec)[Len(list) + 1] = rec
        /\ \A i \in 1 .. Len(list) : Append(list, rec)[i] = list[i]
    BY <2>2, Appended
  <2>4. QED
    BY <2>1, <2>3
<1>6. more.slots = longer /\ more \in [slots : Seq(SlotTerms), error : Errors]
  BY <1>1, <1>5
<1> HIDE DEF longer
<1>7. Within(more, fair, capacity)
  <2>1. l + 1 <= capacity
    BY <1>1
  <2>2. \A i \in 1 .. l : list[i].tier <= fair
    BY DEF Turned, Within, list, l
  <2>3. ASSUME NEW i \in 1 .. l + 1 PROVE longer[i].tier <= fair
    BY <1>1, <1>4, <1>5, <2>2
  <2> HIDE DEF more
  <2>4. QED
    BY <1>5, <1>6, <2>1, <2>3 DEF Within
<1>8. ASSUME NEW i \in 1 .. l + 1 PROVE longer[i].tier >= MinTier(campaign) /\ Whole(longer[i].tier)
  <2>1. \A j \in 1 .. l : list[j].tier >= MinTier(campaign) /\ Whole(list[j].tier)
    BY DEF Turned, list, l
  <2>2. QED
    BY <1>1, <1>4, <1>5, <2>1
<1>9. IndexedInOrder(longer)
  <2>1. \A i \in 1 .. l : list[i].index = Cardinality({j \in 1 .. l : j < i /\ list[j].tier = list[i].tier})
    BY <1>1 DEF Turned, IndexedInOrder, list
  <2>2. ASSUME NEW i \in 1 .. l + 1
        PROVE  longer[i].index = Cardinality({j \in 1 .. l + 1 : j < i /\ longer[j].tier = longer[i].tier})
    <3>1. CASE i = l + 1
      <4>1. {j \in 1 .. l + 1 : j < i /\ longer[j].tier = longer[i].tier} = {j \in 1 .. l : list[j].tier = tier}
        BY <1>1, <1>4, <1>5, <3>1
      <4>2. QED
        BY <1>1, <1>4, <1>5, <3>1, <4>1 DEF NextIndex
    <3>2. CASE i \in 1 .. l
      <4>1. {j \in 1 .. l + 1 : j < i /\ longer[j].tier = longer[i].tier}
              = {j \in 1 .. l : j < i /\ list[j].tier = list[i].tier}
        BY <1>1, <1>5, <3>2
      <4>2. QED
        BY <1>5, <2>1, <3>2, <4>1
    <3>3. QED
      BY <1>1, <3>1, <3>2
  <2>3. QED
    BY <1>5, <2>2 DEF IndexedInOrder
<1>10. Matched(longer, talents, n)
  <2>1. PICK f \in [1 .. l -> {i \in ActiveTalents(talents) : i <= n - 1}] :
          /\ \A i, j \in 1 .. l : i < j => f[i] < f[j]
          /\ \A i \in 1 .. l : talents[f[i]].max_tier > 0 => list[i].tier <= talents[f[i]].max_tier
    BY DEF Turned, Matched, list, l
  <2> DEFINE g == [i \in 1 .. l + 1 |-> IF i = l + 1 THEN n ELSE f[i]]
  <2>2. ASSUME NEW i \in 1 .. l
        PROVE  i \in 1 .. l + 1 /\ g[i] = f[i] /\ g[i] \in ActiveTalents(talents) /\ g[i] \in Nat /\ g[i] <= n - 1
    <3>1. f[i] \in ActiveTalents(talents) /\ f[i] <= n - 1
      BY <2>1
    <3>2. f[i] \in Nat
      BY <3>1 DEF ActiveTalents
    <3>3. i \in 1 .. l + 1 /\ i # l + 1
      BY <1>1
    <3> HIDE DEF l
    <3>4. QED
      BY <3>1, <3>2, <3>3
  <2>3. g[l + 1] = n /\ DOMAIN g = 1 .. l + 1 /\ g = [i \in 1 .. l + 1 |-> g[i]]
    BY <1>1
  <2> HIDE DEF g
  <2>4. g \in [1 .. l + 1 -> {i \in ActiveTalents(talents) : i <= n}]
    <3>1. ASSUME NEW i \in 1 .. l + 1 PROVE g[i] \in ActiveTalents(talents) /\ g[i] <= n
      <4>1. CASE i = l + 1
        BY <1>2, <2>3, <4>1
      <4>2. CASE i # l + 1
        <5>0. l \in Nat
          BY <1>1
        <5>1. i \in 1 .. l
          BY <4>2, <5>0
        <5>2. g[i] \in ActiveTalents(talents) /\ g[i] \in Nat /\ g[i] <= n - 1
          BY <2>2, <5>1
        <5>3. QED
          BY <1>2, <5>2
      <4>3. QED
        BY <4>1, <4>2
    <3>2. QED
      BY <2>3, <3>1
  <2>5. ASSUME NEW i \in 1 .. l + 1, NEW j \in 1 .. l + 1, i < j PROVE g[i] < g[j]
    <3>1. i \in 1 .. l
      BY <1>1, <2>5
    <3>2. CASE j = l + 1
      <4>1. g[j] = n
        BY <2>3, <3>2
      <4>2. g[i] \in Nat /\ g[i] <= n - 1
        BY <2>2, <3>1
      <4>3. QED
        BY <1>2, <4>1, <4>2
    <3>3. CASE j # l + 1
      <4>1. j \in 1 .. l
        BY <1>1, <3>3
      <4>2. g[i] = f[i] /\ g[j] = f[j]
        BY <2>2, <3>1, <4>1
      <4>3. f[i] < f[j]
        BY <2>1, <2>5, <3>1, <4>1
      <4>4. QED
        BY <4>2, <4>3
    <3>4. QED
      BY <3>2, <3>3
  <2>6. ASSUME NEW i \in 1 .. l + 1, talents[g[i]].max_tier > 0
        PROVE  longer[i].tier <= talents[g[i]].max_tier
    <3>1. CASE i = l + 1
      BY <1>4, <1>5, <2>3, <2>6, <3>1
    <3>2. CASE i # l + 1
      <4>1. i \in 1 .. l
        BY <1>1, <3>2
      <4>2. g[i] = f[i] /\ longer[i] = list[i]
        BY <1>5, <2>2, <4>1
      <4>3. QED
        BY <2>1, <2>6, <4>1, <4>2
    <3>3. QED
      BY <3>1, <3>2
  <2>7. QED
    BY <1>5, <2>4, <2>5, <2>6 DEF Matched
<1>11. l + 1 >= Cardinality(EligibleTo(campaign, talents, n))
  <2> DEFINE before == EligibleTo(campaign, talents, n - 1)
             now == EligibleTo(campaign, talents, n)
  <2>1. l >= Cardinality(before)
    BY DEF Turned, list, l
  <2>2. IsFiniteSet(before) /\ Cardinality(before) \in Nat /\ IsFiniteSet(now) /\ Cardinality(now) \in Nat
    BY <1>2, EligibleFinite
  <2>3. now \subseteq before \cup {n}
    BY <1>2 DEF EligibleTo, Eligible, ActiveTalents
  <2> HIDE DEF before, now
  <2>4. IsFiniteSet(before \cup {n}) /\ Cardinality(before \cup {n}) <= Cardinality(before) + 1
        /\ Cardinality(before \cup {n}) \in Nat
    <3>1. IsFiniteSet(before \cup {n}) /\ Cardinality(before \cup {n}) \in {Cardinality(before), Cardinality(before) + 1}
      BY <2>2, FS_AddElement
    <3>2. QED
      BY <2>2, <3>1
  <2>5. Cardinality(now) <= Cardinality(before \cup {n})
    BY <2>3, <2>4, FS_Subset
  <2>6. QED
    BY <1>1, <2>1, <2>2, <2>4, <2>5 DEF now
<1>12. Turned(campaign, fair, capacity, talents, n, more)
  <2> HIDE DEF more
  <2>1. QED
    BY <1>5, <1>6, <1>7, <1>8, <1>9, <1>10, <1>11 DEF Turned
<1>13. QED
  BY <1>12 DEF longer, rec, list

LEMMA TurnKeeps ==
  ASSUME NEW campaign \in Terms, campaign.target_cpa > 0, NEW fair \in Nat, Whole(fair), fair >= MinTier(campaign),
         NEW capacity \in Nat, NEW talents \in Seq(TalentTerms), NEW n \in 1 .. Len(talents), NEW result,
         Turned(campaign, fair, capacity, talents, n - 1, result)
  PROVE  Turned(campaign, fair, capacity, talents, n, AddSlot(campaign, fair, capacity, result, talents[n]))
<1> DEFINE talent == talents[n]
           tier == TierOf(campaign, fair, talent)
           over == Over(result, capacity)
           idle == talent.status # "active"
           more == [result EXCEPT !.slots = Append(@, [tier |-> tier, index |-> NextIndex(@, tier)])]
           none == NoSlots("tier_value_exceeds_supported_range")
<1>1. talent \in TalentTerms /\ DOMAIN talents = 1 .. Len(talents) /\ n \in Nat
  OBVIOUS
<1>2. AddSlot(campaign, fair, capacity, result, talent) =
        IF idle \/ over THEN result
        ELSE IF tier > MaxTierValue THEN none
        ELSE IF tier < MinTier(campaign) THEN result ELSE more
  BY DEF AddSlot, Over
<1>3. idle <=> n \notin ActiveTalents(talents)
  BY <1>1 DEF ActiveTalents
<1>4. /\ tier \in Nat /\ tier <= fair /\ Whole(tier) /\ MinTier(campaign) \in Nat
      /\ talent.max_tier > 0 => tier <= talent.max_tier
      /\ talent.max_tier <= 0 \/ talent.max_tier >= MinTier(campaign) => tier >= MinTier(campaign)
  BY <1>1, TierOfSound, TierWhole, MinTierSound
<1>5. Turned(campaign, fair, capacity, talents, n, none)
  <2>1. "tier_value_exceeds_supported_range" \in Errors
    BY DEF Errors
  <2>2. Over(none, capacity)
    BY DEF Over, NoSlots
  <2>3. QED
    BY <1>1, <2>1, <2>2, NoSlotsTurned
<1>6. idle \/ tier < MinTier(campaign) => n \notin Eligible(campaign, talents)
  <2> HIDE DEF idle, tier
  <2>1. QED
    BY <1>3, <1>4 DEF Eligible
<1>7. CASE idle \/ over
  <2>1. n \notin Eligible(campaign, talents) \/ over
    BY <1>6, <1>7
  <2>2. Turned(campaign, fair, capacity, talents, n, result)
    BY <2>1, TurnStays
  <2> HIDE DEF idle, over, tier, more, none
  <2>3. QED
    BY <1>2, <1>7, <2>2
<1>8. CASE ~(idle \/ over)
  <2>1. CASE tier > MaxTierValue
    <3> HIDE DEF idle, over, tier, more, none
    <3>1. QED
      BY <1>2, <1>5, <1>8, <2>1
  <2>2. CASE ~(tier > MaxTierValue) /\ tier < MinTier(campaign)
    <3>1. Turned(campaign, fair, capacity, talents, n, result)
      BY <1>6, <2>2, TurnStays
    <3> HIDE DEF idle, over, tier, more, none
    <3>2. QED
      BY <1>2, <1>8, <2>2, <3>1
  <2>3. CASE ~(tier > MaxTierValue) /\ ~(tier < MinTier(campaign))
    <3>1. n \in ActiveTalents(talents) /\ ~Over(result, capacity)
      BY <1>3, <1>8
    <3>2. tier >= MinTier(campaign)
      BY <1>4, <2>3
    <3> HIDE DEF tier
    <3>3. Turned(campaign, fair, capacity, talents, n, more)
      BY <1>4, <3>1, <3>2, TurnAdds
    <3> HIDE DEF idle, over, more, none
    <3>4. QED
      BY <1>2, <1>8, <2>3, <3>3
  <2>4. QED
    BY <2>1, <2>2, <2>3
<1>9. QED
  BY <1>7, <1>8

LEMMA LoopTurned ==
  ASSUME NEW campaign \in Terms, campaign.target_cpa > 0, NEW fair \in Nat, Whole(fair), fair >= MinTier(campaign),
         NEW capacity \in Nat, NEW talents \in Seq(TalentTerms)
  PROVE  Turned(campaign, fair, capacity, talents, Len(talents),
                AfterTurns(campaign, fair, capacity, talents)[Len(talents)])
<1> DEFINE g == AfterTurns(campaign, fair, capacity, talents)
           B == {n \in 0 .. Len(talents) : ~Turned(campaign, fair, capacity, talents, n, g[n])}
<1>1. Len(talents) \in Nat
  OBVIOUS
<1>2. Turns(campaign, fair, capacity, talents, 0 .. Len(talents), g)
  BY <1>1, AfterTurnsIs
<1> HIDE DEF g
<1>3. SUFFICES B = {}
  BY <1>1 DEF g
<1>4. SUFFICES ASSUME B # {} PROVE FALSE
  OBVIOUS
<1>5. PICK m \in B : \A n \in B : m <= n
  <2>1. B \in SUBSET Nat
    BY <1>1
  <2>2. QED
    BY <1>4, <2>1, LeastNat
<1>6. CASE m = 0
  <2>1. 0 \in 0 .. Len(talents) /\ "" \in Errors
    BY <1>1 DEF Errors
  <2>2. g[0] = NoSlots("")
    BY <1>2, <2>1 DEF Turns
  <2>3. Turned(campaign, fair, capacity, talents, 0, NoSlots(""))
    BY <2>1, NoSlotsTurned
  <2>4. QED
    BY <1>5, <1>6, <2>2, <2>3
<1>7. CASE m # 0
  <2>1. m - 1 \in 0 .. Len(talents) /\ m \in 1 .. Len(talents) /\ m - 1 \notin B
    BY <1>1, <1>5, <1>7
  <2>2. Turned(campaign, fair, capacity, talents, m - 1, g[m - 1])
    BY <2>1
  <2>3. g[m] = AddSlot(campaign, fair, capacity, g[m - 1], talents[m])
    BY <1>2, <1>5, <1>7 DEF Turns
  <2>4. Turned(campaign, fair, capacity, talents, m, AddSlot(campaign, fair, capacity, g[m - 1], talents[m]))
    BY <2>1, <2>2, TurnKeeps
  <2>5. QED
    BY <1>5, <2>3, <2>4
<1>8. QED
  BY <1>6, <1>7

\* Rows that are each at most the fair share are within the budget.
LEMMA RowsWithinBudget ==
  ASSUME NEW list \in Seq(SlotTerms), NEW fair \in Nat, NEW capacity \in Nat, NEW budget \in Nat,
         Len(list) <= capacity, capacity * fair <= budget, \A i \in 1 .. Len(list) : list[i].tier <= fair
  PROVE  WithinBudget(list, budget)
<1> DEFINE l == Len(list)
           f == [i \in 1 .. l |-> list[i].tier]
           S == SumFunctionOnSet(f, 1 .. l)
<1>1. l \in Nat /\ DOMAIN list = 1 .. l /\ \A i \in 1 .. l : list[i] \in SlotTerms
  OBVIOUS
<1>2. \A i \in 1 .. l : f[i] \in Nat /\ f[i] <= fair
  BY <1>1 DEF SlotTerms
<1>3. SumFunction([i \in DOMAIN list |-> list[i].tier]) = S
  BY <1>1 DEF SumFunction
<1>4. IsFiniteSet(1 .. l) /\ Cardinality(1 .. l) = l
  <2> HIDE DEF l, f, S
  <2>1. l \in Int /\ 1 \in Int /\ (1 > l => l = 0) /\ (l - 1) + 1 = l
    BY <1>1
  <2>2. IsFiniteSet(1 .. l) /\ Cardinality(1 .. l) = IF 1 > l THEN 0 ELSE l - 1 + 1
    BY <2>1, FS_Interval, Zenon
  <2>3. QED
    BY <2>1, <2>2
<1> HIDE DEF l, f
<1>5. S \in Nat
  <2>1. \A i \in 1 .. l : f[i] \in Nat
    BY <1>2
  <2>2. QED
    BY <1>4, <2>1, SumOfNats
<1>6. S <= l * fair
  BY <1>2, <1>4, SumBounded
<1>7. l * fair <= capacity * fair
  BY <1>1, MoreTimes DEF l
<1>8. l * fair \in Nat /\ capacity * fair \in Nat
  BY <1>1
<1> HIDE DEF S
<1>9. S <= budget
  BY <1>5, <1>6, <1>7, <1>8
<1>10. QED
  BY <1>3, <1>9 DEF WithinBudget

LEMMA TurnedServes ==
  ASSUME NEW campaign \in Terms, NEW fair, NEW capacity, NEW talents \in Seq(TalentTerms), NEW n, NEW result,
         Turned(campaign, fair, capacity, talents, n, result)
  PROVE  Serving(result.slots, campaign, talents)
<1> DEFINE list == result.slots
           l == Len(list)
<1>1. list \in Seq(SlotTerms)
  BY DEF Turned, Within
<1>2. DOMAIN list = 1 .. l /\ \A i \in 1 .. l : list[i].tier \in Nat
  <2> HIDE DEF list
  <2>1. DOMAIN list = 1 .. l /\ \A i \in 1 .. l : list[i] \in SlotTerms
    BY <1>1
  <2>2. QED
    BY <2>1 DEF SlotTerms
<1>3. \A i \in 1 .. l : list[i].tier >= MinTier(campaign) /\ list[i].tier % TierIncrement = 0
  BY DEF Turned, Whole
<1>4. Matched(list, talents, n)
  BY DEF Turned
<1> HIDE DEF list, l
<1>5. \A i \in 1 .. l : list[i].tier >= campaign.target_cpa
  BY <1>2, <1>3, MinTierWhole
<1>6. \E f \in [DOMAIN list -> ActiveTalents(talents)] :
        /\ \A i, j \in DOMAIN list : i < j => f[i] < f[j]
        /\ \A i \in DOMAIN list : talents[f[i]].max_tier > 0 => list[i].tier <= talents[f[i]].max_tier
  <2>1. PICK f \in [1 .. l -> {i \in ActiveTalents(talents) : i <= n}] :
          /\ \A i, j \in 1 .. l : i < j => f[i] < f[j]
          /\ \A i \in 1 .. l : talents[f[i]].max_tier > 0 => list[i].tier <= talents[f[i]].max_tier
    BY <1>4 DEF Matched, l
  <2>2. f \in [DOMAIN list -> ActiveTalents(talents)]
    BY <1>2, <2>1
  <2>3. QED
    BY <1>2, <2>1, <2>2
<1>7. QED
  BY <1>2, <1>3, <1>5, <1>6 DEF Serving, list

LEMMA NobodyPassed ==
  ASSUME NEW campaign \in Terms, campaign.target_cpa > 0, NEW budget \in Nat, NEW talents \in Seq(TalentTerms),
         NEW fair, NEW capacity, NEW result, Turned(campaign, fair, capacity, talents, Len(talents), result),
         capacity = LesserOf(budget \div MinTier(campaign), Cardinality(ActiveTalents(talents)))
  PROVE  NobodyPassedOver(result, campaign, budget, talents)
<1> DEFINE most == budget \div MinTier(campaign)
           active == ActiveTalents(talents)
           eligible == Eligible(campaign, talents)
           l == Len(result.slots)
<1>1. most \in Nat
  BY MinTierSound, Quotient
<1>2. Len(talents) \in Nat /\ DOMAIN talents = 1 .. Len(talents)
  OBVIOUS
<1>3. IsFiniteSet(active)
  <2>1. IsFiniteSet(1 .. Len(talents)) /\ active \subseteq 1 .. Len(talents)
    BY <1>2, FS_Interval DEF ActiveTalents
  <2>2. QED
    BY <2>1, FS_Subset
<1>4. eligible \subseteq active /\ EligibleTo(campaign, talents, Len(talents)) = eligible
  BY <1>2 DEF Eligible, EligibleTo, ActiveTalents
<1>5. Cardinality(active) \in Nat /\ Cardinality(eligible) \in Nat /\ Cardinality(eligible) <= Cardinality(active)
  BY <1>3, <1>4, FS_Subset, FS_CardinalityType
<1>6. l \in Nat
  BY DEF Turned, Within
<1> HIDE DEF most, active, eligible
<1>7. CASE ~Over(result, capacity)
  <2>1. l >= Cardinality(eligible)
    BY <1>4, <1>7 DEF Turned
  <2>2. l >= LesserOf(most, Cardinality(eligible))
    BY <1>1, <1>5, <1>6, <2>1 DEF LesserOf
  <2>3. QED
    BY <2>2 DEF NobodyPassedOver, most, eligible
<1>8. CASE Over(result, capacity)
  <2>1. result.error = "" => l = capacity
    BY <1>8 DEF Over
  <2>2. capacity = LesserOf(most, Cardinality(active))
    BY DEF most, active
  <2>3. capacity >= LesserOf(most, Cardinality(eligible))
    BY <1>1, <1>5, <2>2 DEF LesserOf
  <2>4. QED
    BY <2>1, <2>3 DEF NobodyPassedOver, most, eligible
<1>9. QED
  BY <1>7, <1>8

\* For every campaign, budget and list of talents the waterfall's slots sum up
\* to no more than the budget, are numbered as UNIQUE (cycle_id, tier_value,
\* slot_index) wants, pay a target CPA each, fit active talents in order within
\* their ceilings, and leave out nobody whom the budget could serve
\* (internal/allocation/slots.go, BuildBudgetSlots).
THEOREM WaterfallSound ==
  \A campaign \in Terms, budget \in Nat, talents \in Seq(TalentTerms) :
    LET result == BuildBudgetSlots(campaign, budget, talents)
    IN  /\ WithinBudget(result.slots, budget)
        /\ IndexedInOrder(result.slots)
        /\ Serving(result.slots, campaign, talents)
        /\ NobodyPassedOver(result, campaign, budget, talents)
<1>1. SUFFICES ASSUME NEW campaign \in Terms, NEW budget \in Nat, NEW talents \in Seq(TalentTerms)
               PROVE  LET result == BuildBudgetSlots(campaign, budget, talents)
                      IN  /\ WithinBudget(result.slots, budget)
                          /\ IndexedInOrder(result.slots)
                          /\ Serving(result.slots, campaign, talents)
                          /\ NobodyPassedOver(result, campaign, budget, talents)
  OBVIOUS
<1> DEFINE active == ActiveTalents(talents)
           capacity == Capacity(campaign, budget, active)
           fair == FairBudget(campaign, budget, active)
           result == BuildBudgetSlots(campaign, budget, talents)
           looped == AfterTurns(campaign, fair, capacity, talents)[Len(talents)]
           Fine(r) == /\ WithinBudget(r.slots, budget)
                      /\ IndexedInOrder(r.slots)
                      /\ Serving(r.slots, campaign, talents)
                      /\ NobodyPassedOver(r, campaign, budget, talents)
<1>2. result =
        IF active = {} THEN NoSlots("")
        ELSE IF ~ValidCycle(campaign, budget) THEN NoSlots("invalid_cycle")
        ELSE IF capacity = 0 THEN NoSlots("cycle_budget_below_target_cpa") ELSE looped
  BY DEF BuildBudgetSlots
<1>3. IsFiniteSet(active) /\ Len(talents) \in Nat
  <2>1. DOMAIN talents = 1 .. Len(talents) /\ Len(talents) \in Nat
    OBVIOUS
  <2>2. IsFiniteSet(1 .. Len(talents)) /\ active \subseteq 1 .. Len(talents)
    BY <2>1, FS_Interval DEF ActiveTalents
  <2>3. QED
    BY <2>1, <2>2, FS_Subset
<1>4. ASSUME NEW error \in Errors, active = {} \/ Over(NoSlots(error), 1)
      PROVE  Fine(NoSlots(error))
  <2>1. NoSlots(error).slots = <<>>
    BY DEF NoSlots
  <2>2. WithinBudget(<<>>, budget)
    <3>1. <<>> \in Seq(SlotTerms) /\ Len(<<>>) = 0 /\ 0 * 0 <= budget /\ 0 \in Nat /\ 1 .. 0 = {}
      OBVIOUS
    <3> DEFINE list == <<>>
    <3>2. list \in Seq(SlotTerms) /\ Len(list) <= 0 /\ 1 .. Len(list) = {}
      BY <3>1
    <3> HIDE DEF list
    <3>3. \A i \in 1 .. Len(list) : list[i].tier <= 0
      BY <3>2
    <3>4. WithinBudget(list, budget)
      BY <3>1, <3>2, <3>3, RowsWithinBudget
    <3>5. QED
      BY <3>4 DEF list
  <2>3. Turned(campaign, 0, 0, talents, 0, NoSlots(error))
    BY NoSlotsTurned
  <2>4. IndexedInOrder(<<>>) /\ Serving(<<>>, campaign, talents)
    BY <2>1, <2>3, TurnedServes DEF Turned
  <2>5. NobodyPassedOver(NoSlots(error), campaign, budget, talents)
    <3>1. CASE active = {}
      <4>1. Eligible(campaign, talents) = {}
        BY <3>1 DEF Eligible
      <4>2. Cardinality(Eligible(campaign, talents)) = 0 /\ Len(<<>>) = 0
        BY <4>1, FS_EmptySet
      <4>3. campaign.target_cpa > 0 => budget \div MinTier(campaign) \in Nat
        BY MinTierSound, Quotient
      <4>4. campaign.target_cpa > 0 =>
              Len(<<>>) >= LesserOf(budget \div MinTier(campaign), Cardinality(Eligible(campaign, talents)))
        BY <4>2, <4>3 DEF LesserOf
      <4>5. QED
        BY <2>1, <4>4 DEF NobodyPassedOver
    <3>2. CASE Over(NoSlots(error), 1)
      <4>1. Len(<<>>) # 1
        OBVIOUS
      <4>2. Len(NoSlots(error).slots) # 1
        BY <2>1, <4>1
      <4>3. NoSlots(error).error # ""
        BY <3>2, <4>2, Zenon DEF Over
      <4>4. QED
        BY <4>3 DEF NobodyPassedOver
    <3>3. QED
      BY <1>4, <3>1, <3>2
  <2>6. QED
    BY <2>1, <2>2, <2>4, <2>5
<1>5. /\ "" \in Errors /\ "invalid_cycle" \in Errors /\ "cycle_budget_below_target_cpa" \in Errors
      /\ Over(NoSlots("invalid_cycle"), 1) /\ Over(NoSlots("cycle_budget_below_target_cpa"), 1)
  BY DEF Errors, Over, NoSlots
<1>6. ASSUME active # {}, ValidCycle(campaign, budget), capacity # 0 PROVE Fine(looped)
  <2>1. campaign.target_cpa > 0
    BY <1>6 DEF ValidCycle
  <2>2. /\ capacity \in Nat \ {0} /\ fair \in Nat /\ Whole(fair) /\ fair >= MinTier(campaign)
        /\ capacity * fair <= budget
        /\ capacity = LesserOf(budget \div MinTier(campaign), Cardinality(active))
    BY <1>3, <1>6, <2>1, FairSound
  <2> HIDE DEF capacity, fair
  <2>3. Turned(campaign, fair, capacity, talents, Len(talents), looped)
    BY <2>1, <2>2, LoopTurned
  <2> HIDE DEF looped
  <2>4. WithinBudget(looped.slots, budget)
    <3>1. /\ looped.slots \in Seq(SlotTerms) /\ Len(looped.slots) <= capacity
          /\ \A i \in 1 .. Len(looped.slots) : looped.slots[i].tier <= fair
      BY <2>3 DEF Turned, Within
    <3>2. QED
      BY <2>2, <3>1, RowsWithinBudget
  <2>5. IndexedInOrder(looped.slots)
    BY <2>3 DEF Turned
  <2>6. Serving(looped.slots, campaign, talents)
    BY <2>3, TurnedServes
  <2>7. NobodyPassedOver(looped, campaign, budget, talents)
    BY <2>1, <2>2, <2>3, NobodyPassed
  <2>8. QED
    BY <2>4, <2>5, <2>6, <2>7
<1> HIDE DEF Fine, looped, capacity, active, result
<1>7. Fine(result)
  <2>1. CASE active = {}
    BY <1>2, <1>4, <1>5, <2>1
  <2>2. CASE active # {} /\ ~ValidCycle(campaign, budget)
    BY <1>2, <1>4, <1>5, <2>2
  <2>3. CASE active # {} /\ ValidCycle(campaign, budget) /\ capacity = 0
    BY <1>2, <1>4, <1>5, <2>3
  <2>4. CASE active # {} /\ ValidCycle(campaign, budget) /\ capacity # 0
    BY <1>2, <1>6, <2>4
  <2>5. QED
    BY <2>1, <2>2, <2>3, <2>4
<1>8. QED
  BY <1>7 DEF Fine, result

\* Every answer is the algorithm's, to a question that can be asked.
AnswerInv == question \in Questions /\ (answer = <<>> \/ answer = <<Answer>>)

LEMMA AnswersAlways == AlgorithmsSpec => []AnswerInv
<1>1. question \in Questions /\ answer = <<>> => AnswerInv
  BY DEF AnswerInv
<1>2. AnswerInv /\ [Compute]_<<question, answer>> => AnswerInv'
  <2> SUFFICES ASSUME AnswerInv, [Compute]_<<question, answer>> PROVE AnswerInv'
    OBVIOUS
  <2>1. question' = question
    BY DEF Compute
  <2>2. Answer' = Answer
    BY <2>1 DEF Answer, Inputs
  <2>3. answer' = answer \/ answer' = <<Answer>>
    BY DEF Compute
  <2>4. QED
    BY <2>1, <2>2, <2>3 DEF AnswerInv
<1>3. QED
  BY <1>1, <1>2, PTL DEF AlgorithmsSpec

\* Whatever the campaign, the budget and the talents, the slots of a cycle keep
\* what they promise (internal/allocation/slots.go, BuildBudgetSlots).
THEOREM SlotsCorrect == AlgorithmsSpec => []SlotsSound
<1>1. ASSUME AnswerInv, Answered("slots")
      PROVE  /\ WithinBudget(answer[1].slots, question.budget)
             /\ IndexedInOrder(answer[1].slots)
             /\ Serving(answer[1].slots, question.campaign, question.talents)
             /\ NobodyPassedOver(answer[1], question.campaign, question.budget, question.talents)
  <2>1. question.kind = "slots" /\ answer[1] = Answer
    BY <1>1 DEF AnswerInv, Answered
  <2>2. answer[1] = BuildBudgetSlots(question.campaign, question.budget, question.talents)
    BY <2>1 DEF Answer
  <2>3. question \in SlotQuestions
    BY <1>1, <2>1 DEF AnswerInv, Questions, SlotQuestions, PayoutQuestions, RatingQuestions,
                      WaterfallQuestions, SuggestionQuestions
  <2>4. question.campaign \in Terms /\ question.budget \in Nat /\ question.talents \in Seq(TalentTerms)
    BY <2>3 DEF SlotQuestions
  <2>5. QED
    BY <2>2, <2>4, WaterfallSound
<1>2. AnswerInv => SlotsSound
  BY <1>1 DEF SlotsSound
<1>3. QED
  BY <1>2, AnswersAlways, PTL

-----------------------------------------------------------------------------
(* The rows and columns of the solver *)

\* What Solve is called with.
Question ==
  /\ profiles \in Seq([pdc : Nat, max_tier : Nat, audience : {"same", "other", "unknown"}])
  /\ tiers \in Seq(Nat) /\ cpa \in [target : Nat \ {0}, max : Nat \ {0}]

SolverSpec == Question /\ SolverInit /\ [][SolverNext]_solverVars

\* The first n rows have columns of S, each one of its own.
Coupled(q, S, n) ==
  /\ \A j \in S : q[j] \in 0 .. n
  /\ \A j, k \in S : q[j] = q[k] /\ q[j] # 0 => j = k
  /\ \A i \in 1 .. n : \E j \in S : q[j] = i

MatchInv ==
  /\ Size \in Nat /\ row \in 0 .. Size /\ j0 \in 0 .. Size /\ loop \in {"rows", "scan", "augment"}
  /\ p \in [0 .. Size -> 0 .. Size] /\ way \in [0 .. Size -> 0 .. Size]
  /\ loop = "rows" => Coupled(p, 1 .. Size, row)
  /\ loop = "scan" => row # 0 /\ p[0] = row /\ Coupled(p, 1 .. Size, row - 1)
  /\ loop = "augment" => j0 # 0 /\ row # 0 /\ Coupled(p, (0 .. Size) \ {j0}, row)

LEMMA LargestOfTwo ==
  ASSUME NEW m \in Int, NEW n \in Int
  PROVE  Max({m, n}) \in {m, n} /\ Max({m, n}) >= m /\ Max({m, n}) >= n
<1>1. \E x \in {m, n} : \A y \in {m, n} : x >= y
  <2>1. CASE m >= n
    BY <2>1
  <2>2. CASE ~(m >= n)
    BY <2>2
  <2>3. QED
    BY <2>1, <2>2
<1> DEFINE x == CHOOSE x \in {m, n} : \A y \in {m, n} : x >= y
<1>2. x \in {m, n} /\ \A y \in {m, n} : x >= y
  BY <1>1
<1>3. x = Max({m, n})
  BY DEF Max
<1>4. QED
  BY <1>2, <1>3

LEMMA SizeIs ==
  ASSUME Question
  PROVE  Size \in Nat /\ Size >= Len(profiles) /\ Size >= Len(tiers) /\ Len(profiles) \in Nat /\ Len(tiers) \in Nat
<1>1. Len(profiles) \in Nat /\ Len(tiers) \in Nat
  BY DEF Question
<1> DEFINE m == Len(profiles)
           n == Len(tiers)
<1>2. Size = Max({m, n}) /\ m \in Int /\ n \in Int /\ m \in Nat /\ n \in Nat
  BY <1>1 DEF Size
<1> HIDE DEF m, n
<1>3. Size \in Nat /\ Size >= m /\ Size >= n
  BY <1>2, LargestOfTwo
<1>4. QED
  BY <1>1, <1>3 DEF m, n

LEMMA LeastOf ==
  ASSUME NEW B \in SUBSET Nat, B # {}
  PROVE  Min(B) \in B /\ \A n \in B : Min(B) <= n
<1>1. \E m \in B : \A n \in B : m <= n
  BY LeastNat
<1>2. QED
  BY <1>1 DEF Min

LEMMA WithoutZero ==
  ASSUME NEW N \in Nat
  PROVE  (0 .. N) \ {0} = 1 .. N
OBVIOUS

\* The next row starts from column 0, which is none.
LEMMA MatchedStarts ==
  ASSUME NEW N \in Nat, NEW q \in [0 .. N -> 0 .. N], NEW r \in 0 .. N, r < N, Coupled(q, 1 .. N, r),
         NEW q2, q2 = [q EXCEPT ![0] = r + 1]
  PROVE  /\ r + 1 \in 0 .. N /\ r + 1 # 0 /\ q2 \in [0 .. N -> 0 .. N]
         /\ q2[0] = r + 1 /\ Coupled(q2, 1 .. N, (r + 1) - 1)
<1>1. r + 1 \in 0 .. N /\ r + 1 # 0 /\ (r + 1) - 1 = r
  OBVIOUS
<1> DEFINE x == r + 1
<1>2. q2 = [q EXCEPT ![0] = x] /\ x \in 0 .. N /\ 0 \in 0 .. N
  BY <1>1
<1> HIDE DEF x
<1>3. q2 \in [0 .. N -> 0 .. N] /\ q2[0] = x
  <2> DEFINE S == 0 .. N
  <2>1. q \in [S -> S] /\ 0 \in S /\ x \in S /\ q2 = [q EXCEPT ![0] = x]
    BY <1>2
  <2> HIDE DEF S
  <2>2. q2 \in [S -> S] /\ q2[0] = x
    BY <2>1
  <2>3. QED
    BY <2>2 DEF S
<1>4. \A j \in 1 .. N : j \in 0 .. N /\ j # 0
  OBVIOUS
<1>5. \A j \in 1 .. N : q2[j] = q[j]
  BY <1>2, <1>4
<1>6. Coupled(q2, 1 .. N, r)
  <2> DEFINE S == 1 .. N
  <2>1. /\ \A j \in S : q2[j] = q[j] /\ q[j] \in 0 .. r
        /\ \A j, k \in S : q[j] = q[k] /\ q[j] # 0 => j = k
        /\ \A i \in 1 .. r : \E j \in S : q[j] = i
    BY <1>5 DEF Coupled
  <2> HIDE DEF S
  <2>2. \A j, k \in S : q2[j] = q2[k] /\ q2[j] # 0 => j = k
    BY <2>1
  <2>3. \A i \in 1 .. r : \E j \in S : q2[j] = i
    BY <2>1
  <2>4. Coupled(q2, S, r)
    BY <2>1, <2>2, <2>3 DEF Coupled
  <2>5. QED
    BY <2>4 DEF S
<1>7. QED
  BY <1>1, <1>3, <1>6 DEF x

\* A free column is found.
LEMMA MatchedFound ==
  ASSUME NEW N \in Nat, NEW q \in [0 .. N -> 0 .. N], NEW r \in 1 .. N, q[0] = r, Coupled(q, 1 .. N, r - 1),
         NEW k \in 0 .. N, q[k] = 0
  PROVE  k # 0 /\ Coupled(q, (0 .. N) \ {k}, r)
<1>1. \A j \in 1 .. N : q[j] \in 0 .. (r - 1)
  BY DEF Coupled
<1>2. \A j \in 1 .. N : q[j] # r
  BY <1>1
<1>3. \A j \in (0 .. N) \ {k} : j = 0 \/ j \in 1 .. N
  OBVIOUS
<1>4. \A i \in 1 .. r : i = r \/ i \in 1 .. (r - 1)
  OBVIOUS
<1>5. \A j \in (0 .. N) \ {k} : q[j] \in 0 .. r
  <2>1. (\A i \in 0 .. (r - 1) : i \in 0 .. r) /\ r \in 0 .. r
    OBVIOUS
  <2> DEFINE R == 0 .. r
             L == 0 .. (r - 1)
             S == 1 .. N
             T == (0 .. N) \ {k}
  <2>2. /\ \A i \in L : i \in R
        /\ r \in R /\ \A j \in S : q[j] \in L
        /\ \A j \in T : j = 0 \/ j \in S
    BY <1>1, <1>3, <2>1
  <2> HIDE DEF R, L, S, T
  <2>3. \A j \in T : q[j] \in R
    BY <2>2
  <2>4. QED
    BY <2>3 DEF R, T
<1>6. \A j, l \in (0 .. N) \ {k} : q[j] = q[l] /\ q[j] # 0 => j = l
  BY <1>2, <1>3 DEF Coupled
<1>7. ASSUME NEW i \in 1 .. r PROVE \E j \in (0 .. N) \ {k} : q[j] = i
  <2>1. CASE i = r
    BY <2>1
  <2>2. CASE i # r
    <3>1. PICK j \in 1 .. N : q[j] = i
      BY <1>4, <2>2 DEF Coupled
    <3>2. j # k /\ j \in 0 .. N
      BY <3>1
    <3>3. QED
      BY <3>1, <3>2
  <2>3. QED
    BY <2>1, <2>2
<1>8. k # 0
  OBVIOUS
<1>9. QED
  BY <1>5, <1>6, <1>7, <1>8 DEF Coupled

\* A column takes the row of another one, wherever way leads.
LEMMA MatchedMoves ==
  ASSUME NEW N \in Nat, NEW q \in [0 .. N -> 0 .. N], NEW r \in 0 .. N, NEW k \in 0 .. N, NEW w \in 0 .. N,
         Coupled(q, (0 .. N) \ {k}, r), NEW q2, q2 = [q EXCEPT ![k] = q[w]]
  PROVE  q2 \in [0 .. N -> 0 .. N] /\ Coupled(q2, (0 .. N) \ {w}, r)
<1>1. q2 \in [0 .. N -> 0 .. N] /\ q2[k] = q[w] /\ \A j \in (0 .. N) \ {k} : q2[j] = q[j]
  OBVIOUS
<1>2. CASE w = k
  <2>1. q2 = q
    BY <1>2
  <2>2. QED
    BY <1>1, <1>2, <2>1
<1>3. CASE w # k
  <2>1. \A j \in (0 .. N) \ {w} : q2[j] \in 0 .. r
    <3>1. \A j \in (0 .. N) \ {k} : q[j] \in 0 .. r
      BY DEF Coupled
    <3>2. QED
      BY <1>1, <1>3, <3>1
  <2>2. \A j, l \in (0 .. N) \ {w} : q2[j] = q2[l] /\ q2[j] # 0 => j = l
    <3>1. \A j, l \in (0 .. N) \ {k} : q[j] = q[l] /\ q[j] # 0 => j = l
      BY DEF Coupled
    <3>2. QED
      BY <1>1, <1>3, <3>1
  <2>3. ASSUME NEW i \in 1 .. r PROVE \E j \in (0 .. N) \ {w} : q2[j] = i
    <3>1. PICK j \in (0 .. N) \ {k} : q[j] = i
      BY DEF Coupled
    <3>2. CASE j = w
      BY <1>1, <1>3, <3>1, <3>2
    <3>3. CASE j # w
      BY <1>1, <3>1, <3>3
    <3>4. QED
      BY <3>2, <3>3
  <2>4. QED
    BY <1>1, <2>1, <2>2, <2>3 DEF Coupled
<1>4. QED
  BY <1>2, <1>3

LEMMA SolverStays ==
  ASSUME UNCHANGED input
  PROVE  Size' = Size
BY DEF input, Size

LEMMA InitMatch == Question /\ SolverInit => MatchInv
<1> SUFFICES ASSUME Question, SolverInit PROVE MatchInv
  OBVIOUS
<1>1. Size \in Nat
  BY SizeIs
<1>2. \A j \in 0 .. Size : p[j] = 0
  BY DEF SolverInit, Everywhere
<1>3. Coupled(p, 1 .. Size, 0)
  BY <1>1, <1>2 DEF Coupled
<1>4. QED
  BY <1>1, <1>3 DEF SolverInit, Everywhere, MatchInv

LEMMA NextMatch ==
  ASSUME MatchInv, [SolverNext]_solverVars
  PROVE  MatchInv'
<1> DEFINE N == Size
<1>1. /\ N \in Nat /\ row \in 0 .. N /\ j0 \in 0 .. N
      /\ p \in [0 .. N -> 0 .. N] /\ way \in [0 .. N -> 0 .. N]
  BY DEF MatchInv
<1>2. CASE NextRow
  <2>1. /\ Size' = N /\ way' = way /\ p' = [p EXCEPT ![0] = row + 1] /\ row' = row + 1
        /\ loop' = "scan" /\ j0' = 0 /\ row < N /\ Coupled(p, 1 .. N, row)
    BY <1>2, SolverStays DEF NextRow, MatchInv
  <2> HIDE DEF N
  <2>2. /\ row' \in 0 .. N /\ row' # 0 /\ p' \in [0 .. N -> 0 .. N]
        /\ p'[0] = row' /\ Coupled(p', 1 .. N, row' - 1)
    BY <1>1, <2>1, MatchedStarts, Zenon
  <2>3. way' \in [0 .. N -> 0 .. N] /\ Size' \in Nat /\ j0' \in 0 .. N
    <3>1. way' = way /\ Size' = N /\ j0' = 0
      BY <2>1
    <3>2. 0 \in 0 .. N
      BY <1>1
    <3>3. QED
      BY <1>1, <3>1, <3>2
  <2>4. QED
    BY <2>1, <2>2, <2>3 DEF MatchInv
<1>3. CASE Scan
  <2> DEFINE seen == used \cup {j0}
             free == (1 .. N) \ seen
             closer == {j \in free : Reduced(p[j0], j) < minVal[j]}
             least == [j \in DOMAIN minVal |-> IF j \in closer THEN Reduced(p[j0], j) ELSE minVal[j]]
             best == {j \in free : least[j] < Half /\ \A k \in free : least[j] <= least[k]}
             j1 == IF best = {} THEN 0 ELSE Min(best)
  <2>1. /\ way' = [j \in DOMAIN way |-> IF j \in closer THEN j0 ELSE way[j]]
        /\ j0' = j1 /\ loop' = IF p[j1] = 0 THEN "augment" ELSE "scan"
        /\ p' = p /\ row' = row /\ Size' = N /\ loop = "scan"
    BY <1>3, SolverStays, Zenon DEF Scan
  <2>2. best \in SUBSET (1 .. N)
    OBVIOUS
  <2> HIDE DEF N, seen, best, closer
  <2>3. j1 \in 0 .. N
    <3>1. best \in SUBSET Nat
      BY <1>1, <2>2
    <3>2. best # {} => Min(best) \in best
      BY <3>1, LeastOf
    <3>3. 0 \in 0 .. N /\ \A j \in 1 .. N : j \in 0 .. N
      BY <1>1
    <3>4. QED
      BY <2>2, <3>2, <3>3
  <2>4. way' \in [0 .. N -> 0 .. N]
    BY <1>1, <2>1
  <2> HIDE DEF j1
  <2>5. row \in 1 .. N /\ p[0] = row /\ row # 0 /\ Coupled(p, 1 .. N, row - 1)
    BY <1>1, <2>1 DEF MatchInv, N
  <2>6. CASE p[j1] = 0
    <3>1. j1 # 0 /\ Coupled(p, (0 .. N) \ {j1}, row)
      BY <1>1, <2>3, <2>5, <2>6, MatchedFound
    <3>2. loop' = "augment" /\ Size' = N /\ p' = p /\ row' = row /\ j0' = j1
      BY <2>1, <2>6
    <3>3. j0' # 0 /\ row' # 0 /\ Coupled(p', (0 .. Size') \ {j0'}, row')
      BY <2>5, <3>1, <3>2
    <3>4. Size' \in Nat /\ row' \in 0 .. Size' /\ j0' \in 0 .. Size' /\ p' \in [0 .. Size' -> 0 .. Size']
      BY <1>1, <2>3, <3>2
    <3>5. way' \in [0 .. Size' -> 0 .. Size']
      BY <2>4, <3>2
    <3>6. QED
      BY <3>2, <3>3, <3>4, <3>5 DEF MatchInv
  <2>7. CASE p[j1] # 0
    BY <1>1, <2>1, <2>3, <2>4, <2>5, <2>7 DEF MatchInv
  <2>8. QED
    BY <2>6, <2>7, Zenon
<1>4. CASE Augment
  <2> DEFINE w == way[j0]
  <2>1. /\ p' = [p EXCEPT ![j0] = p[w]] /\ j0' = w /\ loop' = (IF w = 0 THEN "rows" ELSE "augment")
        /\ Size' = N /\ row' = row /\ way' = way
        /\ j0 # 0 /\ row # 0 /\ Coupled(p, (0 .. N) \ {j0}, row)
    BY <1>4, SolverStays DEF Augment, MatchInv
  <2>2. w \in 0 .. N
    BY <1>1
  <2> HIDE DEF N, w
  <2>3. p' \in [0 .. N -> 0 .. N] /\ Coupled(p', (0 .. N) \ {w}, row)
    BY <1>1, <2>1, <2>2, MatchedMoves
  <2>4. CASE w = 0
    <3>1. Coupled(p', 1 .. N, row)
      BY <1>1, <2>3, <2>4, WithoutZero
    <3>2. QED
      BY <1>1, <2>1, <2>2, <2>3, <2>4, <3>1 DEF MatchInv
  <2>5. CASE w # 0
    BY <1>1, <2>1, <2>2, <2>3, <2>5 DEF MatchInv
  <2>6. QED
    BY <2>4, <2>5
<1>5. CASE UNCHANGED solverVars
  BY <1>5, SolverStays DEF solverVars, search, MatchInv
<1>6. QED
  BY <1>2, <1>3, <1>4, <1>5 DEF SolverNext

\* With every row matched, the column of a row is the one that has it.
LEMMA ColumnIs ==
  ASSUME MatchInv, Solved, NEW i \in 1 .. Size
  PROVE  ColumnOf(i) \in 1 .. Size /\ p[ColumnOf(i)] = i
<1>1. Coupled(p, 1 .. Size, Size) /\ Size \in Nat
  BY DEF MatchInv, Solved
<1>2. PICK j \in 1 .. Size : p[j] = i
  BY <1>1 DEF Coupled
<1>3. {k \in 1 .. Size : p[k] = i} \cup {1} = {j, 1}
  <2>1. \A k \in 1 .. Size : p[k] = i => k = j
    BY <1>1, <1>2 DEF Coupled
  <2>2. QED
    BY <1>2, <2>1
<1>4. Max({j, 1}) = j
  BY <1>2, LargestOfTwo
<1>5. QED
  BY <1>2, <1>3, <1>4 DEF ColumnOf

LEMMA MatchColumns == MatchInv => ColumnsDistinct
<1>1. ASSUME MatchInv, Solved, NEW i \in 1 .. Size, NEW j \in 1 .. Size, ColumnOf(i) = ColumnOf(j)
      PROVE  i = j
  <2>1. p[ColumnOf(i)] = i
    BY <1>1, ColumnIs
  <2>2. p[ColumnOf(j)] = j
    BY <1>1, ColumnIs
  <2>3. QED
    BY <1>1, <2>1, <2>2
<1>2. QED
  BY <1>1 DEF ColumnsDistinct

LEMMA SpecMatch == SolverSpec => []MatchInv
<1>1. MatchInv /\ [SolverNext]_solverVars => MatchInv'
  BY NextMatch
<1>2. QED
  BY <1>1, InitMatch, PTL DEF SolverSpec

\* Whatever the costs are and however they are rounded, the answer gives every
\* row a column of its own: a row that follows what earlier rows left in way
\* takes nobody's column (internal/algo/hungarian.go:195).
THEOREM ColumnsCorrect == SolverSpec => []ColumnsDistinct
<1>1. QED
  BY SpecMatch, MatchColumns, PTL

-----------------------------------------------------------------------------
(* The potentials of the solver, while float64 is exact *)

\* No talent costs more on a slot it qualifies for.
Dearest == 137 * (2 * CycleLength + 10)

\* The sums that the solver forms are below the first number that is rounded.
Exact == 4 * Dearest < Precision

Tight(C, y, z, i, j) == y[i] + z[j] = C[i][j]
Slack(C, y, z, i, j) == C[i][j] - y[i] - z[j]

\* No pair is cheaper than its potentials allow.
Potentials(C, N, B, y, z) ==
  /\ DOMAIN y = 0 .. N /\ DOMAIN z = 0 .. N
  /\ \A i \in 1 .. N : y[i] \in 0 .. B
  /\ \A j \in 1 .. N : z[j] \in -B .. 0
  /\ \A i, j \in 1 .. N : y[i] + z[j] <= C[i][j]

\* And the pairs that are made cost just that.
Edges(C, y, z, q, S) ==
  \A j \in S : IF q[j] = 0 THEN z[j] = 0 ELSE Tight(C, y, z, q[j], j)

\* The columns that the passes have met, s and now a, form a tree.
Ranked(N, w, s, a) ==
  \E f \in [0 .. N -> Nat], b \in Nat :
    \A j \in 0 .. N : IF j \in s \cup {a} THEN f[j] < b /\ (j # 0 => f[w[j]] < f[j]) ELSE f[j] = b

Passing(C, N, h, y, z, q, w, m, s, a) ==
  /\ s \subseteq 0 .. N /\ a \in 0 .. N /\ a \notin s /\ 0 \in s \cup {a} /\ DOMAIN m = 0 .. N
  /\ \A k \in s : q[k] # 0
  /\ \A k \in (s \cup {a}) \ {0} : w[k] \in s /\ Tight(C, y, z, q[w[k]], k)
  /\ \A j \in (1 .. N) \ (s \cup {a}) :
       IF s = {} THEN m[j] = h
       ELSE /\ w[j] \in s /\ m[j] = Slack(C, y, z, q[w[j]], j)
            /\ \A k \in s : m[j] <= Slack(C, y, z, q[k], j)
  /\ Ranked(N, w, s, a)

\* The columns that change hands next, as far down as a.
Walk(C, N, y, z, q, w, a) ==
  \E f \in [0 .. N -> Nat] :
    /\ \A j \in 0 .. N : f[j] <= f[a] /\ j # a => q[j] # 0
    /\ \A j \in 1 .. N : f[j] <= f[a] => f[w[j]] < f[j] /\ Tight(C, y, z, q[w[j]], j)

\* The largest spacing is twice another, and so is the largest float.
LEMMA SpacingsAre ==
  /\ Precision \in Nat /\ Precision >= 3 /\ 1 \in Spacings /\ \A s \in Spacings : s \in Nat \ {0}
  /\ Widest \in Spacings /\ \A s \in Spacings : s <= Widest
  /\ \E k \in Spacings : /\ Widest = 2 * k /\ 2 * Precision <= k
                         /\ Half = (Precision - 1) * k /\ Forbidden = (Precision - 1) * (2 * k)
<1>1. /\ Precision \in Nat /\ Precision >= 3 /\ 1 \in Spacings /\ \A s \in Spacings : s \in Nat \ {0}
      /\ \A s \in Spacings \ {1} : \E t \in Spacings : s = 2 * t
  BY SolverAssumption
<1>2. PICK s \in Spacings : 4 * Precision <= s /\ \A t \in Spacings : t <= s
  BY SolverAssumption
<1> DEFINE m == Widest
<1>3. m \in Spacings /\ \A t \in Spacings : m >= t
  <2>1. \E x \in Spacings : \A y \in Spacings : x >= y
    BY <1>1, <1>2
  <2>2. QED
    BY <2>1 DEF Max, Widest
<1> HIDE DEF m
<1>4. 4 * Precision <= m /\ m \in Nat /\ m # 1
  BY <1>1, <1>2, <1>3
<1>5. PICK k \in Spacings : m = 2 * k
  BY <1>1, <1>3, <1>4
<1>6. k \in Nat /\ 2 * Precision <= k
  BY <1>1, <1>4, <1>5
<1> DEFINE c == (Precision - 1) * k
<1>7. c \in Nat /\ (Precision - 1) * m = 2 * c
  <2>1. Precision - 1 \in Nat
    BY <1>1
  <2>2. QED
    BY <1>5, <1>6, <2>1
<1>8. Forbidden = 2 * c
  BY <1>7 DEF Forbidden, m
<1>9. Half = c
  <2> HIDE DEF c
  <2>1. (2 * c) \div 2 = c
    BY <1>7
  <2>2. QED
    BY <1>8, <2>1 DEF Half
<1>10. Forbidden = (Precision - 1) * (2 * k)
  BY <1>5 DEF Forbidden, m
<1>11. \A t \in Spacings : t <= m
  BY <1>1, <1>3
<1>12. QED
  BY <1>1, <1>3, <1>5, <1>6, <1>9, <1>10, <1>11 DEF m

LEMMA HalfIs ==
  /\ Half \in Nat /\ Forbidden = 2 * Half /\ Precision \in Nat /\ Precision < Half
  /\ Forbidden \in Nat /\ Precision < Forbidden
<1>1. PICK k \in Spacings : /\ 2 * Precision <= k /\ Half = (Precision - 1) * k
                            /\ Forbidden = (Precision - 1) * (2 * k)
  BY SpacingsAre
<1>2. Precision \in Nat /\ Precision >= 3 /\ k \in Nat
  BY SpacingsAre
<1> DEFINE c == (Precision - 1) * k
<1>3. c \in Nat /\ (Precision - 1) * (2 * k) = 2 * c /\ k <= c
  <2>1. \E n \in Nat : Precision - 1 = n + 1
    BY <1>2
  <2>2. PICK n \in Nat : Precision - 1 = n + 1
    BY <2>1
  <2>3. n * k \in Nat /\ c = n * k + k
    BY <1>2, <2>2
  <2>4. QED
    BY <1>2, <2>2, <2>3
<1> HIDE DEF c
<1>4. Half = c /\ Forbidden = 2 * c
  BY <1>1, <1>3 DEF c
<1>5. QED
  BY <1>1, <1>2, <1>3, <1>4

LEMMA QuotientIs ==
  ASSUME NEW a \in Nat, NEW d \in Nat \ {0}, NEW r \in Nat, r < d
  PROVE  a * d + r \in Nat /\ (a * d + r) \div d = a /\ (a * d + r) % d = r
<1> DEFINE n == a * d + r
           x == n \div d
<1>1. a * d \in Nat /\ n \in Nat /\ n = a * d + r
  OBVIOUS
<1> HIDE DEF n
<1>2. x \in Nat /\ x * d <= n /\ n < x * d + d /\ n % d = n - d * x
  <2>1. x \in Nat /\ x * d <= n /\ n < x * d + d
    BY <1>1, Quotient
  <2>2. n % d = n - d * x
    <3>1. n \in Int
      BY <1>1
    <3>2. QED
      BY <3>1, Remainder, Zenon
  <2>3. QED
    BY <2>1, <2>2
<1> HIDE DEF x
<1>3. ASSUME x + 1 <= a PROVE FALSE
  <2>1. (x + 1) * d <= a * d
    BY <1>2, <1>3, MoreTimes
  <2>2. QED
    BY <1>1, <1>2, <2>1
<1>4. ASSUME a + 1 <= x PROVE FALSE
  <2>1. (a + 1) * d <= x * d
    BY <1>2, <1>4, MoreTimes
  <2>2. QED
    BY <1>1, <1>2, <2>1
<1>5. x = a
  BY <1>2, <1>3, <1>4
<1>6. QED
  BY <1>1, <1>2, <1>5 DEF n, x

\* The spacing of the floats beside size.
SpacingAt(size) == Min({t \in Spacings : size \div t < Precision} \cup {Widest})

\* It is k where size is at most Precision spacings of k, and above that for half k.
LEMMA SpacingAtIs ==
  ASSUME NEW k \in Spacings, NEW size \in Nat, size \div k < Precision \/ k = Widest,
         Precision * k <= 2 * size
  PROVE  SpacingAt(size) = k
<1> DEFINE m == Widest
           B == {t \in Spacings : size \div t < Precision} \cup {m}
<1>1. Precision \in Nat /\ m \in Spacings /\ \A t \in Spacings : t \in Nat \ {0} /\ t <= m
  BY SpacingsAre
<1> HIDE DEF m
<1>2. k \in B /\ B \in SUBSET Nat
  BY <1>1 DEF m
<1>3. ASSUME NEW t \in Spacings, t < k, size \div t < Precision PROVE FALSE
  <2>1. t \in Nat \ {0} /\ 2 * t <= k /\ k \in Nat
    BY <1>1, <1>3, SolverAssumption
  <2> DEFINE x == size \div t
  <2>2. x \in Nat /\ size < x * t + t
    BY <2>1, Quotient
  <2>3. x + 1 <= Precision
    BY <1>1, <1>3, <2>2
  <2> HIDE DEF x
  <2>4. (x + 1) * t <= Precision * t
    BY <1>1, <2>1, <2>2, <2>3, MoreTimes
  <2>5. (2 * t) * Precision <= k * Precision
    BY <1>1, <2>1, MoreTimes
  <2>6. /\ Precision * t \in Nat /\ (2 * t) * Precision = 2 * (Precision * t)
        /\ k * Precision = Precision * k /\ Precision * k \in Nat /\ (x + 1) * t = x * t + t /\ x * t \in Nat
    BY <1>1, <2>1, <2>2
  <2>7. QED
    BY <2>1, <2>2, <2>4, <2>5, <2>6
<1>4. \A t \in B : k <= t
  BY <1>1, <1>3
<1>5. Min(B) \in B /\ Min(B) <= k
  BY <1>2, LeastOf
<1>6. Min(B) = k
  <2> HIDE DEF B
  <2>1. Min(B) \in Nat /\ k \in Nat /\ k <= Min(B)
    BY <1>2, <1>4, <1>5
  <2>2. QED
    BY <1>5, <2>1
<1>7. QED
  BY <1>6 DEF SpacingAt, m

\* Beside a float with the largest fraction, only that float is near.
LEMMA RoundedTop ==
  ASSUME NEW k \in Spacings, 2 * Precision <= k,
         NEW s \in Int, -Precision < s, s < Precision
  PROVE  Rounded((Precision - 1) * k + s) = (Precision - 1) * k
<1> DEFINE c == (Precision - 1) * k
           g == (Precision - 2) * k
           size == c + s
<1>1. Precision \in Nat /\ Precision >= 3 /\ k \in Nat \ {0} /\ 2 * Precision <= k
  BY SpacingsAre
<1>2. /\ g \in Nat /\ c = g + k /\ Precision * k = g + 2 * k /\ k <= g
      /\ Precision - 1 \in Nat /\ Precision - 2 \in Nat /\ k * (Precision - 1) = c
  <2>1. PICK n \in Nat : Precision - 2 = n + 1
    <3>1. Precision - 3 \in Nat /\ Precision - 2 = (Precision - 3) + 1
      BY <1>1
    <3>2. QED
      BY <3>1
  <2>2. Precision - 1 = n + 2 /\ Precision = n + 3
    BY <1>1, <2>1
  <2>3. /\ n * k \in Nat /\ (n + 1) * k = n * k + k /\ (n + 2) * k = n * k + 2 * k
        /\ (n + 3) * k = n * k + 3 * k /\ k * (n + 2) = n * k + 2 * k
    BY <1>1
  <2>4. QED
    BY <1>1, <2>1, <2>2, <2>3
<1>3. CASE s >= 0
  <2>1. size \div k = Precision - 1 /\ size % k = s
    <3>1. /\ s \in Nat /\ s < k /\ Precision - 1 \in Nat /\ k \in Nat \ {0}
          /\ size = (Precision - 1) * k + s
      BY <1>1, <1>2, <1>3
    <3> HIDE DEF size
    <3>2. QED
      BY <3>1, QuotientIs
  <2> HIDE DEF c, g
  <2>2. /\ size \in Nat /\ size \div k < Precision /\ Precision * k <= 2 * size
        /\ ~(2 * (size % k) > k) /\ ~(2 * (size % k) = k)
    BY <1>1, <1>2, <1>3, <2>1
  <2> HIDE DEF size
  <2>3. SpacingAt(size) = k
    BY <2>2, SpacingAtIs
  <2>4. Rounded(size) = k * (Precision - 1)
    BY <2>1, <2>2, <2>3, Zenon DEF Rounded, SpacingAt
  <2>5. QED
    BY <1>2, <2>4 DEF size, c
<1>4. CASE s < 0
  <2> DEFINE r == k + s
  <2>1. r \in Nat /\ r < k /\ size = g + r /\ 2 * r > k
    BY <1>1, <1>2, <1>4
  <2>2. size \in Nat /\ size \div k = Precision - 2 /\ size % k = r
    <3> HIDE DEF r, c, size
    <3>1. QED
      BY <1>1, <1>2, <2>1, QuotientIs DEF g
  <2> HIDE DEF c, g, r
  <2>3. size \div k < Precision /\ Precision * k <= 2 * size /\ 2 * (size % k) > k /\ Precision - 2 + 1 = Precision - 1
    BY <1>1, <1>2, <2>1, <2>2
  <2> HIDE DEF size
  <2>4. SpacingAt(size) = k
    BY <2>2, <2>3, SpacingAtIs
  <2>5. Rounded(size) = k * (Precision - 2 + 1)
    BY <2>2, <2>3, <2>4, Zenon DEF Rounded, SpacingAt
  <2>6. QED
    BY <1>2, <2>3, <2>5 DEF size, c
<1>5. QED
  BY <1>1, <1>3, <1>4

\* Whatever is far above half the largest float is not rounded below it.
LEMMA RoundedFar ==
  ASSUME NEW size \in Nat, size >= Half + Widest
  PROVE  Rounded(size) \in Nat /\ Rounded(size) >= Half
<1> DEFINE k == SpacingAt(size)
           x == size \div k
           rest == 2 * (size % k)
           m == Widest
<1>1. k \in Spacings /\ k \in Nat \ {0} /\ k <= m /\ m \in Nat /\ Half \in Nat
  <2> DEFINE B == {t \in Spacings : size \div t < Precision} \cup {m}
  <2>1. B \in SUBSET Nat /\ B # {} /\ B \subseteq Spacings
    BY SpacingsAre
  <2>2. k \in B
    BY <2>1, LeastOf DEF SpacingAt
  <2>3. QED
    BY <2>1, <2>2, SpacingsAre, HalfIs
<1>2. x \in Nat /\ size < x * k + k
  BY <1>1, Quotient
<1>3. Rounded(size) \in {k * x, k * (x + 1)}
  <2>1. Rounded(size) = k * IF rest > k \/ (rest = k /\ x % 2 = 1) THEN x + 1 ELSE x
    BY Zenon DEF Rounded, SpacingAt
  <2>2. QED
    BY <2>1
<1>4. k * x = x * k /\ k * (x + 1) = x * k + k /\ x * k \in Nat
  BY <1>1, <1>2
<1> HIDE DEF k, x, m
<1>5. QED
  BY <1>1, <1>2, <1>3, <1>4 DEF m

LEMMA RoundedSmall ==
  ASSUME NEW x \in Nat, x < Precision
  PROVE  Rounded(x) = x
<1>1. 1 \in Spacings /\ Precision \in Nat /\ x \div 1 = x /\ x % 1 = 0
  BY SpacingsAre
<1>2. SpacingAt(x) = 1
  <2> DEFINE B == {t \in Spacings : x \div t < Precision} \cup {Widest}
  <2>1. B \in SUBSET Nat /\ 1 \in B /\ 0 \notin B
    BY <1>1, SpacingsAre
  <2>2. Min(B) \in B /\ Min(B) <= 1
    BY <2>1, LeastOf
  <2>3. Min(B) = 1
    BY <2>1, <2>2
  <2>4. QED
    BY <2>3 DEF SpacingAt
<1>3. ~(2 * (x % 1) > 1) /\ ~(2 * (x % 1) = 1) /\ 1 * x = x
  BY <1>1
<1>4. Rounded(x) = 1 * x
  BY <1>1, <1>2, <1>3, Zenon DEF Rounded, SpacingAt
<1>5. QED
  BY <1>3, <1>4

LEMMA NearExact ==
  ASSUME NEW x \in Int, -Precision < x, x < Precision
  PROVE  Near(x) = x
<1>1. Precision \in Nat /\ Forbidden \in Nat /\ Precision < Forbidden
  BY HalfIs
<1>2. \A n \in Nat : n < Precision => Rounded(n) = n
  BY RoundedSmall
<1>3. CASE x < 0
  <2>1. -x \in Nat /\ -x < Precision /\ ~(-x > Forbidden) /\ -(-x) = x
    BY <1>1, <1>3
  <2>2. Magnitude(-x) = -x
    BY <1>2, <2>1 DEF Magnitude
  <2>3. QED
    BY <1>3, <2>1, <2>2 DEF Near
<1>4. CASE ~(x < 0)
  <2>1. x \in Nat /\ ~(x > Forbidden)
    BY <1>1, <1>4
  <2>2. Magnitude(x) = x
    BY <1>2, <2>1 DEF Magnitude
  <2>3. QED
    BY <1>4, <2>2 DEF Near
<1>5. QED
  BY <1>3, <1>4

\* A small number is lost beside half of the largest float or the largest.
LEMMA NearTop ==
  ASSUME NEW s \in Int, -Precision < s, s < Precision
  PROVE  /\ Near(Half + s) = Half /\ Near(-Half + s) = -Half
         /\ Near(Forbidden + s) = Forbidden /\ Near(-Forbidden + s) = -Forbidden
<1>1. PICK k \in Spacings : /\ Widest = 2 * k /\ 2 * Precision <= k
                            /\ Half = (Precision - 1) * k /\ Forbidden = (Precision - 1) * (2 * k)
  BY SpacingsAre
<1>2. k \in Nat /\ Precision \in Nat /\ 2 * k \in Spacings /\ 2 * Precision <= 2 * k
  BY <1>1, SpacingsAre
<1>3. Half \in Nat /\ Forbidden = 2 * Half /\ Precision < Half
  BY HalfIs
<1>4. \A t \in Int : -Precision < t /\ t < Precision => Rounded(Half + t) = Half /\ Rounded(Forbidden + t) = Forbidden
  BY <1>1, <1>2, RoundedTop
<1>5. ASSUME NEW t \in Int, -Precision < t, t < Precision
      PROVE  Near(Half + t) = Half /\ Near(Forbidden + t) = Forbidden
             /\ Magnitude(Half + t) = Half /\ Magnitude(Forbidden + t) = Forbidden
  <2>1. Rounded(Half + t) = Half /\ Rounded(Forbidden + t) = Forbidden
    BY <1>4, <1>5
  <2>2. ~(Half > Forbidden) /\ ~(Forbidden > Forbidden) /\ ~(Half + t < 0) /\ ~(Forbidden + t < 0)
        /\ Half + t \in Nat /\ Forbidden + t \in Nat
    BY <1>2, <1>3, <1>5
  <2>3. \A n \in Nat : n < Precision => Rounded(n) = n
    BY RoundedSmall
  <2>4. Magnitude(Half + t) = Half /\ Magnitude(Forbidden + t) = Forbidden
    BY <2>1, <2>2, <2>3, Zenon DEF Magnitude
  <2>5. QED
    BY <2>2, <2>4, Zenon DEF Near
<1>6. /\ -(-Half + s) = Half + (-s) /\ -(-Forbidden + s) = Forbidden + (-s) /\ -Half + s < 0 /\ -Forbidden + s < 0
      /\ -s \in Int /\ -Precision < -s /\ -s < Precision
  BY <1>2, <1>3
<1>7. Magnitude(Half + (-s)) = Half /\ Magnitude(Forbidden + (-s)) = Forbidden
  BY <1>5, <1>6
<1>8. Near(-Half + s) = -Half /\ Near(-Forbidden + s) = -Forbidden
  BY <1>6, <1>7, Zenon DEF Near
<1>9. QED
  BY <1>5, <1>8

LEMMA NearFar ==
  ASSUME NEW x \in Int, x >= Half + Forbidden
  PROVE  Near(x) \in Int /\ Near(x) >= Half
<1>1. PICK k \in Spacings : Widest = 2 * k /\ Forbidden = (Precision - 1) * (2 * k)
  BY SpacingsAre
<1>2. k \in Nat /\ Precision \in Nat /\ Precision >= 3 /\ Half \in Nat /\ Forbidden = 2 * Half
  BY SpacingsAre, HalfIs
<1>3. Widest \in Nat /\ Widest <= Forbidden
  <2> DEFINE c == (Precision - 2) * (2 * k)
  <2>1. c \in Nat /\ Forbidden = c + 2 * k
    BY <1>1, <1>2
  <2>2. QED
    BY <1>1, <1>2, <2>1
<1>4. x \in Nat /\ x >= Half + Widest /\ ~(x < 0)
  BY <1>2, <1>3
<1>5. Rounded(x) \in Nat /\ Rounded(x) >= Half
  BY <1>4, RoundedFar
<1>6. Magnitude(x) \in Int /\ Magnitude(x) >= Half
  BY <1>2, <1>5 DEF Magnitude, Infinity
<1>7. QED
  BY <1>4, <1>6 DEF Near

\* Fewer rows than columns leave a column free.
LEMMA FreeColumn ==
  ASSUME NEW N \in Nat, NEW r \in 1 .. N, NEW q, Coupled(q, 1 .. N, r - 1)
  PROVE  \E j \in 1 .. N : q[j] = 0
<1>1. SUFFICES ASSUME \A j \in 1 .. N : q[j] # 0 PROVE FALSE
  OBVIOUS
<1> DEFINE S == 1 .. N
           T == 1 .. (r - 1)
           f == [j \in S |-> q[j]]
<1>2. IsFiniteSet(S) /\ Cardinality(S) = N
  <2>1. 1 \in Int /\ N \in Int /\ (IF 1 > N THEN 0 ELSE N - 1 + 1) = N
    OBVIOUS
  <2>2. QED
    BY <2>1, FS_Interval
<1>3. IsFiniteSet(T) /\ Cardinality(T) = r - 1
  <2> DEFINE t == r - 1
  <2>1. 1 \in Int /\ t \in Int /\ (IF 1 > t THEN 0 ELSE t - 1 + 1) = t
    OBVIOUS
  <2> HIDE DEF t
  <2>2. IsFiniteSet(1 .. t) /\ Cardinality(1 .. t) = t
    BY <2>1, FS_Interval
  <2>3. QED
    BY <2>2 DEF t
<1>4. \A j \in S : q[j] \in T
  <2>1. \A j \in S : q[j] \in 0 .. (r - 1)
    BY DEF Coupled
  <2>2. QED
    BY <1>1, <2>1
<1>5. Cardinality(T) < Cardinality(S)
  BY <1>2, <1>3
<1>6. \A j, k \in S : q[j] = q[k] => j = k
  BY <1>1 DEF Coupled
<1> HIDE DEF S, T
<1>7. f \in [S -> T] /\ \A j \in S : f[j] = q[j]
  BY <1>4
<1> HIDE DEF f
<1>8. PICK j, k \in S : j # k /\ f[j] = f[k]
  <2>1. \E j, k \in S : j # k /\ f[j] = f[k]
    BY <1>2, <1>3, <1>5, <1>7, FS_PigeonHole
  <2>2. QED
    BY <2>1
<1>9. QED
  BY <1>6, <1>7, <1>8

LEMMA SlackBounds ==
  ASSUME NEW N \in Nat, NEW B \in Nat, NEW C \in [1 .. N -> [1 .. N -> 0 .. B]], NEW y, NEW z,
         Potentials(C, N, B, y, z), NEW i \in 1 .. N, NEW j \in 1 .. N
  PROVE  /\ C[i][j] \in 0 .. B /\ y[i] \in 0 .. B /\ z[j] \in -B .. 0
         /\ Slack(C, y, z, i, j) \in 0 .. 2 * B
<1>1. C[i][j] \in 0 .. B /\ y[i] \in 0 .. B /\ z[j] \in -B .. 0 /\ y[i] + z[j] <= C[i][j]
  BY DEF Potentials
<1> DEFINE c == C[i][j]
           e == y[i]
           g == z[j]
<1>2. c \in 0 .. B /\ e \in 0 .. B /\ g \in -B .. 0 /\ e + g <= c
  BY <1>1
<1> HIDE DEF c, e, g
<1>3. c - e - g \in 0 .. 2 * B
  BY <1>2
<1>4. QED
  BY <1>1, <1>3 DEF Slack, c, e, g

\* The start of a pass: seen, free and e are the columns it has met, the others
\* and one that no row has.
Setting(N, B, C, h, y, z, q, w, m, s, a, seen, free, e) ==
  /\ N \in Nat /\ B \in Nat /\ h \in Int /\ 2 * B < h /\ C \in [1 .. N -> [1 .. N -> 0 .. B]]
  /\ Potentials(C, N, B, y, z) /\ Edges(C, y, z, q, 1 .. N)
  /\ q \in [0 .. N -> 0 .. N] /\ w \in [0 .. N -> 0 .. N]
  /\ \A j, k \in 0 .. N : q[j] = q[k] /\ q[j] # 0 => j = k
  /\ Passing(C, N, h, y, z, q, w, m, s, a) /\ q[a] # 0
  /\ seen = s \cup {a} /\ free = (1 .. N) \ seen /\ e \in 1 .. N /\ q[e] = 0

\* A column of least is closest to the rows met so far, w of it is where from.
Closest(C, y, z, q, w, least, seen, free) ==
  \A j \in free : /\ w[j] \in seen /\ least[j] = Slack(C, y, z, q[w[j]], j)
                   /\ \A k \in seen : least[j] <= Slack(C, y, z, q[k], j)

LEMMA SettingFree ==
  ASSUME NEW N, NEW B, NEW C, NEW h, NEW y, NEW z, NEW q, NEW w, NEW m, NEW s, NEW a, NEW seen, NEW free, NEW e,
         Setting(N, B, C, h, y, z, q, w, m, s, a, seen, free, e)
  PROVE  /\ \A k \in seen : k \in 0 .. N /\ q[k] \in 1 .. N
         /\ \A j \in free : j \in 1 .. N /\ j \in 0 .. N /\ j \notin seen
         /\ e \in free /\ a \in seen /\ 0 \in seen /\ N \in Nat
         /\ DOMAIN m = 0 .. N /\ DOMAIN w = 0 .. N /\ DOMAIN y = 0 .. N /\ DOMAIN z = 0 .. N
         /\ \A j \in free, k \in seen : Slack(C, y, z, q[k], j) \in 0 .. 2 * B
<1>1. /\ N \in Nat /\ B \in Nat /\ C \in [1 .. N -> [1 .. N -> 0 .. B]] /\ Potentials(C, N, B, y, z)
      /\ seen = s \cup {a} /\ free = (1 .. N) \ seen
  BY DEF Setting
<1>2. /\ s \subseteq 0 .. N /\ a \in 0 .. N /\ \A k \in s : q[k] # 0
      /\ q \in [0 .. N -> 0 .. N] /\ q[a] # 0 /\ e \in 1 .. N /\ q[e] = 0
  BY DEF Setting, Passing
<1>3. \A k \in seen : k \in 0 .. N /\ q[k] \in 0 .. N /\ q[k] # 0
  BY <1>1, <1>2
<1>4. \A k \in seen : k \in 0 .. N /\ q[k] \in 1 .. N
  BY <1>1, <1>3
<1>5. \A j \in free : j \in 1 .. N /\ j \in 0 .. N /\ j \notin seen
  BY <1>1
<1>6. \A j \in free, k \in seen : Slack(C, y, z, q[k], j) \in 0 .. 2 * B
  BY <1>1, <1>4, <1>5, SlackBounds
<1>7. e \in free
  <2>1. e \notin seen
    BY <1>2, <1>3
  <2>2. QED
    BY <1>1, <1>2, <2>1
<1>8. a \in seen /\ 0 \in seen
  BY <1>1 DEF Setting, Passing
<1>9. DOMAIN m = 0 .. N /\ DOMAIN w = 0 .. N /\ DOMAIN y = 0 .. N /\ DOMAIN z = 0 .. N
  BY DEF Setting, Passing, Potentials
<1>10. QED
  BY <1>1, <1>4, <1>5, <1>6, <1>7, <1>8, <1>9

\* Of a finite number of columns one is the closest.
LEMMA LeastColumn ==
  ASSUME NEW S, S # {}, NEW L, NEW b, \A j \in S : L[j] \in 0 .. b
  PROVE  \E j \in S : \A k \in S : L[j] <= L[k]
<1> DEFINE D == {L[j] : j \in S}
<1>1. D \in SUBSET Nat /\ D # {}
  OBVIOUS
<1>2. PICK d \in D : \A n \in D : d <= n
  BY <1>1, LeastNat
<1>3. PICK j \in S : L[j] = d
  OBVIOUS
<1>4. \A k \in S : L[k] \in D
  OBVIOUS
<1>5. QED
  BY <1>2, <1>3, <1>4

\* What a pass makes of minVal and way.
Compared(C, y, z, q, w, m, a, free, least, w2) ==
  LET closer == {j \in free : Slack(C, y, z, q[a], j) < m[j]}
  IN  /\ least = [j \in DOMAIN m |-> IF j \in closer THEN Slack(C, y, z, q[a], j) ELSE m[j]]
      /\ w2 = [j \in DOMAIN w |-> IF j \in closer THEN a ELSE w[j]]

\* A pass compares every free column with what it was to the rows met before.
LEMMA PassCompares ==
  ASSUME NEW N, NEW B, NEW C, NEW h, NEW y, NEW z, NEW q, NEW w, NEW m, NEW s, NEW a, NEW seen, NEW free, NEW e,
         Setting(N, B, C, h, y, z, q, w, m, s, a, seen, free, e),
         NEW least, NEW w2, Compared(C, y, z, q, w, m, a, free, least, w2), NEW j \in free
  PROVE  /\ least[j] \in 0 .. 2 * B /\ w2[j] \in seen /\ least[j] = Slack(C, y, z, q[w2[j]], j)
         /\ \A k \in seen : least[j] <= Slack(C, y, z, q[k], j)
<1> DEFINE S(k) == Slack(C, y, z, q[k], j)
           b == 2 * B
           closer == {k \in free : Slack(C, y, z, q[a], k) < m[k]}
<1>1. b \in Nat /\ h \in Int /\ b < h /\ a \in seen /\ s \subseteq seen /\ \A k \in seen : k \in s \/ k = a
  BY DEF Setting
<1>2. \A k \in seen : S(k) \in 0 .. b
  BY SettingFree
<1>3. /\ least[j] = IF j \in closer THEN S(a) ELSE m[j]
      /\ w2[j] = IF j \in closer THEN a ELSE w[j]
  BY SettingFree DEF Compared
<1>4. IF s = {} THEN m[j] = h
      ELSE /\ w[j] \in s /\ m[j] = S(w[j])
           /\ \A k \in s : m[j] <= S(k)
  BY SettingFree DEF Setting, Passing
<1>5. j \in closer <=> S(a) < m[j]
  OBVIOUS
<1> HIDE DEF S, b, closer
<1>6. CASE s = {}
  <2>1. j \in closer /\ \A k \in seen : k = a
    BY <1>1, <1>2, <1>4, <1>5, <1>6
  <2>2. QED
    BY <1>1, <1>2, <1>3, <2>1 DEF S, b
<1>7. CASE s # {} /\ j \in closer
  <2>1. \A k \in seen : S(a) <= S(k)
    BY <1>1, <1>2, <1>4, <1>5, <1>7
  <2>2. QED
    BY <1>1, <1>2, <1>3, <1>7, <2>1 DEF S, b
<1>8. CASE s # {} /\ j \notin closer
  <2>1. m[j] \in 0 .. b /\ m[j] = S(w[j]) /\ w[j] \in seen
    BY <1>1, <1>2, <1>4, <1>8
  <2>2. m[j] <= S(a)
    BY <1>1, <1>2, <1>5, <1>8, <2>1
  <2>3. \A k \in seen : m[j] <= S(k)
    BY <1>1, <1>4, <1>8, <2>2
  <2>4. QED
    BY <1>3, <1>8, <2>1, <2>3 DEF S, b
<1>9. QED
  BY <1>6, <1>7, <1>8

\* The free columns that are the closest.
Nearest(h, least, free) == {j \in free : least[j] < h /\ \A k \in free : least[j] <= least[k]}

\* A pass chooses the closest.
LEMMA PassChooses ==
  ASSUME NEW N, NEW B, NEW C, NEW h, NEW y, NEW z, NEW q, NEW w, NEW m, NEW s, NEW a, NEW seen, NEW free, NEW e,
         Setting(N, B, C, h, y, z, q, w, m, s, a, seen, free, e),
         NEW least, NEW w2, Compared(C, y, z, q, w, m, a, free, least, w2),
         NEW best, best = Nearest(h, least, free)
  PROVE  /\ best # {} /\ Min(best) \in free /\ least[Min(best)] \in 0 .. 2 * B
         /\ \A j \in free : least[Min(best)] <= least[j]
         /\ Closest(C, y, z, q, w2, least, seen, free)
<1> USE DEF Nearest
<1>0. ASSUME NEW j \in free
      PROVE  /\ least[j] \in 0 .. 2 * B /\ w2[j] \in seen /\ least[j] = Slack(C, y, z, q[w2[j]], j)
             /\ \A k \in seen : least[j] <= Slack(C, y, z, q[k], j)
  BY PassCompares
<1>1. \A j \in free : least[j] \in 0 .. 2 * B
  BY <1>0
<1>2. Closest(C, y, z, q, w2, least, seen, free)
  BY <1>0 DEF Closest
<1>3. PICK j \in free : \A k \in free : least[j] <= least[k]
  <2>1. free # {}
    BY SettingFree
  <2>2. QED
    BY <1>1, <2>1, LeastColumn
<1>4. j \in best
  <2>1. 2 * B \in Int /\ h \in Int /\ 2 * B < h
    BY DEF Setting
  <2> DEFINE b == 2 * B
             x == least[j]
  <2>2. b \in Int /\ h \in Int /\ b < h /\ x \in 0 .. b
    BY <1>1, <2>1
  <2> HIDE DEF b, x
  <2>3. x < h
    BY <2>2
  <2>4. QED
    BY <1>3, <2>3 DEF x
<1>5. best \in SUBSET Nat /\ best # {} /\ best \subseteq free
  <2>1. \A k \in free : k \in 1 .. N /\ N \in Nat
    BY SettingFree
  <2>2. \A k \in free : k \in Nat
    BY <2>1
  <2>3. QED
    BY <1>4, <2>2
<1>6. Min(best) \in best
  BY <1>5, LeastOf
<1>7. QED
  BY <1>1, <1>2, <1>5, <1>6

\* How a pass moves the potentials.
Moved(N, y, z, q, seen, free, least, d, y2, z2, m2) ==
  /\ DOMAIN y2 = 0 .. N /\ DOMAIN z2 = 0 .. N /\ DOMAIN m2 = 0 .. N
  /\ \A j \in seen : y2[q[j]] = y[q[j]] + d
  /\ \A i \in 1 .. N : (\A j \in seen : q[j] # i) => y2[i] = y[i]
  /\ \A j \in 1 .. N : z2[j] = IF j \in seen THEN z[j] - d ELSE z[j]
  /\ \A j \in free : m2[j] = least[j] - d

\* Every row is on the path once.
LEMMA SettingTimes ==
  ASSUME NEW N, NEW B, NEW C, NEW h, NEW y, NEW z, NEW q, NEW w, NEW m, NEW s, NEW a, NEW seen, NEW free, NEW e,
         Setting(N, B, C, h, y, z, q, w, m, s, a, seen, free, e), NEW i \in 1 .. N
  PROVE  Cardinality({j \in seen : q[j] = i}) = IF \E j \in seen : q[j] = i THEN 1 ELSE 0
<1> DEFINE S == {j \in seen : q[j] = i}
<1>1. CASE \E j \in seen : q[j] = i
  <2>1. PICK j \in seen : q[j] = i
    BY <1>1
  <2>2. i # 0 /\ \A k \in seen : k \in 0 .. N
    BY SettingFree
  <2>3. \A k \in seen : q[k] = i => k = j
    BY <2>1, <2>2 DEF Setting
  <2>4. S = {j}
    BY <2>1, <2>3
  <2>5. Cardinality({j}) = 1
    BY FS_Singleton
  <2>6. QED
    BY <1>1, <2>4, <2>5
<1>2. CASE ~ \E j \in seen : q[j] = i
  <2>1. S = {}
    BY <1>2
  <2>2. QED
    BY <1>2, <2>1, FS_EmptySet
<1>3. QED
  BY <1>1, <1>2

\* What a pass makes of the potentials and minVal, in float64.
Shifted(y, z, q, m, seen, least, d, y2, z2, m2) ==
  /\ y2 = [i \in DOMAIN y |-> Near(y[i] + d * Cardinality({j \in seen : q[j] = i}))]
  /\ z2 = [j \in DOMAIN z |-> IF j \in seen THEN Near(z[j] - d) ELSE z[j]]
  /\ m2 = [j \in DOMAIN m |-> IF j \in seen THEN least[j] ELSE Near(least[j] - d)]

LEMMA PassMoves ==
  ASSUME NEW N, NEW B, NEW C, NEW h, NEW y, NEW z, NEW q, NEW w, NEW m, NEW s, NEW a, NEW seen, NEW free, NEW e,
         Setting(N, B, C, h, y, z, q, w, m, s, a, seen, free, e),
         4 * B < Precision, NEW d \in 0 .. 2 * B, NEW least, \A j \in free : least[j] \in 0 .. 2 * B,
         NEW y2, NEW z2, NEW m2, Shifted(y, z, q, m, seen, least, d, y2, z2, m2)
  PROVE  Moved(N, y, z, q, seen, free, least, d, y2, z2, m2)
<1>1. B \in Nat /\ Precision \in Nat /\ d \in Nat /\ d <= 2 * B
  BY HalfIs DEF Setting
<1>2. \A x \in Int : -4 * B <= x /\ x <= 4 * B => Near(x) = x
  <2>1. \A x \in Int : -4 * B <= x /\ x <= 4 * B => -Precision < x /\ x < Precision
    BY <1>1
  <2>2. QED
    BY <2>1, NearExact
<1>3. DOMAIN y2 = 0 .. N /\ DOMAIN z2 = 0 .. N /\ DOMAIN m2 = 0 .. N
  BY SettingFree DEF Shifted
<1>4. /\ \A i \in 1 .. N : y[i] \in 0 .. B /\ i \in 0 .. N /\ i # 0
      /\ \A j \in 1 .. N : z[j] \in -B .. 0
      /\ \A j, k \in 0 .. N : q[j] = q[k] /\ q[j] # 0 => j = k
      /\ \A k \in seen : k \in 0 .. N /\ q[k] \in 1 .. N
  <2>1. N \in Nat
    BY SettingFree
  <2>2. \A i \in 1 .. N : i \in 0 .. N /\ i # 0
    BY <2>1
  <2>3. /\ \A i \in 1 .. N : y[i] \in 0 .. B
        /\ \A j \in 1 .. N : z[j] \in -B .. 0
    <3>1. Potentials(C, N, B, y, z)
      BY DEF Setting
    <3>2. QED
      BY <3>1 DEF Potentials
  <2>4. \A j, k \in 0 .. N : q[j] = q[k] /\ q[j] # 0 => j = k
    BY DEF Setting
  <2>5. \A k \in seen : k \in 0 .. N /\ q[k] \in 1 .. N
    BY SettingFree
  <2>6. QED
    BY <2>2, <2>3, <2>4, <2>5
<1>5. ASSUME NEW i \in 1 .. N
      PROVE  y2[i] = IF \E j \in seen : q[j] = i THEN y[i] + d ELSE y[i]
  <2> DEFINE c == Cardinality({j \in seen : q[j] = i})
             t == y[i]
  <2>1. c = IF \E j \in seen : q[j] = i THEN 1 ELSE 0
    BY SettingTimes
  <2>2. y2[i] = Near(t + d * c) /\ t \in 0 .. B
    BY <1>4, SettingFree DEF Shifted
  <2> HIDE DEF c, t
  <2>3. CASE \E j \in seen : q[j] = i
    <3>1. t + d * c = t + d /\ t + d \in Int /\ -4 * B <= t + d /\ t + d <= 4 * B
      BY <1>1, <2>1, <2>2, <2>3
    <3>2. QED
      BY <1>2, <2>2, <2>3, <3>1 DEF t
  <2>4. CASE ~ \E j \in seen : q[j] = i
    <3>1. t + d * c = t /\ t \in Int /\ -4 * B <= t /\ t <= 4 * B
      BY <1>1, <2>1, <2>2, <2>4
    <3>2. QED
      BY <1>2, <2>2, <2>4, <3>1 DEF t
  <2>5. QED
    BY <2>3, <2>4
<1>6. ASSUME NEW j \in 1 .. N
      PROVE  z2[j] = IF j \in seen THEN z[j] - d ELSE z[j]
  <2> DEFINE t == z[j]
  <2>1. t \in -B .. 0 /\ z2[j] = IF j \in seen THEN Near(t - d) ELSE t
    BY <1>4, SettingFree DEF Shifted
  <2> HIDE DEF t
  <2>2. t - d \in Int /\ -4 * B <= t - d /\ t - d <= 4 * B
    BY <1>1, <2>1
  <2>3. QED
    BY <1>2, <2>1, <2>2 DEF t
<1>7. ASSUME NEW j \in free
      PROVE  m2[j] = least[j] - d
  <2> DEFINE t == least[j]
  <2>1. t \in 0 .. 2 * B /\ m2[j] = Near(t - d)
    BY SettingFree DEF Shifted
  <2> HIDE DEF t
  <2>2. t - d \in Int /\ -4 * B <= t - d /\ t - d <= 4 * B
    BY <1>1, <2>1
  <2>3. QED
    BY <1>2, <2>1, <2>2 DEF t
<1>8. QED
  BY <1>3, <1>4, <1>5, <1>6, <1>7 DEF Moved

\* The potentials stay below the costs, and the pairs tight.
LEMMA PassPotentials ==
  ASSUME NEW N, NEW B, NEW C, NEW h, NEW y, NEW z, NEW q, NEW w, NEW m, NEW s, NEW a, NEW seen, NEW free, NEW e,
         Setting(N, B, C, h, y, z, q, w, m, s, a, seen, free, e),
         NEW d \in 0 .. 2 * B, NEW least, NEW w2, Closest(C, y, z, q, w2, least, seen, free),
         \A j \in free : least[j] \in 0 .. 2 * B /\ d <= least[j],
         NEW y2, NEW z2, NEW m2, Moved(N, y, z, q, seen, free, least, d, y2, z2, m2)
  PROVE  Potentials(C, N, B, y2, z2) /\ Edges(C, y2, z2, q, 1 .. N)
<1>1. B \in Nat /\ d \in Nat
  BY DEF Setting
<1>2. ASSUME NEW i \in 1 .. N, NEW j \in 1 .. N
      PROVE  /\ C[i][j] \in 0 .. B /\ y[i] \in 0 .. B /\ z[j] \in -B .. 0
             /\ y[i] + z[j] <= C[i][j]
  <2>1. N \in Nat /\ B \in Nat /\ C \in [1 .. N -> [1 .. N -> 0 .. B]] /\ Potentials(C, N, B, y, z)
    BY DEF Setting
  <2>2. C[i][j] \in 0 .. B /\ y[i] \in 0 .. B /\ z[j] \in -B .. 0
    BY <2>1, SlackBounds
  <2>3. y[i] + z[j] <= C[i][j]
    BY <2>1 DEF Potentials
  <2>4. QED
    BY <2>2, <2>3
<1>3. \A k \in seen : k \in 0 .. N /\ q[k] \in 1 .. N
  BY SettingFree
<1>4. \A j \in 1 .. N : j \in seen \/ j \in free
  BY DEF Setting
<1>5. \A j \in 1 .. N : z2[j] = IF j \in seen THEN z[j] - d ELSE z[j]
  BY DEF Moved
<1>6. \A i \in 1 .. N : y2[i] = y[i] \/ (y2[i] = y[i] + d /\ \E k \in seen : q[k] = i)
  BY DEF Moved
<1>7. ASSUME NEW i \in 1 .. N, NEW j \in 1 .. N PROVE y2[i] + z2[j] <= C[i][j]
  <2> DEFINE c == C[i][j]
             f == y[i]
             g == z[j]
  <2>1. c \in 0 .. B /\ f \in 0 .. B /\ g \in -B .. 0 /\ f + g <= c
    BY <1>2
  <2>2. CASE j \in seen
    <3>1. z2[j] = g - d /\ (y2[i] = f \/ y2[i] = f + d)
      BY <1>5, <1>6, <2>2
    <3> HIDE DEF c, f, g
    <3>2. y2[i] + z2[j] <= c
      BY <1>1, <2>1, <3>1
    <3>3. QED
      BY <3>2 DEF c
  <2>3. CASE j \notin seen
    <3>1. z2[j] = g /\ j \in free
      BY <1>4, <1>5, <2>3
    <3>2. CASE y2[i] = f
      BY <2>1, <3>1, <3>2
    <3>3. CASE y2[i] # f
      <4>1. PICK k \in seen : q[k] = i
        BY <1>6, <3>3
      <4>2. y2[i] = f + d
        BY <1>6, <3>3
      <4>3. least[j] <= c - f - g /\ d <= least[j] /\ least[j] \in 0 .. 2 * B
        BY <3>1, <4>1 DEF Closest, Slack
      <4> DEFINE l == least[j]
      <4> HIDE DEF c, f, g, l
      <4>4. l <= c - f - g /\ d <= l /\ l \in Int
        <5>1. l \in 0 .. 2 * B /\ l <= c - f - g /\ d <= l
          BY <4>3 DEF c, f, g, l
        <5>2. QED
          BY <1>1, <5>1
      <4>5. f + d + g <= c
        BY <1>1, <2>1, <4>4
      <4>6. y2[i] + z2[j] <= c
        BY <1>1, <2>1, <3>1, <4>2, <4>5
      <4>7. QED
        BY <4>6 DEF c
    <3>4. QED
      BY <3>2, <3>3
  <2>4. QED
    BY <2>2, <2>3
<1>8. ASSUME NEW j \in 1 .. N
      PROVE  IF q[j] = 0 THEN z2[j] = 0 ELSE Tight(C, y2, z2, q[j], j)
  <2>1. IF q[j] = 0 THEN z[j] = 0 ELSE Tight(C, y, z, q[j], j)
    BY DEF Setting, Edges
  <2>2. N \in Nat /\ j \in 0 .. N /\ q[j] \in 0 .. N
    <3>1. N \in Nat /\ q \in [0 .. N -> 0 .. N]
      BY DEF Setting
    <3>2. j \in 0 .. N
      BY <3>1
    <3>3. QED
      BY <3>1, <3>2
  <2>3. CASE j \in seen
    <3>1. q[j] \in 1 .. N /\ q[j] # 0 /\ z2[j] = z[j] - d /\ y2[q[j]] = y[q[j]] + d
      BY <1>3, <1>5, <2>3 DEF Moved
    <3> DEFINE c == C[q[j]][j]
               f == y[q[j]]
               g == z[j]
    <3>2. c \in 0 .. B /\ f \in 0 .. B /\ g \in -B .. 0
      BY <1>2, <3>1
    <3>3. f + g = c
      BY <2>1, <3>1 DEF Tight
    <3>4. z2[j] = g - d /\ y2[q[j]] = f + d
      BY <3>1
    <3> HIDE DEF c, f, g
    <3>5. y2[q[j]] + z2[j] = c
      BY <1>1, <3>2, <3>3, <3>4
    <3>6. QED
      BY <3>1, <3>5 DEF Tight, c
  <2>4. CASE j \notin seen
    <3>1. z2[j] = z[j]
      BY <1>5, <2>4
    <3>2. CASE q[j] = 0
      BY <2>1, <3>1, <3>2
    <3>3. CASE q[j] # 0
      <4>1. \A k \in seen : q[k] # q[j]
        BY <1>3, <2>2, <2>4, <3>3 DEF Setting
      <4>2. q[j] \in 1 .. N
        BY <2>2, <3>3
      <4>3. y2[q[j]] = y[q[j]]
        BY <4>1, <4>2 DEF Moved
      <4>4. QED
        BY <2>1, <3>1, <3>3, <4>3 DEF Tight
    <3>4. QED
      BY <3>2, <3>3
  <2>5. QED
    BY <2>3, <2>4
<1>9. \A i \in 1 .. N : y2[i] \in 0 .. B
  <2>1. ASSUME NEW i \in 1 .. N PROVE y2[i] \in 0 .. B
    <3>1. e \in 1 .. N /\ e \in free /\ q[e] = 0
      <4>1. e \in 1 .. N /\ q[e] = 0
        BY DEF Setting
      <4>2. e \in free
        BY SettingFree
      <4>3. QED
        BY <4>1, <4>2
    <3>2. z2[e] = 0
      BY <1>8, <3>1
    <3>3. y2[i] + 0 <= C[i][e] /\ C[i][e] \in 0 .. B
      BY <1>2, <1>7, <3>1, <3>2
    <3>4. y[i] \in 0 .. B /\ (y2[i] = y[i] \/ y2[i] = y[i] + d)
      BY <1>2, <1>6, <3>1
    <3> DEFINE c == C[i][e]
               f == y[i]
               g == y2[i]
    <3>5. g + 0 <= c /\ c \in 0 .. B /\ f \in 0 .. B /\ (g = f \/ g = f + d)
      BY <3>3, <3>4
    <3> HIDE DEF c, f, g
    <3>6. g \in 0 .. B
      BY <1>1, <3>5
    <3>7. QED
      BY <3>6 DEF g
  <2>2. QED
    BY <2>1
<1>10. \A j \in 1 .. N : z2[j] \in -B .. 0
  <2>1. ASSUME NEW j \in 1 .. N PROVE z2[j] \in -B .. 0
    <3>1. z[j] \in -B .. 0
      BY <1>2
    <3>2. CASE j \notin seen
      BY <1>5, <3>1, <3>2
    <3>3. CASE j \in seen
      <4>1. q[j] \in 1 .. N /\ q[j] # 0
        BY <1>3, <3>3
      <4> DEFINE c == C[q[j]][j]
                 f == y2[q[j]]
                 g == z[j]
                 t == z2[j]
      <4>2. f + t = c
        BY <1>8, <4>1 DEF Tight
      <4>3. c \in 0 .. B /\ f \in 0 .. B /\ g \in -B .. 0 /\ t = g - d
        BY <1>2, <1>5, <1>9, <3>1, <3>3, <4>1
      <4> HIDE DEF c, f, g, t
      <4>4. t \in -B .. 0
        BY <1>1, <4>2, <4>3
      <4>5. QED
        BY <4>4 DEF t
    <3>4. QED
      BY <3>2, <3>3
  <2>2. QED
    BY <2>1
<1>11. Edges(C, y2, z2, q, 1 .. N)
  BY <1>8 DEF Edges
<1>12. Potentials(C, N, B, y2, z2)
  BY <1>7, <1>9, <1>10 DEF Potentials, Moved
<1>13. QED
  BY <1>11, <1>12

\* The pass goes on from a column that is new to it, or has found a free one.
LEMMA PassGoesOn ==
  ASSUME NEW N, NEW B, NEW C, NEW h, NEW y, NEW z, NEW q, NEW w, NEW m, NEW s, NEW a, NEW seen, NEW free, NEW e,
         Setting(N, B, C, h, y, z, q, w, m, s, a, seen, free, e),
         NEW least, NEW w2, Compared(C, y, z, q, w, m, a, free, least, w2),
         Closest(C, y, z, q, w2, least, seen, free), NEW b \in free, NEW d \in Int, least[b] = d,
         \A j \in free : least[j] \in Int,
         NEW y2, NEW z2, NEW m2, Moved(N, y, z, q, seen, free, least, d, y2, z2, m2)
  PROVE  Passing(C, N, h, y2, z2, q, w2, m2, seen, b)
<1>1. /\ \A k \in seen : k \in 0 .. N /\ q[k] \in 1 .. N
      /\ \A j \in free : j \in 1 .. N /\ j \in 0 .. N /\ j \notin seen
      /\ a \in seen /\ 0 \in seen /\ N \in Nat /\ DOMAIN w = 0 .. N
  BY SettingFree
<1>2. /\ seen = s \cup {a} /\ free = (1 .. N) \ seen
      /\ C \in [1 .. N -> [1 .. N -> 0 .. B]] /\ Potentials(C, N, B, y, z) /\ B \in Nat
      /\ \A k \in (s \cup {a}) \ {0} : w[k] \in s /\ Tight(C, y, z, q[w[k]], k)
  BY DEF Setting, Passing
<1>3. seen \subseteq 0 .. N /\ b \in 0 .. N /\ b \notin seen /\ 0 \in seen \cup {b} /\ DOMAIN m2 = 0 .. N
  BY <1>1 DEF Moved
<1>4. \A k \in seen : q[k] # 0
  BY <1>1
<1>5. \A k \in seen : w2[k] = w[k]
  BY <1>1 DEF Compared
<1>6. /\ \A k \in seen : y2[q[k]] = y[q[k]] + d
      /\ \A j \in 1 .. N : z2[j] = IF j \in seen THEN z[j] - d ELSE z[j]
      /\ \A j \in free : m2[j] = least[j] - d
  BY DEF Moved
<1>7. \A k \in seen, j \in 1 .. N :
        C[q[k]][j] \in Int /\ y[q[k]] \in Int /\ z[j] \in Int
  <2>1. ASSUME NEW i \in 1 .. N, NEW j \in 1 .. N
        PROVE  C[i][j] \in 0 .. B /\ y[i] \in 0 .. B /\ z[j] \in -B .. 0
    BY <1>1, <1>2, SlackBounds
  <2>2. \A i, j \in 1 .. N : C[i][j] \in Int /\ y[i] \in Int /\ z[j] \in Int
    BY <1>2, <2>1
  <2>3. QED
    BY <1>1, <2>2
<1>8. \A k \in seen, j \in free : Slack(C, y2, z2, q[k], j) = Slack(C, y, z, q[k], j) - d
  <2>1. ASSUME NEW k \in seen, NEW j \in free
        PROVE  Slack(C, y2, z2, q[k], j) = Slack(C, y, z, q[k], j) - d
    <3> DEFINE c == C[q[k]][j]
               f == y[q[k]]
               g == z[j]
    <3>1. c \in Int /\ f \in Int /\ g \in Int /\ y2[q[k]] = f + d /\ z2[j] = g
      BY <1>1, <1>6, <1>7
    <3> HIDE DEF c, f, g
    <3>2. c - (f + d) - g = (c - f - g) - d
      BY <3>1
    <3>3. QED
      BY <3>1, <3>2 DEF Slack, c, f, g
  <2>2. QED
    BY <2>1
<1>9. ASSUME NEW k \in (seen \cup {b}) \ {0}
      PROVE  w2[k] \in seen /\ Tight(C, y2, z2, q[w2[k]], k)
  <2>1. CASE k \in seen
    <3>1. w2[k] = w[k] /\ w[k] \in seen /\ k \in 1 .. N /\ Tight(C, y, z, q[w[k]], k)
      <4>1. k \in (s \cup {a}) \ {0} /\ k \in 0 .. N
        BY <1>1, <1>2, <2>1
      <4>2. k \in 1 .. N
        BY <1>1, <4>1
      <4>3. QED
        BY <1>2, <1>5, <2>1, <4>1, <4>2
    <3> DEFINE i == q[w[k]]
               c == C[i][k]
               f == y[i]
               g == z[k]
    <3>2. f + g = c /\ y2[i] = f + d /\ z2[k] = g - d
      BY <1>6, <2>1, <3>1 DEF Tight
    <3>3. f \in Int /\ g \in Int
      BY <1>7, <3>1
    <3> HIDE DEF i, c, f, g
    <3>4. y2[i] + z2[k] = c
      BY <3>2, <3>3
    <3>5. QED
      BY <3>1, <3>4 DEF Tight, i, c
  <2>2. CASE k = b
    <3>1. w2[b] \in seen /\ least[b] = Slack(C, y, z, q[w2[b]], b)
      BY DEF Closest
    <3>2. Slack(C, y2, z2, q[w2[b]], b) = 0
      BY <1>8, <3>1
    <3> DEFINE i == q[w2[b]]
               c == C[i][b]
               f == y[i]
               g == z[b]
    <3>3. c - y2[i] - z2[b] = 0 /\ c \in Int /\ f \in Int /\ g \in Int /\ y2[i] = f + d /\ z2[b] = g
      BY <1>1, <1>6, <1>7, <3>1, <3>2 DEF Slack
    <3> HIDE DEF i, c, f, g
    <3>4. y2[i] + z2[b] = c
      BY <3>3
    <3>5. QED
      BY <2>2, <3>1, <3>4 DEF Tight, i, c
  <2>3. QED
    BY <2>1, <2>2
<1>10. ASSUME NEW j \in (1 .. N) \ (seen \cup {b})
       PROVE  /\ w2[j] \in seen /\ m2[j] = Slack(C, y2, z2, q[w2[j]], j)
              /\ \A k \in seen : m2[j] <= Slack(C, y2, z2, q[k], j)
  <2>1. j \in free
    BY <1>2
  <2>2. w2[j] \in seen /\ least[j] = Slack(C, y, z, q[w2[j]], j)
    BY <2>1 DEF Closest
  <2>3. m2[j] = Slack(C, y2, z2, q[w2[j]], j)
    BY <1>6, <1>8, <2>1, <2>2
  <2>4. ASSUME NEW k \in seen PROVE m2[j] <= Slack(C, y2, z2, q[k], j)
    <3> DEFINE t == Slack(C, y, z, q[k], j)
               l == least[j]
    <3>1. l <= t /\ m2[j] = l - d /\ Slack(C, y2, z2, q[k], j) = t - d /\ l \in Int
      BY <1>6, <1>8, <2>1 DEF Closest
    <3>2. t \in Int
      <4>1. t \in 0 .. 2 * B
        BY <2>1, SettingFree
      <4>2. QED
        BY <1>2, <4>1
    <3> HIDE DEF t, l
    <3>3. QED
      BY <3>1, <3>2
  <2>5. QED
    BY <2>2, <2>3, <2>4
<1>11. Ranked(N, w2, seen, b)
  <2>1. PICK f \in [0 .. N -> Nat], r \in Nat :
          \A j \in 0 .. N : IF j \in s \cup {a} THEN f[j] < r /\ (j # 0 => f[w[j]] < f[j]) ELSE f[j] = r
    BY DEF Setting, Passing, Ranked
  <2> DEFINE f2 == [j \in 0 .. N |-> IF j \in seen \/ j = b THEN f[j] ELSE r + 1]
  <2>2. f2 \in [0 .. N -> Nat] /\ r + 1 \in Nat
    OBVIOUS
  <2>3. /\ \A j \in 0 .. N : f2[j] = IF j \in seen \/ j = b THEN f[j] ELSE r + 1
        /\ \A j \in 0 .. N : f[j] \in Nat
    OBVIOUS
  <2> HIDE DEF f2
  <2>4. ASSUME NEW j \in 0 .. N
        PROVE  IF j \in seen \cup {b} THEN f2[j] < r + 1 /\ (j # 0 => f2[w2[j]] < f2[j]) ELSE f2[j] = r + 1
    <3>1. CASE j \in seen
      <4>1. f[j] < r /\ (j # 0 => f[w[j]] < f[j])
        BY <1>2, <2>1, <3>1
      <4>2. f2[j] = f[j] /\ w2[j] = w[j]
        BY <1>5, <2>3, <3>1
      <4>3. j # 0 => f2[w2[j]] = f[w[j]]
        <5>1. j # 0 => w[j] \in seen /\ w[j] \in 0 .. N
          BY <1>1, <1>2, <3>1
        <5>2. QED
          BY <2>3, <4>2, <5>1
      <4>4. f[j] \in Nat
        BY <2>3
      <4>5. f[j] < r + 1
        BY <4>1, <4>4
      <4>6. QED
        BY <3>1, <4>1, <4>2, <4>3, <4>5
    <3>2. CASE j = b
      <4>1. f[b] = r /\ f2[b] = r
        BY <1>1, <1>2, <2>1, <2>3
      <4>2. w2[b] \in seen /\ w2[b] \in 0 .. N
        BY <1>1 DEF Closest
      <4>3. f2[w2[b]] = f[w2[b]] /\ f[w2[b]] < r
        BY <1>2, <2>1, <2>3, <4>2
      <4>4. r < r + 1
        OBVIOUS
      <4>5. QED
        BY <3>2, <4>1, <4>3, <4>4
    <3>3. CASE j \notin seen \cup {b}
      BY <2>3, <3>3
    <3>4. QED
      BY <3>1, <3>2, <3>3
  <2>5. QED
    BY <2>2, <2>4 DEF Ranked
<1>12. QED
  BY <1>1, <1>3, <1>4, <1>9, <1>10, <1>11 DEF Passing

\* At a free column, the way back lies in what the passes have met.
LEMMA PassEnds ==
  ASSUME NEW N, NEW C, NEW h, NEW y, NEW z, NEW q, NEW w, NEW m, NEW s, NEW a,
         Passing(C, N, h, y, z, q, w, m, s, a), N \in Nat
  PROVE  Walk(C, N, y, z, q, w, a)
<1>1. PICK f \in [0 .. N -> Nat], r \in Nat :
        \A j \in 0 .. N : IF j \in s \cup {a} THEN f[j] < r /\ (j # 0 => f[w[j]] < f[j]) ELSE f[j] = r
  BY DEF Passing, Ranked
<1>2. /\ a \in 0 .. N /\ \A k \in s : q[k] # 0
      /\ \A k \in (s \cup {a}) \ {0} : w[k] \in s /\ Tight(C, y, z, q[w[k]], k)
  BY DEF Passing
<1>3. \A j \in 0 .. N : f[j] <= f[a] => j \in s \cup {a}
  <2>1. f[a] < r /\ f[a] \in Nat
    BY <1>1, <1>2
  <2>2. QED
    BY <1>1, <2>1
<1>4. \A j \in 0 .. N : f[j] <= f[a] /\ j # a => q[j] # 0
  BY <1>2, <1>3
<1>5. \A j \in 1 .. N : j \in 0 .. N /\ j # 0
  OBVIOUS
<1>6. \A j \in 1 .. N : f[j] <= f[a] => f[w[j]] < f[j] /\ Tight(C, y, z, q[w[j]], j)
  BY <1>1, <1>2, <1>3, <1>5
<1>7. QED
  BY <1>4, <1>6 DEF Walk

LEMMA LessByLess ==
  ASSUME NEW x \in Nat, NEW t \in Nat, NEW g \in Nat, x <= t, t < g
  PROVE  x <= g /\ x # g
OBVIOUS

\* One column changes hands.
Turning(N, C, y, z, q, w, a, q2) ==
  /\ N \in Nat /\ q \in [0 .. N -> 0 .. N] /\ w \in [0 .. N -> 0 .. N] /\ a \in 1 .. N
  /\ Walk(C, N, y, z, q, w, a) /\ Edges(C, y, z, q, (1 .. N) \ {a})
  /\ q2 = [q EXCEPT ![a] = q[w[a]]]

\* It is tight with its new row.
LEMMA WalkMoves ==
  ASSUME NEW N, NEW C, NEW y, NEW z, NEW q, NEW w, NEW a, NEW q2, Turning(N, C, y, z, q, w, a, q2)
  PROVE  /\ Walk(C, N, y, z, q2, w, w[a]) /\ w[a] # a /\ q2[0] = q[0]
         /\ Edges(C, y, z, q2, 1 .. N)
<1>0. /\ N \in Nat /\ q \in [0 .. N -> 0 .. N] /\ w \in [0 .. N -> 0 .. N] /\ a \in 1 .. N
      /\ Walk(C, N, y, z, q, w, a) /\ Edges(C, y, z, q, (1 .. N) \ {a})
      /\ q2 = [q EXCEPT ![a] = q[w[a]]]
  BY DEF Turning
<1>1. PICK f \in [0 .. N -> Nat] :
        /\ \A j \in 0 .. N : f[j] <= f[a] /\ j # a => q[j] # 0
        /\ \A j \in 1 .. N : f[j] <= f[a] => f[w[j]] < f[j] /\ Tight(C, y, z, q[w[j]], j)
  BY <1>0 DEF Walk
<1> DEFINE b == w[a]
<1>2. a \in 0 .. N /\ a # 0 /\ b \in 0 .. N /\ \A j \in 0 .. N : f[j] \in Nat /\ w[j] \in 0 .. N
  <2>1. a \in 0 .. N /\ a # 0
    BY <1>0
  <2>2. \A j \in 0 .. N : f[j] \in Nat /\ w[j] \in 0 .. N
    BY <1>0
  <2>3. QED
    BY <2>1, <2>2
<1>3. f[b] < f[a] /\ Tight(C, y, z, q[b], a) /\ b # a
  <2>1. f[a] <= f[a] /\ f[a] \in Nat /\ f[b] \in Nat /\ a \in 1 .. N
    BY <1>0, <1>2
  <2>2. f[b] < f[a] /\ Tight(C, y, z, q[b], a)
    BY <1>1, <2>1
  <2>3. QED
    BY <2>1, <2>2
<1>4. q2[a] = q[b] /\ \A j \in 0 .. N : j # a => q2[j] = q[j]
  BY <1>0, <1>2
<1> HIDE DEF b
<1>5. ASSUME NEW j \in 0 .. N, f[j] <= f[b] PROVE f[j] <= f[a] /\ j # a
  <2>1. f[j] \in Nat /\ f[b] \in Nat /\ f[a] \in Nat /\ f[b] < f[a]
    BY <1>2, <1>3
  <2> DEFINE x == f[j]
             t == f[b]
             g == f[a]
  <2>2. x \in Nat /\ t \in Nat /\ g \in Nat /\ t < g /\ x <= t
    BY <1>5, <2>1
  <2> HIDE DEF x, t, g
  <2>3. x <= g /\ x # g
    BY <2>2, LessByLess
  <2>4. QED
    BY <2>3 DEF x, g
<1>6. \A j \in 0 .. N : f[j] <= f[b] /\ j # b => q2[j] # 0
  BY <1>1, <1>4, <1>5
<1>7. ASSUME NEW j \in 1 .. N, f[j] <= f[b]
      PROVE  f[w[j]] < f[j] /\ Tight(C, y, z, q2[w[j]], j)
  <2>1. j \in 0 .. N /\ f[j] <= f[a]
    <3>1. j \in 0 .. N
      BY <1>0
    <3>2. QED
      BY <1>5, <1>7, <3>1
  <2>2. f[w[j]] < f[j] /\ Tight(C, y, z, q[w[j]], j)
    BY <1>1, <2>1
  <2>3. w[j] \in 0 .. N /\ w[j] # a
    BY <1>2, <1>3, <1>7, <2>1, <2>2
  <2>4. QED
    BY <1>4, <2>2, <2>3
<1>8. Walk(C, N, y, z, q2, w, b)
  BY <1>6, <1>7 DEF Walk
<1>9. q[b] # 0
  <2>1. f[b] <= f[a]
    BY <1>2, <1>3
  <2>2. QED
    BY <1>1, <1>2, <1>3, <2>1
<1>10. ASSUME NEW j \in 1 .. N
       PROVE  IF q2[j] = 0 THEN z[j] = 0 ELSE Tight(C, y, z, q2[j], j)
  <2>1. CASE j = a
    BY <1>3, <1>4, <1>9, <2>1
  <2>2. CASE j # a
    <3>1. j \in 0 .. N
      BY <1>0
    <3>2. q2[j] = q[j]
      BY <1>4, <2>2, <3>1
    <3>3. QED
      BY <1>0, <2>2, <3>2 DEF Edges
  <2>3. QED
    BY <2>1, <2>2
<1>11. q2[0] = q[0]
  <2>1. 0 \in 0 .. N
    BY <1>0
  <2>2. QED
    BY <1>2, <1>4, <2>1
<1>12. Edges(C, y, z, q2, 1 .. N)
  BY <1>10 DEF Edges
<1>13. QED
  BY <1>3, <1>8, <1>11, <1>12 DEF b

LEMMA QuotientAtMost ==
  ASSUME NEW n \in Nat, NEW d \in Nat \ {0}, NEW k \in Nat, n < (k + 1) * d
  PROVE  n \div d \in 0 .. k
<1> DEFINE x == n \div d
<1>1. x \in Nat /\ x * d <= n
  BY Quotient
<1> HIDE DEF x
<1>2. SUFFICES ASSUME k + 1 <= x PROVE FALSE
  BY <1>1 DEF x
<1>3. (k + 1) * d <= x * d
  BY <1>1, <1>2, MoreTimes
<1>4. (k + 1) * d \in Nat /\ x * d \in Nat
  BY <1>1
<1>5. QED
  BY <1>1, <1>3, <1>4

LEMMA CeilingIs ==
  ASSUME NEW n \in Nat, NEW d \in Nat \ {0}
  PROVE  Ceiling(n, d) \in Nat /\ \A k \in Nat : n <= k * d => Ceiling(n, d) \in 0 .. k
<1> DEFINE x == n + d - 1
<1>1. x \in Nat /\ Ceiling(n, d) = x \div d
  BY DEF Ceiling
<1>2. ASSUME NEW k \in Nat, n <= k * d PROVE x < (k + 1) * d
  <2>1. (k + 1) * d = k * d + d /\ k * d \in Nat
    OBVIOUS
  <2>2. QED
    BY <1>2, <2>1
<1> HIDE DEF x
<1>3. \A k \in Nat : n <= k * d => x \div d \in 0 .. k
  BY <1>1, <1>2, QuotientAtMost
<1>4. QED
  BY <1>1, <1>3, Quotient

\* The penalty is ten days at most.
LEMMA PenaltyAtMost ==
  ASSUME NEW full \in Nat \ {0}, NEW x \in Nat
  PROVE  LET short == 10 * Max({full - x, 0})
             exact == short \div full
         IN  (IF short % full = 0 /\ exact \in {3, 6, 7} THEN exact - 1 ELSE exact) \in 0 .. 10
<1> DEFINE gap == Max({full - x, 0})
           short == 10 * gap
           exact == short \div full
           even == short % full = 0
<1>1. gap \in 0 .. full
  <2>1. full - x \in Int /\ full - x <= full
    OBVIOUS
  <2>2. gap \in {full - x, 0} /\ gap >= 0
    BY <2>1, LargestOfTwo
  <2> HIDE DEF gap
  <2>3. QED
    BY <2>1, <2>2
<1> HIDE DEF gap
<1>2. short \in Nat /\ short < (10 + 1) * full
  BY <1>1
<1> HIDE DEF short
<1>3. exact \in 0 .. 10
  BY <1>2, QuotientAtMost
<1> HIDE DEF exact, even
<1>4. (IF even /\ exact \in {3, 6, 7} THEN exact - 1 ELSE exact) \in 0 .. 10
  BY <1>3
<1>5. QED
  BY <1>4 DEF gap, short, exact, even

LEMMA ProductAtMost ==
  ASSUME NEW n \in Nat, NEW b \in 0 .. 2 * n, NEW c \in 0 .. 10, NEW m \in {130, 135, 137}
  PROVE  (b + c) * m \in 0 .. 137 * (2 * n + 10)
<1>1. CASE m = 130
  BY <1>1
<1>2. CASE m = 135
  BY <1>2
<1>3. CASE m = 137
  BY <1>3
<1>4. QED
  BY <1>1, <1>2, <1>3

LEMMA SequenceIs ==
  ASSUME NEW S, NEW s \in Seq(S)
  PROVE  Len(s) \in Nat /\ DOMAIN s = 1 .. Len(s) /\ \A i \in 1 .. Len(s) : s[i] \in S
OBVIOUS

LEMMA ProductNat ==
  ASSUME NEW n \in Nat, NEW k \in Nat
  PROVE  n * k \in Nat
OBVIOUS

\* The qualifier bounds the days (internal/algo/hungarian.go:69).
LEMMA DearestIs ==
  ASSUME Question, Exact, NEW i \in 1 .. Len(profiles), NEW j \in 1 .. Len(tiers),
         ComputeCij(profiles[i], tiers[j]) # Forbidden
  PROVE  ComputeCij(profiles[i], tiers[j]) \in 0 .. Dearest
<1> DEFINE talent == profiles[i]
           tier == tiers[j]
           min == Ceiling(tier, cpa.max)
           full == tier \div cpa.target
           base == Ceiling(min, talent.pdc)
<1>1. /\ talent.pdc \in Nat /\ talent.audience \in {"same", "other", "unknown"} /\ tier \in Nat
      /\ cpa.max \in Nat \ {0} /\ cpa.target \in Nat \ {0} /\ CycleLength \in Nat
  <2>1. talent \in [pdc : Nat, max_tier : Nat, audience : {"same", "other", "unknown"}]
    <3> DEFINE S == [pdc : Nat, max_tier : Nat, audience : {"same", "other", "unknown"}]
    <3>1. profiles \in Seq(S)
      BY DEF Question
    <3> HIDE DEF S
    <3>2. talent \in S
      BY <3>1, SequenceIs
    <3>3. QED
      BY <3>2 DEF S
  <2>2. tier \in Nat
    <3>1. tiers \in Seq(Nat)
      BY DEF Question
    <3>2. QED
      BY <3>1, SequenceIs
  <2>3. QED
    BY <2>1, <2>2, SolverAssumption DEF Question
<1>2. /\ QualifyTalentForSlot(talent, tier) /\ TierBoundsFor(tier).max > 0
      /\ ComputeCij(talent, tier) = Near((BaseDays(talent, tier) + PenaltyDays(talent, tier)) * MatchAdjustment(talent))
  BY DEF ComputeCij
<1>3. TierBoundsFor(tier).min = min /\ TierBoundsFor(tier).max = full
  BY DEF TierBoundsFor
<1> HIDE DEF talent, tier
<1>4. BaseDays(talent, tier) = base
  BY <1>3 DEF BaseDays
<1>5. min \in Nat /\ full \in Nat
  BY <1>1, CeilingIs, Quotient
<1>6. full > 0 /\ talent.pdc > 0 /\ 10 * talent.pdc * CycleLength >= 8 * min
  BY <1>2, <1>3 DEF QualifyTalentForSlot
<1> HIDE DEF min, full
<1>7. base \in 0 .. 2 * CycleLength
  <2> DEFINE d == talent.pdc
             k == d * CycleLength
  <2>1. d \in Nat \ {0} /\ k \in Nat
    <3>1. d \in Nat /\ CycleLength \in Nat
      BY <1>1
    <3>2. d > 0
      BY <1>6
    <3>3. k \in Nat
      BY <3>1, ProductNat
    <3> HIDE DEF d, k
    <3>4. QED
      BY <3>1, <3>2, <3>3
  <2>2. 10 * d * CycleLength = 10 * k /\ (2 * CycleLength) * d = 2 * k
    BY <1>1, <2>1
  <2>3. 10 * k >= 8 * min
    BY <1>6, <2>2
  <2> HIDE DEF k
  <2>4. min <= 2 * k
    BY <1>5, <2>1, <2>3
  <2>5. 2 * CycleLength \in Nat /\ min <= (2 * CycleLength) * d
    BY <1>1, <2>2, <2>4
  <2>6. QED
    BY <1>5, <2>1, <2>5, CeilingIs
<1>8. PenaltyDays(talent, tier) \in 0 .. 10
  <2>1. full \in Nat \ {0} /\ base * talent.pdc \in Nat
    <3>1. full \in Nat \ {0}
      BY <1>5, <1>6
    <3>2. base \in Nat
      BY <1>1, <1>7
    <3> HIDE DEF base
    <3>3. base * talent.pdc \in Nat
      BY <1>1, <3>2, ProductNat
    <3>4. QED
      BY <3>1, <3>3
  <2> HIDE DEF base
  <2>2. QED
    BY <1>3, <1>4, <2>1, PenaltyAtMost DEF PenaltyDays
<1>9. MatchAdjustment(talent) \in {130, 135, 137}
  BY <1>1 DEF MatchAdjustment
<1> DEFINE cost == (BaseDays(talent, tier) + PenaltyDays(talent, tier)) * MatchAdjustment(talent)
<1>10. cost \in 0 .. Dearest
  <2> DEFINE b == BaseDays(talent, tier)
             c == PenaltyDays(talent, tier)
             a == MatchAdjustment(talent)
  <2>1. CycleLength \in Nat /\ b \in 0 .. 2 * CycleLength /\ c \in 0 .. 10 /\ a \in {130, 135, 137}
    BY <1>1, <1>4, <1>7, <1>8, <1>9
  <2> HIDE DEF a, b, c
  <2>2. (b + c) * a \in 0 .. 137 * (2 * CycleLength + 10)
    BY <2>1, ProductAtMost
  <2>3. QED
    BY <2>2 DEF a, b, c, Dearest
<1>11. Near(cost) = cost
  <2>1. Dearest \in Nat /\ 4 * Dearest < Precision /\ Precision \in Nat
    BY <1>1, HalfIs DEF Dearest, Exact
  <2> HIDE DEF cost
  <2>2. cost \in Int /\ -Precision < cost /\ cost < Precision
    BY <1>10, <2>1
  <2>3. QED
    BY <2>2, NearExact
<1>12. QED
  BY <1>2, <1>10, <1>11 DEF talent, tier

Costs == [i \in 1 .. Size |-> [j \in 1 .. Size |-> Cost(i, j)]]

LEMMA CostsAre ==
  ASSUME Question, Exact, EverybodyFits
  PROVE  /\ Costs \in [1 .. Size -> [1 .. Size -> 0 .. Dearest]]
         /\ Size = Len(profiles) /\ Size = Len(tiers) /\ Size \in Nat
         /\ DOMAIN profiles = 1 .. Size /\ DOMAIN tiers = 1 .. Size
<1>1. Size = Len(profiles) /\ Size = Len(tiers) /\ Size \in Nat
  <2> DEFINE n == Len(tiers)
  <2>1. n \in Int /\ n \in Nat /\ Len(profiles) = n
    BY SizeIs DEF EverybodyFits
  <2>2. Size = Max({n, n})
    BY <2>1 DEF Size
  <2> HIDE DEF n
  <2>3. Size = n
    BY <2>1, <2>2, LargestOfTwo
  <2>4. QED
    BY <2>1, <2>3 DEF n
<1>2. DOMAIN profiles = 1 .. Size /\ DOMAIN tiers = 1 .. Size
  <2> DEFINE S == [pdc : Nat, max_tier : Nat, audience : {"same", "other", "unknown"}]
  <2>1. profiles \in Seq(S) /\ tiers \in Seq(Nat)
    BY DEF Question
  <2> HIDE DEF S
  <2>2. QED
    BY <1>1, <2>1, SequenceIs
<1>3. ASSUME NEW i \in 1 .. Size, NEW j \in 1 .. Size PROVE Cost(i, j) \in 0 .. Dearest
  <2>1. Cost(i, j) < Forbidden
    <3>1. <<i, j>> \in AllPairs
      BY <1>2 DEF AllPairs
    <3>2. QED
      BY <3>1 DEF EverybodyFits
  <2>2. Cost(i, j) = ComputeCij(profiles[i], tiers[j])
    BY <1>1 DEF Cost
  <2>3. ~(Forbidden < Forbidden)
    BY HalfIs
  <2>4. QED
    BY <1>1, <2>1, <2>2, <2>3, DearestIs
<1>4. QED
  BY <1>1, <1>2, <1>3 DEF Costs

PriceInv ==
  /\ Potentials(Costs, Size, Dearest, u, v)
  /\ loop \in {"rows", "scan"} => Edges(Costs, u, v, p, 1 .. Size)
  /\ loop = "scan" => Passing(Costs, Size, Half, u, v, p, way, minVal, used, j0) /\ p[j0] # 0
  /\ loop = "augment" => /\ Edges(Costs, u, v, p, (1 .. Size) \ {j0})
                         /\ Walk(Costs, Size, u, v, p, way, j0) /\ p[0] # 0

LEMMA InputStays ==
  ASSUME UNCHANGED input
  PROVE  /\ Size' = Size /\ Costs' = Costs /\ Question' = Question /\ EverybodyFits' = EverybodyFits
<1>1. Size' = Size
  BY SolverStays
<1>2. \A i, j \in 1 .. Size : Cost(i, j)' = Cost(i, j)
  BY DEF input, Cost, ComputeCij, QualifyTalentForSlot, Mobile, TierBoundsFor, BaseDays, PenaltyDays,
         MatchAdjustment
<1>3. Costs' = Costs
  BY <1>1, <1>2 DEF Costs
<1>4. Question' = Question
  BY DEF input, Question
<1>5. AllPairs' = AllPairs
  BY DEF input, AllPairs
<1>6. \A x \in AllPairs : Cost(x[1], x[2])' = Cost(x[1], x[2])
  BY DEF input, Cost, ComputeCij, QualifyTalentForSlot, Mobile, TierBoundsFor, BaseDays, PenaltyDays,
         MatchAdjustment
<1>7. EverybodyFits' = EverybodyFits
  BY <1>5, <1>6 DEF input, EverybodyFits
<1>8. QED
  BY <1>1, <1>3, <1>4, <1>7

LEMMA InitPrice ==
  ASSUME Question, Exact, EverybodyFits, SolverInit
  PROVE  PriceInv
<1>1. Costs \in [1 .. Size -> [1 .. Size -> 0 .. Dearest]] /\ Size \in Nat /\ Dearest \in Nat
  BY CostsAre, SolverAssumption DEF Dearest
<1>2. /\ u = [j \in 0 .. Size |-> 0] /\ v = [j \in 0 .. Size |-> 0] /\ p = [j \in 0 .. Size |-> 0]
      /\ loop = "rows"
  BY DEF SolverInit, Everywhere
<1>3. \A j \in 1 .. Size : u[j] = 0 /\ v[j] = 0 /\ p[j] = 0
  BY <1>1, <1>2
<1> DEFINE N == Size
           C == Costs
           B == Dearest
<1>4. C \in [1 .. N -> [1 .. N -> 0 .. B]] /\ N \in Nat /\ B \in Nat /\ \A j \in 1 .. N : u[j] = 0 /\ v[j] = 0
  BY <1>1, <1>3
<1> HIDE DEF N, C, B
<1>5. \A i, j \in 1 .. N : C[i][j] \in 0 .. B
  BY <1>4
<1>6. \A i, j \in 1 .. N : u[i] + v[j] <= C[i][j] /\ u[i] \in 0 .. B /\ v[j] \in -B .. 0
  BY <1>4, <1>5
<1>7. DOMAIN u = 0 .. N /\ DOMAIN v = 0 .. N
  BY <1>2 DEF N
<1>8. Potentials(C, N, B, u, v)
  BY <1>6, <1>7 DEF Potentials
<1>9. Edges(C, u, v, p, 1 .. Size)
  BY <1>3 DEF Edges
<1>10. QED
  BY <1>2, <1>8, <1>9 DEF PriceInv, N, C, B

\* A row starts with nothing met.
LEMMA RowStarts ==
  ASSUME NEW N \in Nat, NEW C, NEW h, NEW y, NEW z, NEW q, NEW w
  PROVE  Passing(C, N, h, y, z, q, w, [j \in 0 .. N |-> h], {}, 0)
<1> DEFINE f == [j \in 0 .. N |-> IF j = 0 THEN 0 ELSE 1]
<1>1. f \in [0 .. N -> Nat] /\ 1 \in Nat /\ \A j \in 0 .. N : f[j] = IF j = 0 THEN 0 ELSE 1
  OBVIOUS
<1> HIDE DEF f
<1>2. \A j \in 0 .. N : IF j \in {} \cup {0} THEN f[j] < 1 /\ (j # 0 => f[w[j]] < f[j]) ELSE f[j] = 1
  BY <1>1
<1>3. Ranked(N, w, {}, 0)
  BY <1>1, <1>2 DEF Ranked
<1>4. 0 \in 0 .. N /\ (({} \cup {0}) \ {0}) = {} /\ \A j \in 1 .. N : j \in 0 .. N
  OBVIOUS
<1>5. QED
  BY <1>3, <1>4 DEF Passing

LEMMA PriceNextRow ==
  ASSUME Question, Exact, EverybodyFits, MatchInv, PriceInv, NextRow
  PROVE  PriceInv'
<1>1. /\ Size' = Size /\ Costs' = Costs /\ u' = u /\ v' = v /\ way' = way /\ loop = "rows" /\ loop' = "scan"
      /\ j0' = 0 /\ p' = [p EXCEPT ![0] = row + 1] /\ used' = {} /\ minVal' = [j \in 0 .. Size |-> Half]
  BY InputStays DEF NextRow, Everywhere
<1>2. Size \in Nat /\ row \in Nat /\ p \in [0 .. Size -> 0 .. Size]
  <2>1. Size \in Nat /\ row \in 0 .. Size /\ p \in [0 .. Size -> 0 .. Size]
    BY DEF MatchInv
  <2>2. QED
    BY <2>1
<1>3. Potentials(Costs, Size, Dearest, u, v) /\ Edges(Costs, u, v, p, 1 .. Size)
  BY <1>1 DEF PriceInv
<1>4. (\A j \in 1 .. Size : p'[j] = p[j]) /\ p'[0] # 0
  <2>1. 0 \in 0 .. Size /\ row + 1 # 0 /\ \A j \in 1 .. Size : j \in 0 .. Size /\ j # 0
    BY <1>2
  <2>2. QED
    BY <1>1, <1>2, <2>1
<1>5. Edges(Costs, u, v, p', 1 .. Size)
  BY <1>3, <1>4 DEF Edges
<1>6. Passing(Costs, Size, Half, u, v, p', way, [j \in 0 .. Size |-> Half], {}, 0)
  BY <1>2, RowStarts
<1>7. QED
  BY <1>1, <1>3, <1>4, <1>5, <1>6 DEF PriceInv

LEMMA PriceAugment ==
  ASSUME Question, Exact, EverybodyFits, MatchInv, PriceInv, Augment
  PROVE  PriceInv'
<1>1. /\ Size' = Size /\ Costs' = Costs /\ u' = u /\ v' = v /\ way' = way /\ loop = "augment"
      /\ j0' = way[j0] /\ p' = [p EXCEPT ![j0] = p[way[j0]]]
      /\ loop' = IF way[j0] = 0 THEN "rows" ELSE "augment"
  BY InputStays DEF Augment
<1>2. /\ Size \in Nat /\ p \in [0 .. Size -> 0 .. Size] /\ way \in [0 .. Size -> 0 .. Size]
      /\ j0 \in 1 .. Size
  <2>1. j0 \in 0 .. Size /\ j0 # 0 /\ Size \in Nat
    BY <1>1 DEF MatchInv
  <2>2. j0 \in 1 .. Size
    BY <2>1
  <2>3. QED
    BY <2>2 DEF MatchInv
<1>3. /\ Potentials(Costs, Size, Dearest, u, v) /\ Edges(Costs, u, v, p, (1 .. Size) \ {j0})
      /\ Walk(Costs, Size, u, v, p, way, j0) /\ p[0] # 0
  BY <1>1 DEF PriceInv
<1>4. /\ Walk(Costs, Size, u, v, p', way, way[j0]) /\ p'[0] = p[0]
      /\ Edges(Costs, u, v, p', 1 .. Size)
  <2> DEFINE N == Size
             C == Costs
             a == j0
             q == p'
  <2>1. Turning(N, C, u, v, p, way, a, q)
    BY <1>1, <1>2, <1>3 DEF Turning
  <2> HIDE DEF N, C, a, q
  <2>2. Walk(C, N, u, v, q, way, way[a]) /\ q[0] = p[0] /\ Edges(C, u, v, q, 1 .. N)
    BY <2>1, WalkMoves
  <2>3. QED
    BY <2>2 DEF N, C, a, q
<1>5. Edges(Costs, u, v, p', (1 .. Size) \ {way[j0]})
  BY <1>4 DEF Edges
<1>6. QED
  BY <1>1, <1>3, <1>4, <1>5 DEF PriceInv

LEMMA PriceScan ==
  ASSUME Question, Exact, EverybodyFits, MatchInv, PriceInv, Scan
  PROVE  PriceInv'
<1> DEFINE N == Size
           C == Costs
           B == Dearest
<1>1. loop = "scan"
  BY Zenon DEF Scan
<1>2. /\ C \in [1 .. N -> [1 .. N -> 0 .. B]] /\ N \in Nat /\ B \in Nat /\ 4 * B < Precision
  BY CostsAre, SolverAssumption DEF Dearest, Exact
<1>3. /\ Potentials(C, N, B, u, v) /\ Edges(C, u, v, p, 1 .. N)
      /\ Passing(C, N, Half, u, v, p, way, minVal, used, j0) /\ p[j0] # 0
  BY <1>1 DEF PriceInv
<1>4. /\ row \in 1 .. N /\ p[0] = row /\ Coupled(p, 1 .. N, row - 1)
      /\ p \in [0 .. N -> 0 .. N] /\ way \in [0 .. N -> 0 .. N] /\ j0 \in 0 .. N
  <2>1. row \in 0 .. N /\ row # 0 /\ N \in Nat
    BY <1>1 DEF MatchInv
  <2>2. row \in 1 .. N
    BY <2>1
  <2>3. QED
    BY <1>1, <2>2 DEF MatchInv
<1> DEFINE i0 == p[j0]
           seen == used \cup {j0}
           free == (1 .. N) \ seen
           closer == {j \in free : Reduced(i0, j) < minVal[j]}
           least == [j \in DOMAIN minVal |-> IF j \in closer THEN Reduced(i0, j) ELSE minVal[j]]
           best == {j \in free : least[j] < Half /\ \A k \in free : least[j] <= least[k]}
           j1 == IF best = {} THEN 0 ELSE Min(best)
           delta == IF best = {} THEN Half ELSE least[j1]
           w2 == [j \in DOMAIN way |-> IF j \in closer THEN j0 ELSE way[j]]
           y2 == [i \in DOMAIN u |-> Near(u[i] + delta * Cardinality({j \in seen : p[j] = i}))]
           z2 == [j \in DOMAIN v |-> IF j \in seen THEN Near(v[j] - delta) ELSE v[j]]
           m2 == [j \in DOMAIN minVal |-> IF j \in seen THEN least[j] ELSE Near(least[j] - delta)]
<1>5. /\ way' = w2 /\ u' = y2 /\ v' = z2 /\ minVal' = m2 /\ used' = seen /\ j0' = j1
      /\ loop = "scan" /\ loop' = IF p[j1] = 0 THEN "augment" ELSE "scan"
      /\ p' = p /\ row' = row /\ Size' = N /\ Costs' = C
  BY InputStays, Zenon DEF Scan, PotentialsMoved
<1>6. PICK e \in 1 .. N : p[e] = 0
  BY <1>2, <1>4, FreeColumn
<1>7. ASSUME NEW j \in free PROVE Reduced(i0, j) = Slack(C, u, v, i0, j)
  <2>1. i0 \in 1 .. N /\ j \in 1 .. N
    <3>1. i0 \in 0 .. N /\ i0 # 0
      BY <1>3, <1>4
    <3>2. QED
      BY <3>1
  <2> DEFINE c == C[i0][j]
             f == u[i0]
             g == v[j]
  <2>2. c \in 0 .. B /\ f \in 0 .. B /\ g \in -B .. 0
    BY <1>2, <1>3, <2>1, SlackBounds
  <2>3. Cost(i0, j) = c
    BY <2>1 DEF Costs
  <2> HIDE DEF c, f, g, i0, N, B
  <2>4. /\ c - f \in Int /\ -Precision < c - f /\ c - f < Precision
        /\ c - f - g \in Int /\ -Precision < c - f - g /\ c - f - g < Precision
    BY <1>2, <2>2, HalfIs
  <2>5. Near(c - f) = c - f /\ Near(c - f - g) = c - f - g
    BY <2>4, NearExact
  <2>6. Reduced(i0, j) = Near(Near(c - f) - g)
    BY <2>3 DEF Reduced, f, g
  <2>7. QED
    BY <2>5, <2>6 DEF Slack, c, f, g
<1> HIDE DEF N, C, B
<1>8. Compared(C, u, v, p, way, minVal, j0, free, least, w2)
  <2>1. closer = {j \in free : Slack(C, u, v, i0, j) < minVal[j]}
    BY <1>7
  <2>2. \A j \in closer : j \in free
    OBVIOUS
  <2> HIDE DEF free, closer
  <2>3. least = [j \in DOMAIN minVal |-> IF j \in closer THEN Slack(C, u, v, i0, j) ELSE minVal[j]]
    BY <1>7, <2>2
  <2>4. QED
    BY <2>1, <2>3 DEF Compared
<1>9. Setting(N, B, C, Half, u, v, p, way, minVal, used, j0, seen, free, e)
  <2>1. \A j, k \in 0 .. N : p[j] = p[k] /\ p[j] # 0 => j = k
    <3>1. \A j \in 1 .. N : p[j] \in 0 .. (row - 1)
      BY <1>4 DEF Coupled
    <3>2. \A j \in 1 .. N : p[j] # row
      BY <1>4, <3>1
    <3>3. \A j \in 0 .. N : j = 0 \/ j \in 1 .. N
      OBVIOUS
    <3>4. \A j, k \in 1 .. N : p[j] = p[k] /\ p[j] # 0 => j = k
      BY <1>4 DEF Coupled
    <3>5. QED
      BY <1>4, <3>2, <3>3, <3>4
  <2>2. Half \in Int /\ 2 * B < Half
    BY <1>2, HalfIs
  <2>3. QED
    BY <1>2, <1>3, <1>4, <1>6, <2>1, <2>2 DEF Setting
<1> HIDE DEF seen, free, least, w2
<1>10. /\ best # {} /\ Min(best) \in free /\ least[Min(best)] \in 0 .. 2 * B
       /\ \A j \in free : least[Min(best)] <= least[j]
       /\ Closest(C, u, v, p, w2, least, seen, free)
  <2>1. best = Nearest(Half, least, free)
    BY DEF Nearest
  <2> HIDE DEF i0, best, j1, delta, y2, z2, m2
  <2>2. QED
    BY <1>8, <1>9, <2>1, PassChooses
<1> HIDE DEF best
<1>11. j1 \in free /\ delta = least[j1] /\ delta \in 0 .. 2 * B /\ \A j \in free : delta <= least[j]
  BY <1>10
<1> HIDE DEF j1, delta
<1>12. \A j \in free : least[j] \in 0 .. 2 * B
  BY <1>8, <1>9, PassCompares
<1>13. Moved(N, u, v, p, seen, free, least, delta, y2, z2, m2)
  <2>1. Shifted(u, v, p, minVal, seen, least, delta, y2, z2, m2)
    BY DEF Shifted
  <2> HIDE DEF y2, z2, m2
  <2>2. QED
    BY <1>2, <1>9, <1>11, <1>12, <2>1, PassMoves
<1> HIDE DEF y2, z2, m2
<1>14. Potentials(C, N, B, y2, z2) /\ Edges(C, y2, z2, p, 1 .. N)
  BY <1>9, <1>10, <1>11, <1>12, <1>13, PassPotentials
<1>15. Passing(C, N, Half, y2, z2, p, w2, m2, seen, j1)
  <2>1. delta \in Int /\ \A j \in free : least[j] \in Int
    BY <1>2, <1>11, <1>12
  <2>2. QED
    BY <1>8, <1>9, <1>10, <1>11, <1>13, <2>1, PassGoesOn
<1> HIDE DEF i0, seen, free, closer, least, best, j1, delta, w2
<1>16. CASE p[j1] = 0
  <2>1. Walk(C, N, y2, z2, p, w2, j1)
    BY <1>2, <1>15, PassEnds
  <2>2. Edges(C, y2, z2, p, (1 .. N) \ {j1})
    BY <1>14 DEF Edges
  <2>3. p[0] # 0
    BY <1>4
  <2>4. QED
    BY <1>5, <1>14, <1>16, <2>1, <2>2, <2>3 DEF PriceInv, N, C, B
<1>17. CASE p[j1] # 0
  BY <1>5, <1>14, <1>15, <1>17 DEF PriceInv, N, C, B
<1>18. QED
  BY <1>16, <1>17, Zenon

\* From any column that changes hands, way leads out of every set of columns.
LEMMA WalkLeadsBack ==
  ASSUME NEW N \in Nat, NEW C, NEW y, NEW z, NEW q, NEW w, NEW a \in 1 .. N, Walk(C, N, y, z, q, w, a),
         NEW S \in SUBSET (1 .. N), a \in S
  PROVE  \E j \in S : w[j] \notin S
<1>1. PICK f \in [0 .. N -> Nat] :
        \A j \in 1 .. N : f[j] <= f[a] => f[w[j]] < f[j]
  BY DEF Walk
<1>2. \A j \in S : f[j] \in Nat /\ j \in 1 .. N
  <2>1. \A j \in 1 .. N : j \in 0 .. N
    OBVIOUS
  <2>2. QED
    BY <2>1
<1> DEFINE D == {f[j] : j \in S}
<1>3. D \in SUBSET Nat /\ D # {}
  BY <1>2
<1>4. PICK d \in D : \A n \in D : d <= n
  BY <1>3, LeastNat
<1>5. PICK j \in S : f[j] = d
  OBVIOUS
<1>6. f[j] <= f[a] /\ \A k \in S : f[j] <= f[k]
  BY <1>4, <1>5
<1>7. f[w[j]] < f[j]
  BY <1>1, <1>2, <1>6
<1>8. w[j] \notin S
  <2>1. SUFFICES ASSUME w[j] \in S PROVE FALSE
    OBVIOUS
  <2>2. f[j] <= f[w[j]] /\ f[w[j]] \in Nat /\ f[j] \in Nat
    BY <1>2, <1>6, <2>1
  <2>3. QED
    BY <1>7, <2>2
<1>9. QED
  BY <1>8

LEMMA PriceLoops ==
  ASSUME MatchInv, PriceInv
  PROVE  LoopsEnd
<1>1. loop = "scan" => j0 \notin used
  BY DEF PriceInv, Passing
<1>2. ASSUME loop = "augment" PROVE WayLeadsBack
  <2>1. Size \in Nat /\ j0 \in 0 .. Size /\ j0 # 0
    BY <1>2 DEF MatchInv
  <2>2. j0 \in 1 .. Size
    BY <2>1
  <2>3. Walk(Costs, Size, u, v, p, way, j0)
    BY <1>2 DEF PriceInv
  <2>4. ASSUME NEW S \in SUBSET (1 .. Size), j0 \in S PROVE \E j \in S : way[j] \notin S
    BY <2>1, <2>2, <2>3, <2>4, WalkLeadsBack
  <2>5. QED
    BY <2>4 DEF WayLeadsBack
<1>3. QED
  BY <1>1, <1>2 DEF LoopsEnd

-----------------------------------------------------------------------------
(* The cost of the answer *)

\* A sum of sums.
LEMMA SumAdds ==
  ASSUME NEW S, IsFiniteSet(S), NEW f, NEW g, NEW k,
         \A x \in S : f[x] \in Nat /\ g[x] \in Nat /\ k[x] = f[x] + g[x]
  PROVE  SumFunctionOnSet(k, S) = SumFunctionOnSet(f, S) + SumFunctionOnSet(g, S)
<1> DEFINE D == {U \in SUBSET S : SumFunctionOnSet(k, U) # SumFunctionOnSet(f, U) + SumFunctionOnSet(g, U)}
           B == {Cardinality(U) : U \in D}
<1>1. \A s \in SUBSET S : IsFiniteSet(s) /\ Cardinality(s) \in Nat
  BY FS_Subset, FS_CardinalityType
<1>2. SUFFICES ASSUME D # {} PROVE FALSE
  OBVIOUS
<1>3. B \in SUBSET Nat /\ B # {}
  <2>1. D \subseteq SUBSET S
    OBVIOUS
  <2> HIDE DEF D
  <2>2. QED
    BY <1>1, <1>2, <2>1
<1>4. PICK m \in B : \A n \in B : m <= n
  BY <1>3, LeastNat
<1>5. PICK U \in D : Cardinality(U) = m
  BY <1>4
<1>6. /\ SumFunctionOnSet(f, U) = IF U = {} THEN 0 ELSE f[Some(U)] + SumFunctionOnSet(f, Rest(U))
      /\ SumFunctionOnSet(g, U) = IF U = {} THEN 0 ELSE g[Some(U)] + SumFunctionOnSet(g, Rest(U))
      /\ SumFunctionOnSet(k, U) = IF U = {} THEN 0 ELSE k[Some(U)] + SumFunctionOnSet(k, Rest(U))
  BY <1>1, <1>5, SumStep
<1>7. SumFunctionOnSet(k, U) # SumFunctionOnSet(f, U) + SumFunctionOnSet(g, U)
  BY <1>5
<1>8. U # {}
  BY <1>6, <1>7
<1>9. Some(U) \in S /\ Rest(U) \in SUBSET S /\ Cardinality(Rest(U)) = m - 1 /\ m \in Nat
  BY <1>1, <1>5, <1>8, RestSmaller
<1>10. Rest(U) \notin D
  <2> HIDE DEF D
  <2>1. SUFFICES ASSUME Rest(U) \in D PROVE FALSE
    OBVIOUS
  <2>2. m - 1 \in B
    BY <1>9, <2>1
  <2>3. QED
    BY <1>4, <1>9, <2>2
<1> DEFINE a == SumFunctionOnSet(f, Rest(U))
           b == SumFunctionOnSet(g, Rest(U))
           c == f[Some(U)]
           d == g[Some(U)]
<1>11. a \in Nat /\ b \in Nat
  <2>1. /\ IsFiniteSet(Rest(U)) /\ \A x \in Rest(U) : f[x] \in Nat
        /\ \A x \in Rest(U) : g[x] \in Nat
    BY <1>1, <1>9
  <2>2. QED
    BY <2>1, SumOfNats
<1>12. SumFunctionOnSet(k, Rest(U)) = a + b
  BY <1>9, <1>10
<1>13. c \in Nat /\ d \in Nat /\ k[Some(U)] = c + d
  BY <1>9
<1>14. /\ SumFunctionOnSet(f, U) = c + a /\ SumFunctionOnSet(g, U) = d + b
       /\ SumFunctionOnSet(k, U) = (c + d) + (a + b)
  BY <1>6, <1>8, <1>12, <1>13
<1> HIDE DEF D, B, a, b, c, d
<1>15. (c + d) + (a + b) = (c + a) + (d + b)
  BY <1>11, <1>13
<1>16. QED
  BY <1>7, <1>14, <1>15

LEMMA SumAtMost ==
  ASSUME NEW S, IsFiniteSet(S), NEW f, NEW k, \A x \in S : f[x] \in Nat /\ k[x] \in Nat /\ f[x] <= k[x]
  PROVE  SumFunctionOnSet(f, S) <= SumFunctionOnSet(k, S)
<1> DEFINE g == [x \in S |-> k[x] - f[x]]
           a == SumFunctionOnSet(f, S)
           b == SumFunctionOnSet(g, S)
<1>1. \A x \in S : g[x] \in Nat /\ k[x] = f[x] + g[x]
  OBVIOUS
<1> HIDE DEF g
<1>2. SumFunctionOnSet(k, S) = a + b
  BY <1>1, SumAdds
<1>3. a \in Nat /\ b \in Nat
  BY <1>1, SumOfNats
<1> HIDE DEF a, b
<1>4. a <= a + b
  BY <1>3
<1>5. QED
  BY <1>2, <1>4 DEF a

\* A sum over the images under an injection.
LEMMA SumImage ==
  ASSUME NEW S, NEW T, IsFiniteSet(S), IsFiniteSet(T), NEW b, NEW g, NEW h,
         \A x \in S : b[x] \in T /\ h[x] = g[b[x]],
         \A x, y \in S : b[x] = b[y] => x = y, \A t \in T : g[t] \in Nat
  PROVE  SumFunctionOnSet(h, S) = SumFunctionOnSet(g, {b[x] : x \in S})
<1> DEFINE Of(U) == {b[x] : x \in U}
           D == {U \in SUBSET S : SumFunctionOnSet(h, U) # SumFunctionOnSet(g, Of(U))}
           B == {Cardinality(U) : U \in D}
<1>1. \A s \in SUBSET S : IsFiniteSet(s) /\ Cardinality(s) \in Nat
  BY FS_Subset, FS_CardinalityType
<1>2. SUFFICES ASSUME D # {} PROVE FALSE
  OBVIOUS
<1>3. B \in SUBSET Nat /\ B # {}
  <2>1. D \subseteq SUBSET S
    OBVIOUS
  <2> HIDE DEF D
  <2>2. QED
    BY <1>1, <1>2, <2>1
<1>4. PICK m \in B : \A n \in B : m <= n
  BY <1>3, LeastNat
<1>5. PICK U \in D : Cardinality(U) = m
  BY <1>4
<1> DEFINE x == Some(U)
           V == Rest(U)
<1>6. SumFunctionOnSet(h, U) = IF U = {} THEN 0 ELSE h[x] + SumFunctionOnSet(h, V)
  BY <1>1, <1>5, SumStep
<1>7. SumFunctionOnSet(h, U) # SumFunctionOnSet(g, Of(U)) /\ U \in SUBSET S
  BY <1>5
<1>8. U # {}
  <2>1. ASSUME U = {} PROVE FALSE
    <3>1. Of(U) = {}
      BY <2>1
    <3>2. SumFunctionOnSet(g, {}) = 0
      BY SumStep, FS_EmptySet
    <3>3. QED
      BY <1>6, <1>7, <2>1, <3>1, <3>2
  <2>2. QED
    BY <2>1
<1>9. x \in U /\ V = U \ {x} /\ V \in SUBSET S /\ Cardinality(V) = m - 1 /\ m \in Nat
  BY <1>1, <1>5, <1>7, <1>8, RestSmaller DEF Rest
<1>10. SumFunctionOnSet(h, V) = SumFunctionOnSet(g, Of(V))
  <2>1. V \notin D
    <3> HIDE DEF D, V
    <3>1. SUFFICES ASSUME V \in D PROVE FALSE
      OBVIOUS
    <3>2. m - 1 \in B
      BY <1>9, <3>1
    <3>3. QED
      BY <1>4, <1>9, <3>2
  <2> HIDE DEF V, Of
  <2>2. QED
    BY <1>9, <2>1
<1>11. Of(V) = Of(U) \ {b[x]} /\ b[x] \in Of(U) /\ Of(U) \in SUBSET T
  BY <1>7, <1>9
<1> HIDE DEF Of
<1>12. IsFiniteSet(Of(U)) /\ \A t \in Of(U) : g[t] \in Nat
  BY <1>11, FS_Subset
<1>13. SumFunctionOnSet(g, Of(U)) = g[b[x]] + SumFunctionOnSet(g, Of(U) \ {b[x]})
  BY <1>11, <1>12, SumOfNats
<1>14. h[x] = g[b[x]]
  BY <1>7, <1>9
<1>15. QED
  BY <1>6, <1>7, <1>8, <1>10, <1>11, <1>13, <1>14

\* Pairs of n rows and n columns, none of them twice.
Paired(N, m) ==
  /\ m \subseteq (1 .. N) \X (1 .. N)
  /\ \A x, y \in m : x[1] = y[1] \/ x[2] = y[2] => x = y

\* A sum over n pairs, of what their rows or their columns have, is over all.
SumsAll(N, m, b) ==
  \A g, h : (\A i \in 1 .. N : g[i] \in Nat) /\ (\A x \in m : h[x] = g[b[x]]) /\ Cardinality(m) = N
           => SumFunctionOnSet(h, m) = SumFunctionOnSet(g, 1 .. N)

\* They are n at most, and n of them have every row and every column: b is
\* which row, or which column, a pair has.
LEMMA PairedBy ==
  ASSUME NEW N \in Nat, NEW m, NEW b, \A x \in m : b[x] \in 1 .. N,
         \A x, y \in m : b[x] = b[y] => x = y, b \in [m -> 1 .. N]
  PROVE  IsFiniteSet(m) /\ Cardinality(m) <= N /\ SumsAll(N, m, b)
<1> DEFINE T == 1 .. N
<1>1. IsFiniteSet(T) /\ Cardinality(T) = N
  <2>1. 1 \in Int /\ N \in Int /\ (IF 1 > N THEN 0 ELSE N - 1 + 1) = N
    OBVIOUS
  <2>2. QED
    BY <2>1, FS_Interval
<1>2. b \in [m -> T] /\ \A x \in m : b[x] \in T
  OBVIOUS
<1> HIDE DEF T
<1>3. b \in Injection(m, T)
  BY <1>2 DEF Injection, IsInjective
<1>4. /\ IsFiniteSet(m) /\ Cardinality(m) <= Cardinality(T)
      /\ Cardinality(m) = Cardinality(T) <=> b \in Surjection(m, T)
  BY <1>1, <1>3, FS_Injection
<1>5. ASSUME NEW g, \A i \in T : g[i] \in Nat, NEW h, \A x \in m : h[x] = g[b[x]], Cardinality(m) = N
      PROVE  SumFunctionOnSet(h, m) = SumFunctionOnSet(g, T)
  <2>1. \A t \in T : \E x \in m : b[x] = t
    BY <1>1, <1>4, <1>5 DEF Surjection
  <2>2. {b[x] : x \in m} = T
    <3>1. \A t \in {b[x] : x \in m} : t \in T
      BY <1>2
    <3>2. \A t \in T : t \in {b[x] : x \in m}
      BY <2>1
    <3>3. QED
      BY <3>1, <3>2
  <2>3. \A x \in m : b[x] \in T /\ h[x] = g[b[x]]
    BY <1>2, <1>5
  <2>4. SumFunctionOnSet(h, m) = SumFunctionOnSet(g, {b[x] : x \in m})
    BY <1>1, <1>4, <1>5, <2>3, SumImage
  <2>5. QED
    BY <2>2, <2>4
<1>6. QED
  BY <1>1, <1>4, <1>5 DEF T, SumsAll

LEMMA PairedIs ==
  ASSUME NEW N \in Nat, NEW m, Paired(N, m)
  PROVE  /\ IsFiniteSet(m) /\ Cardinality(m) <= N
         /\ SumsAll(N, m, [x \in m |-> x[1]]) /\ SumsAll(N, m, [x \in m |-> x[2]])
<1> DEFINE T == 1 .. N
           b == [x \in m |-> x[1]]
           c == [x \in m |-> x[2]]
<1>1. \A x \in m : x[1] \in T /\ x[2] \in T
  BY DEF Paired
<1>2. /\ \A x \in m : b[x] = x[1] /\ c[x] = x[2]
      /\ b \in [m -> T] /\ c \in [m -> T]
  BY <1>1
<1> HIDE DEF b, c
<1>3. \A x, y \in m : (b[x] = b[y] => x = y) /\ (c[x] = c[y] => x = y)
  BY <1>2 DEF Paired
<1> HIDE DEF T
<1>4. IsFiniteSet(m) /\ Cardinality(m) <= N /\ SumsAll(N, m, b)
  BY <1>1, <1>2, <1>3, PairedBy DEF T
<1>5. SumsAll(N, m, c)
  BY <1>1, <1>2, <1>3, PairedBy DEF T
<1>6. QED
  BY <1>4, <1>5 DEF b, c

LEMMA AnswerIs ==
  ASSUME Question, Exact, EverybodyFits, MatchInv, Solved
  PROVE  /\ Paired(Size, Assignments) /\ Cardinality(Assignments) = Size
         /\ \A x \in Assignments : x[2] \in 1 .. Size /\ p[x[2]] = x[1]
<1> DEFINE N == Size
           A == {<<i, ColumnOf(i)>> : i \in 1 .. N}
<1>1. /\ N \in Nat /\ DOMAIN profiles = 1 .. N /\ DOMAIN tiers = 1 .. N
  BY CostsAre
<1>2. \A i \in 1 .. N : ColumnOf(i) \in 1 .. N /\ p[ColumnOf(i)] = i
  BY ColumnIs
<1>3. \A i \in 1 .. N : Cost(i, ColumnOf(i)) < Forbidden
  <2>1. \A i \in 1 .. N : <<i, ColumnOf(i)>> \in AllPairs
    BY <1>1, <1>2 DEF AllPairs
  <2>2. \A x \in AllPairs : Cost(x[1], x[2]) < Forbidden
    BY DEF EverybodyFits
  <2> HIDE DEF N
  <2>3. ASSUME NEW i \in 1 .. N PROVE Cost(i, ColumnOf(i)) < Forbidden
    <3> DEFINE x == <<i, ColumnOf(i)>>
    <3>1. x \in AllPairs /\ x[1] = i /\ x[2] = ColumnOf(i)
      BY <2>1
    <3> HIDE DEF x
    <3>2. Cost(x[1], x[2]) < Forbidden
      BY <2>2, <3>1
    <3>3. QED
      BY <3>1, <3>2
  <2>4. QED
    BY <2>3
<1>4. {i \in DOMAIN profiles : Cost(i, ColumnOf(i)) < Forbidden} = 1 .. N
  BY <1>1, <1>3
<1>5. Assignments = A
  BY <1>4 DEF Assignments
<1> HIDE DEF N
<1>6. \A x \in A : x[1] \in 1 .. N /\ x[2] \in 1 .. N /\ x = <<x[1], x[2]>> /\ p[x[2]] = x[1] /\ x[2] = ColumnOf(x[1])
  BY <1>2
<1>7. Paired(N, A)
  <2>1. A \subseteq (1 .. N) \X (1 .. N)
    BY <1>6
  <2>2. ASSUME NEW x \in A, NEW y \in A, x[1] = y[1] \/ x[2] = y[2] PROVE x = y
    BY <1>6, <2>2
  <2>3. QED
    BY <2>1, <2>2 DEF Paired
<1>8. Cardinality(A) = N
  <2> DEFINE b == [i \in 1 .. N |-> <<i, ColumnOf(i)>>]
  <2>1. IsFiniteSet(1 .. N) /\ Cardinality(1 .. N) = N
    <3>1. 1 \in Int /\ N \in Int /\ (IF 1 > N THEN 0 ELSE N - 1 + 1) = N
      BY <1>1 DEF N
    <3>2. QED
      BY <3>1, FS_Interval
  <2> DEFINE T == 1 .. N
  <2> HIDE DEF T
  <2>2. b \in [T -> A] /\ \A i \in T : b[i] = <<i, ColumnOf(i)>>
    BY DEF T
  <2>3. \A i, j \in T : b[i] = b[j] => i = j
    BY <2>2
  <2>4. \A x \in A : \E i \in T : b[i] = x
    BY <2>2 DEF T
  <2> HIDE DEF b, A
  <2>5. b \in Surjection(T, A) /\ b \in Injection(T, A)
    BY <2>2, <2>3, <2>4 DEF Surjection, Injection, IsInjective
  <2>6. Cardinality(A) = Cardinality(T)
    BY <2>1, <2>5, FS_Surjection DEF T
  <2>7. QED
    BY <2>1, <2>6 DEF T
<1>9. QED
  BY <1>5, <1>6, <1>7, <1>8 DEF N

\* What the pairs cost, next to the potentials of the rows and the columns; to
\* all of g and e the same is added.
Balance(N, y, g, e, total) ==
  LET rowSum == SumFunctionOnSet(y, 1 .. N)
      columnSum == SumFunctionOnSet(g, 1 .. N)
      spare == SumFunctionOnSet(e, 1 .. N)
  IN  /\ rowSum \in Nat /\ columnSum \in Nat /\ spare \in Nat /\ total \in Nat
      /\ rowSum + columnSum <= total + spare

\* They cost nothing besides.
Balanced(N, y, g, e, total) ==
  SumFunctionOnSet(y, 1 .. N) + SumFunctionOnSet(g, 1 .. N) = total + SumFunctionOnSet(e, 1 .. N)

\* n pairs, their costs t, and the potentials with the dearest cost added.
Bill(N, B, C, y, z, m, t, g, e) ==
  /\ N \in Nat /\ B \in Nat /\ C \in [1 .. N -> [1 .. N -> 0 .. B]] /\ Potentials(C, N, B, y, z)
  /\ Paired(N, m) /\ Cardinality(m) = N /\ \A x \in m : t[x] = C[x[1]][x[2]]
  /\ \A j \in 1 .. N : g[j] = z[j] + B /\ e[j] = B

\* With the potentials of the solver, no n pairs cost less than their sum.
LEMMA PairsCost ==
  ASSUME NEW N, NEW B, NEW C, NEW y, NEW z, NEW m, NEW t, NEW g, NEW e, Bill(N, B, C, y, z, m, t, g, e),
         NEW total, total = SumFunctionOnSet(t, m)
  PROVE  /\ Balance(N, y, g, e, total)
         /\ (\A x \in m : Tight(C, y, z, x[1], x[2])) => Balanced(N, y, g, e, total)
<1> DEFINE T == 1 .. N
           y1 == [x \in m |-> y[x[1]]]
           g2 == [x \in m |-> g[x[2]]]
           e1 == [x \in m |-> e[x[1]]]
           low == [x \in m |-> y1[x] + g2[x]]
           high == [x \in m |-> t[x] + e1[x]]
           rowSum == SumFunctionOnSet(y, T)
           columnSum == SumFunctionOnSet(g, T)
           spare == SumFunctionOnSet(e, T)
<1> USE DEF Bill
<1>1. \A x \in m : x[1] \in T /\ x[2] \in T
  BY DEF Paired
<1>2. ASSUME NEW i \in T, NEW j \in T
      PROVE  C[i][j] \in 0 .. B /\ y[i] \in 0 .. B /\ z[j] \in -B .. 0 /\ y[i] + z[j] <= C[i][j]
  BY SlackBounds DEF Potentials
<1>3. IsFiniteSet(T) /\ IsFiniteSet(m)
  <2>1. 1 \in Int /\ N \in Int
    OBVIOUS
  <2>2. IsFiniteSet(m)
    BY PairedIs
  <2>3. IsFiniteSet(1 .. N)
    BY <2>1, FS_Interval
  <2>4. QED
    BY <2>2, <2>3
<1>4. \A j \in T : g[j] = z[j] + B /\ e[j] = B
  OBVIOUS
<1> HIDE DEF T
<1>5. \A j \in T : y[j] \in Nat /\ g[j] \in Nat /\ e[j] \in Nat
  BY <1>2, <1>4
<1>6. SumFunctionOnSet(y1, m) = rowSum /\ SumFunctionOnSet(g2, m) = columnSum /\ SumFunctionOnSet(e1, m) = spare
  <2>1. \A x \in m : y1[x] = y[x[1]] /\ g2[x] = g[x[2]] /\ e1[x] = e[x[1]]
    OBVIOUS
  <2> DEFINE b == [x \in m |-> x[1]]
             c == [x \in m |-> x[2]]
  <2>2. SumsAll(N, m, b) /\ SumsAll(N, m, c)
    BY PairedIs
  <2>3. \A x \in m : b[x] = x[1] /\ c[x] = x[2]
    OBVIOUS
  <2> HIDE DEF y1, g2, e1, b, c
  <2>4. \A x \in m : y1[x] = y[b[x]] /\ g2[x] = g[c[x]] /\ e1[x] = e[b[x]]
    BY <2>1, <2>3
  <2>5. SumFunctionOnSet(y1, m) = rowSum
    BY <1>5, <2>2, <2>4 DEF T, SumsAll
  <2>6. SumFunctionOnSet(g2, m) = columnSum
    BY <1>5, <2>2, <2>4 DEF T, SumsAll
  <2>7. SumFunctionOnSet(e1, m) = spare
    BY <1>5, <2>2, <2>4 DEF T, SumsAll
  <2>8. QED
    BY <2>5, <2>6, <2>7
<1>7. ASSUME NEW x \in m
      PROVE  /\ y1[x] \in Nat /\ g2[x] \in Nat /\ e1[x] \in Nat /\ t[x] \in Nat
             /\ low[x] = y1[x] + g2[x] /\ high[x] = t[x] + e1[x] /\ low[x] \in Nat /\ high[x] \in Nat
             /\ low[x] <= high[x] /\ (Tight(C, y, z, x[1], x[2]) => low[x] = high[x])
  <2> DEFINE i == x[1]
             j == x[2]
             c == C[i][j]
             a == y[i]
             b == z[j]
  <2>1. i \in T /\ j \in T
    BY <1>1
  <2>2. c \in 0 .. B /\ a \in 0 .. B /\ b \in -B .. 0 /\ a + b <= c
    BY <1>2, <2>1
  <2>3. y1[x] = a /\ g2[x] = b + B /\ e1[x] = B /\ t[x] = c
    BY <1>4, <2>1
  <2>4. low[x] = y1[x] + g2[x] /\ high[x] = t[x] + e1[x]
    OBVIOUS
  <2>5. Tight(C, y, z, x[1], x[2]) <=> a + b = c
    BY DEF Tight
  <2> HIDE DEF i, j, c, a, b, y1, g2, e1, low, high
  <2>6. QED
    BY <2>2, <2>3, <2>4, <2>5
<1> HIDE DEF y1, g2, e1, low, high
<1>8. SumFunctionOnSet(low, m) = rowSum + columnSum /\ SumFunctionOnSet(high, m) = total + spare
  <2>1. SumFunctionOnSet(low, m) = SumFunctionOnSet(y1, m) + SumFunctionOnSet(g2, m)
    BY <1>3, <1>7, SumAdds
  <2>2. SumFunctionOnSet(high, m) = SumFunctionOnSet(t, m) + SumFunctionOnSet(e1, m)
    BY <1>3, <1>7, SumAdds
  <2>3. QED
    BY <1>6, <2>1, <2>2
<1>9. rowSum \in Nat /\ columnSum \in Nat /\ spare \in Nat /\ total \in Nat
  <2>1. rowSum \in Nat
    BY <1>3, <1>5, SumOfNats
  <2>2. columnSum \in Nat
    BY <1>3, <1>5, SumOfNats
  <2>3. spare \in Nat
    BY <1>3, <1>5, SumOfNats
  <2>4. total \in Nat
    BY <1>3, <1>7, SumOfNats
  <2>5. QED
    BY <2>1, <2>2, <2>3, <2>4
<1>10. SumFunctionOnSet(low, m) <= SumFunctionOnSet(high, m)
  BY <1>3, <1>7, SumAtMost
<1>11. (\A x \in m : Tight(C, y, z, x[1], x[2])) => SumFunctionOnSet(low, m) = SumFunctionOnSet(high, m)
  BY <1>3, <1>7, SumSame
<1>12. QED
  BY <1>8, <1>9, <1>10, <1>11 DEF T, Balance, Balanced

LEMMA PriceOptimal ==
  ASSUME Question, Exact, EverybodyFits, MatchInv, PriceInv, Solved
  PROVE  Optimal(Assignments)
<1> DEFINE N == Size
           C == Costs
           B == Dearest
           A == Assignments
           g == [j \in 1 .. N |-> v[j] + B]
           e == [j \in 1 .. N |-> B]
           rowSum == SumFunctionOnSet(u, 1 .. N)
           columnSum == SumFunctionOnSet(g, 1 .. N)
           spare == SumFunctionOnSet(e, 1 .. N)
           T(m) == [x \in m |-> Cost(x[1], x[2])]
<1>1. /\ C \in [1 .. N -> [1 .. N -> 0 .. B]] /\ N \in Nat /\ B \in Nat
      /\ DOMAIN profiles = 1 .. N /\ DOMAIN tiers = 1 .. N
  BY CostsAre, SolverAssumption DEF Dearest
<1>2. Potentials(C, N, B, u, v) /\ Edges(C, u, v, p, 1 .. N)
  BY DEF PriceInv, Solved
<1>3. Paired(N, A) /\ Cardinality(A) = N /\ \A x \in A : x[2] \in 1 .. N /\ p[x[2]] = x[1]
  BY AnswerIs
<1>4. \A x \in A : Tight(C, u, v, x[1], x[2])
  <2>1. \A x \in A : x[1] \in 1 .. N
    BY <1>3 DEF Paired
  <2>2. \A x \in A : x[1] # 0
    BY <1>1, <2>1
  <2>3. QED
    BY <1>2, <1>3, <2>2 DEF Edges
<1>5. ASSUME NEW m, Paired(N, m) PROVE \A x \in m : T(m)[x] = C[x[1]][x[2]]
  <2>1. \A x \in m : x[1] \in 1 .. N /\ x[2] \in 1 .. N
    BY <1>5 DEF Paired
  <2>2. \A i, j \in 1 .. N : C[i][j] = Cost(i, j)
    BY DEF Costs
  <2>3. QED
    BY <2>1, <2>2
<1>6. ASSUME NEW m PROVE TotalCost(m) = SumFunctionOnSet(T(m), m)
  BY DEF TotalCost, SumFunction
<1>7. ASSUME NEW m \in Matchings PROVE Paired(N, m)
  BY <1>1 DEF Matchings, AllPairs, Paired
<1>8. \A j \in 1 .. N : g[j] = v[j] + B /\ e[j] = B
  OBVIOUS
<1> HIDE DEF N, C, B, A, T, g, e
<1>9. ASSUME NEW m, Paired(N, m), Cardinality(m) = N
      PROVE  /\ Balance(N, u, g, e, TotalCost(m))
             /\ (\A x \in m : Tight(C, u, v, x[1], x[2])) => Balanced(N, u, g, e, TotalCost(m))
  <2> DEFINE t == T(m)
  <2>1. TotalCost(m) = SumFunctionOnSet(t, m) /\ \A x \in m : t[x] = C[x[1]][x[2]]
    BY <1>5, <1>6, <1>9
  <2> HIDE DEF t
  <2>2. QED
    <3>1. Bill(N, B, C, u, v, m, t, g, e)
      BY <1>1, <1>2, <1>8, <1>9, <2>1 DEF Bill
    <3>2. QED
      BY <2>1, <3>1, PairsCost
<1> HIDE DEF T
<1>10. \A m \in Matchings : Cardinality(m) = N => TotalCost(A) <= TotalCost(m)
  <2>1. /\ rowSum \in Nat /\ columnSum \in Nat /\ spare \in Nat /\ TotalCost(A) \in Nat
        /\ rowSum + columnSum = TotalCost(A) + spare
    BY <1>3, <1>4, <1>9 DEF Balance, Balanced
  <2>2. ASSUME NEW m \in Matchings, Cardinality(m) = N PROVE TotalCost(A) <= TotalCost(m)
    <3>1. TotalCost(m) \in Nat /\ rowSum + columnSum <= TotalCost(m) + spare
      BY <1>7, <1>9, <2>2 DEF Balance
    <3>2. QED
      BY <2>1, <3>1
  <2>3. QED
    BY <2>2
<1>11. \A m \in Matchings : Cardinality(m) <= N
  BY <1>1, <1>7, PairedIs
<1>12. QED
  BY <1>3, <1>10, <1>11 DEF Optimal, A

FitInv == MatchInv /\ Question /\ (EverybodyFits => PriceInv)

LEMMA SpecFit ==
  ASSUME Exact
  PROVE  SolverSpec => []FitInv
<1>1. Question /\ SolverInit => FitInv
  BY InitMatch, InitPrice DEF FitInv
<1>2. ASSUME FitInv, [SolverNext]_solverVars PROVE FitInv'
  <2>1. UNCHANGED input
    BY <1>2, Zenon DEF SolverNext, NextRow, Scan, Augment, solverVars
  <2>2. Question' /\ EverybodyFits' = EverybodyFits
    BY <1>2, <2>1, InputStays DEF FitInv
  <2>3. MatchInv'
    BY <1>2, NextMatch DEF FitInv
  <2>4. ASSUME EverybodyFits PROVE PriceInv'
    <3>1. Question /\ MatchInv /\ PriceInv
      BY <1>2, <2>4 DEF FitInv
    <3>2. CASE NextRow
      BY <2>4, <3>1, <3>2, PriceNextRow
    <3>3. CASE Scan
      BY <2>4, <3>1, <3>3, PriceScan
    <3>4. CASE Augment
      BY <2>4, <3>1, <3>4, PriceAugment
    <3>5. CASE UNCHANGED solverVars
      <4>1. Size' = Size /\ Costs' = Costs
        BY <2>1, InputStays
      <4>2. QED
        BY <3>1, <3>5, <4>1 DEF PriceInv, solverVars, search
    <3>6. QED
      BY <1>2, <3>2, <3>3, <3>4, <3>5 DEF SolverNext
  <2>5. EverybodyFits' => PriceInv'
    BY <2>2, <2>4
  <2>6. QED
    BY <2>2, <2>3, <2>5, Zenon DEF FitInv
<1>3. QED
  BY <1>1, <1>2, PTL DEF SolverSpec

\* When there are as many slots as talents, all qualify for all of them and no
\* sum is rounded, every loop of the solver ends: a pass goes on from a column
\* that is new to it, and the columns that change hands lead back to the first
\* (internal/algo/hungarian.go:195).
THEOREM LoopsCorrect ==
  ASSUME Exact
  PROVE  SolverSpec => [](EverybodyFits => LoopsEnd)
<1>1. FitInv => (EverybodyFits => LoopsEnd)
  BY PriceLoops DEF FitInv
<1>2. QED
  BY <1>1, SpecFit, PTL

\* And the answer is the cheapest (internal/algo/hungarian.go:149).
THEOREM OptimumCorrect ==
  ASSUME Exact
  PROVE  SolverSpec => []CheapestIsFound
<1>1. FitInv => CheapestIsFound
  BY PriceOptimal DEF FitInv, CheapestIsFound
<1>2. QED
  BY <1>1, SpecFit, PTL

-----------------------------------------------------------------------------
(* The potentials of the solver beside the largest float *)

\* What is left of a cost.
Uncovered(c, x, y) == Near(Near(c - x) - y)

\* A potential is small, or some passes without a column have made it Half or
\* Forbidden.
Raised(b) == (0 .. b) \cup {Half, Forbidden}
Lowered(b) == (-b .. 0) \cup {-Half, -Forbidden}

\* What is left is below Half for a pair that is not forbidden and both of whose
\* potentials are of the same size, and for one that is and whose row has Forbidden.
LEMMA UncoveredIs ==
  ASSUME NEW B \in Nat, NEW a \in Nat, NEW b \in Nat, a < Precision, B + b < Precision,
         NEW c \in (0 .. B) \cup {Forbidden}, NEW x \in Raised(a), NEW y \in Lowered(b), x + y <= c
  PROVE  /\ Uncovered(c, x, y) \in Nat
         /\ c < Half /\ x < Half /\ y > -Half => Uncovered(c, x, y) = c - x - y
         /\ c < Half /\ x >= Half /\ x = -y => Uncovered(c, x, y) = 0
         /\ c > Half /\ x > Half /\ y > -Half => Uncovered(c, x, y) = -y
         /\ Uncovered(c, x, y) < Half => \/ c < Half /\ x < Half /\ y > -Half
                                         \/ c < Half /\ x >= Half /\ x = -y
                                         \/ c > Half /\ x > Half /\ y > -Half
<1> DEFINE h == Half
           F == Forbidden
           P == Precision
<1>1. h \in Nat /\ F = 2 * h /\ P \in Nat /\ P < h /\ a < P /\ b < P /\ B < P /\ B + b < P
  BY HalfIs
<1>2. \A s \in Int : -P < s /\ s < P =>
        Near(s) = s /\ Near(h + s) = h /\ Near(-h + s) = -h /\ Near(F + s) = F /\ Near(-F + s) = -F
  BY NearExact, NearTop
<1>3. \A s \in Int : s >= h + F => Near(s) \in Int /\ Near(s) >= h
  BY NearFar
<1>4. /\ c = F \/ c \in 0 .. B
      /\ x = h \/ x = F \/ x \in 0 .. a
      /\ y = -h \/ y = -F \/ y \in -b .. 0
  BY DEF Raised, Lowered
<1> DEFINE t == Near(c - x)
<1>5. Uncovered(c, x, y) = Near(t - y)
  BY DEF Uncovered
<1> HIDE DEF h, F, P
<1>6. CASE c \in 0 .. B /\ x \in 0 .. a
  <2>1. t = c - x
    BY <1>1, <1>2, <1>6
  <2>2. CASE y \in -b .. 0
    <3>1. c - x - y \in Nat /\ c - x - y < P
      BY <1>1, <1>6, <2>2
    <3>2. Near(c - x - y) = c - x - y
      BY <1>1, <1>2, <3>1
    <3>3. QED
      BY <1>1, <1>5, <1>6, <2>1, <2>2, <3>1, <3>2 DEF h
  <2>3. CASE y = -h
    <3>1. t - y = h + (c - x) /\ c - x \in Int /\ -P < c - x /\ c - x < P
      BY <1>1, <1>6, <2>1, <2>3
    <3>2. Near(t - y) = h
      BY <1>2, <3>1
    <3>3. QED
      BY <1>1, <1>5, <1>6, <2>3, <3>2 DEF h
  <2>4. CASE y = -F
    <3>1. t - y = F + (c - x) /\ c - x \in Int /\ -P < c - x /\ c - x < P
      BY <1>1, <1>6, <2>1, <2>4
    <3>2. Near(t - y) = F
      BY <1>2, <3>1
    <3>3. QED
      BY <1>1, <1>5, <1>6, <2>4, <3>2 DEF h
  <2>5. QED
    BY <1>4, <2>2, <2>3, <2>4
<1>7. CASE c \in 0 .. B /\ (x = h \/ x = F)
  <2>1. c - x = -x + c /\ c \in Int /\ -P < c /\ c < P
    BY <1>1, <1>7
  <2>2. t = -x
    BY <1>2, <1>7, <2>1
  <2>3. y = -x \/ (x = h /\ y = -F)
    BY <1>1, <1>4, <1>7
  <2>4. CASE y = -x
    <3>1. t - y = 0
      BY <1>1, <1>7, <2>2, <2>4
    <3>2. Near(0) = 0
      BY <1>1, <1>2
    <3>3. x = -y
      BY <1>1, <1>7, <2>4
    <3>4. QED
      BY <1>1, <1>5, <1>7, <3>1, <3>2, <3>3 DEF h
  <2>5. CASE x = h /\ y = -F
    <3>1. t - y = h + 0
      BY <1>1, <2>2, <2>5
    <3>2. Near(h + 0) = h
      BY <1>1, <1>2
    <3>3. x # -y
      BY <1>1, <2>5
    <3>4. QED
      BY <1>1, <1>5, <1>7, <2>5, <3>1, <3>2, <3>3 DEF h
  <2>6. QED
    BY <2>3, <2>4, <2>5
<1>8. CASE c = F /\ (x \in 0 .. a \/ x = h)
  <2> DEFINE s == IF x = h THEN h ELSE F
  <2>1. t = s
    <3>1. CASE x = h
      <4>1. c - x = h + 0
        BY <1>1, <1>8, <3>1
      <4>2. Near(h + 0) = h
        BY <1>1, <1>2
      <4>3. QED
        BY <3>1, <4>1, <4>2
    <3>2. CASE x \in 0 .. a
      <4>1. c - x = F + (-x) /\ -x \in Int /\ -P < -x /\ -x < P /\ x # h
        BY <1>1, <1>8, <3>2
      <4>2. QED
        BY <1>2, <4>1
    <3>3. QED
      BY <1>8, <3>1, <3>2
  <2>2. s \in {h, F}
    OBVIOUS
  <2> HIDE DEF s, t
  <2>3. Near(t - y) \in Int /\ Near(t - y) >= h
    <3>1. CASE y \in -b .. 0
      <4>1. t - y = s + (-y) /\ -y \in Int /\ -P < -y /\ -y < P
        BY <1>1, <2>1, <2>2, <3>1
      <4>2. Near(s + (-y)) = s
        BY <1>2, <2>2, <4>1
      <4>3. QED
        BY <1>1, <2>2, <4>1, <4>2
    <3>2. CASE y = -h /\ s = h
      <4>1. t - y = F + 0
        BY <1>1, <2>1, <3>2
      <4>2. Near(F + 0) = F
        BY <1>1, <1>2
      <4>3. QED
        BY <1>1, <4>1, <4>2
    <3>3. CASE y = -F \/ (y = -h /\ s = F)
      <4>1. t - y \in Int /\ t - y >= h + F
        BY <1>1, <2>1, <2>2, <3>3
      <4>2. QED
        BY <1>3, <4>1
    <3>4. QED
      BY <1>4, <2>2, <3>1, <3>2, <3>3
  <2>4. Uncovered(c, x, y) \in Nat /\ Uncovered(c, x, y) >= h
    BY <1>1, <1>5, <2>3
  <2>5. ~(c < h) /\ ~(x > h) /\ ~(Uncovered(c, x, y) < h)
    BY <1>1, <1>8, <2>4
  <2>6. QED
    BY <2>4, <2>5, Zenon DEF h
<1>9. CASE c = F /\ x = F
  <2>1. t = 0
    BY <1>1, <1>2, <1>9
  <2>2. ~(c < h) /\ c > h /\ x > h
    BY <1>1, <1>9
  <2>3. CASE y \in -b .. 0
    <3>1. t - y = -y /\ -y \in Nat /\ -P < -y /\ -y < P /\ y > -h
      BY <1>1, <2>1, <2>3
    <3>2. Near(-y) = -y
      BY <1>2, <3>1
    <3>3. QED
      BY <1>5, <2>2, <3>1, <3>2 DEF h
  <2>4. CASE y = -h \/ y = -F
    <3>1. (t - y = h + 0 \/ t - y = F + 0) /\ ~(y > -h)
      BY <1>1, <2>1, <2>4
    <3>2. Near(h + 0) = h /\ Near(F + 0) = F
      BY <1>1, <1>2
    <3>3. Uncovered(c, x, y) \in Nat /\ ~(Uncovered(c, x, y) < h)
      BY <1>1, <1>5, <3>1, <3>2
    <3>4. QED
      BY <2>2, <3>1, <3>3, Zenon DEF h
  <2>5. QED
    BY <1>4, <2>3, <2>4
<1>10. QED
  BY <1>4, <1>6, <1>7, <1>8, <1>9


Left(C, y, z, i, j) == Uncovered(C[i][j], y[i], z[j])

\* The size of a small potential of a column.
Span(x) == IF x > -Half THEN -x ELSE 0

\* No pair is cheaper than its potentials allow, forbidden ones included.
Prices(C, N, b, y, z) ==
  /\ DOMAIN y = 0 .. N /\ DOMAIN z = 0 .. N
  /\ \A i \in 1 .. N : y[i] \in Raised(b)
  /\ \A j \in 1 .. N : z[j] \in Lowered(b)
  /\ \A i, j \in 1 .. N : y[i] + z[j] <= C[i][j]

\* minVal has at most what is left of the pairs with the rows that were met, and
\* Half or a small number.
Bounded(C, B, y, z, q, m, s, free) ==
  \A j \in free : /\ m[j] = Half \/ m[j] <= B + Span(z[j])
                  /\ \A k \in s : m[j] <= Left(C, y, z, q[k], j)

\* The start of a pass, as in Setting.
Search(N, B, b, C, y, z, q, m, s, a, seen, free, e) ==
  /\ N \in Nat /\ B \in Nat /\ b \in Nat /\ B + 2 * b < Precision
  /\ C \in [1 .. N -> [1 .. N -> (0 .. B) \cup {Forbidden}]] /\ Prices(C, N, b, y, z)
  /\ q \in [0 .. N -> 0 .. N] /\ \A j, k \in 0 .. N : q[j] = q[k] /\ q[j] # 0 => j = k
  /\ s \subseteq 0 .. N /\ a \in 0 .. N /\ 0 \in seen /\ \A k \in seen : q[k] # 0
  /\ seen = s \cup {a} /\ free = (1 .. N) \ seen
  /\ e \in 1 .. N /\ q[e] = 0 /\ z[e] = 0
  /\ m \in [0 .. N -> 0 .. Half] /\ Bounded(C, B, y, z, q, m, s, free)

LEMMA SearchFree ==
  ASSUME NEW N, NEW B, NEW b, NEW C, NEW y, NEW z, NEW q, NEW m, NEW s, NEW a, NEW seen, NEW free, NEW e,
         Search(N, B, b, C, y, z, q, m, s, a, seen, free, e)
  PROVE  /\ \A k \in seen : k \in 0 .. N /\ q[k] \in 1 .. N
         /\ \A j \in free : j \in 1 .. N /\ j \in 0 .. N /\ j \notin seen
         /\ e \in free /\ a \in seen /\ 0 \in seen /\ N \in Nat
         /\ DOMAIN m = 0 .. N /\ DOMAIN y = 0 .. N /\ DOMAIN z = 0 .. N
         /\ B \in Nat /\ b \in Nat /\ B + b < Precision /\ B + 2 * b < Precision
         /\ \A i, j \in 1 .. N : /\ C[i][j] \in (0 .. B) \cup {Forbidden} /\ y[i] \in Raised(b)
                                 /\ z[j] \in Lowered(b) /\ y[i] + z[j] <= C[i][j]
<1>1. /\ N \in Nat /\ seen = s \cup {a} /\ free = (1 .. N) \ seen /\ B \in Nat /\ b \in Nat
      /\ B + 2 * b < Precision /\ 0 \in seen /\ s \subseteq 0 .. N /\ a \in 0 .. N /\ e \in 1 .. N
      /\ q \in [0 .. N -> 0 .. N] /\ (\A k \in seen : q[k] # 0) /\ q[e] = 0
  BY DEF Search
<1>2. \A k \in seen : k \in 0 .. N /\ q[k] \in 0 .. N /\ q[k] # 0
  BY <1>1
<1>3. \A k \in seen : k \in 0 .. N /\ q[k] \in 1 .. N
  <2>1. \A i \in 0 .. N : i # 0 => i \in 1 .. N
    BY <1>1
  <2>2. QED
    BY <1>2, <2>1, Zenon
<1>4. \A j \in free : j \in 1 .. N /\ j \in 0 .. N /\ j \notin seen
  BY <1>1
<1>5. e \in free /\ a \in seen
  BY <1>1
<1>6. DOMAIN m = 0 .. N /\ DOMAIN y = 0 .. N /\ DOMAIN z = 0 .. N
  BY DEF Search, Prices
<1>7. \A i, j \in 1 .. N : /\ C[i][j] \in (0 .. B) \cup {Forbidden} /\ y[i] \in Raised(b)
                           /\ z[j] \in Lowered(b) /\ y[i] + z[j] <= C[i][j]
  <2> DEFINE R == (0 .. B) \cup {Forbidden}
  <2>1. C \in [1 .. N -> [1 .. N -> R]] /\ Prices(C, N, b, y, z)
    BY DEF Search
  <2> HIDE DEF R
  <2>2. \A i, j \in 1 .. N : C[i][j] \in R
    BY <2>1
  <2>3. QED
    BY <2>1, <2>2 DEF Prices, R
<1>8. B + b < Precision
  BY <1>1, HalfIs
<1>9. QED
  BY <1>1, <1>3, <1>4, <1>5, <1>6, <1>7, <1>8

\* What is left of a pair of a row that was met and a free column.
LEMMA LeftIs ==
  ASSUME NEW N, NEW B, NEW b, NEW C, NEW y, NEW z, NEW q, NEW m, NEW s, NEW a, NEW seen, NEW free, NEW e,
         Search(N, B, b, C, y, z, q, m, s, a, seen, free, e), NEW k \in seen, NEW j \in free
  PROVE  /\ Left(C, y, z, q[k], j) \in Nat
         /\ Left(C, y, z, q[k], j) < Half =>
              /\ Left(C, y, z, q[k], j) <= B + Span(z[j]) /\ Left(C, y, z, q[k], j) <= B + b
              /\ z[j] = -Forbidden => y[q[k]] = Forbidden
         /\ y[q[k]] = Forbidden /\ z[j] = 0 => Left(C, y, z, q[k], j) = 0
<1> DEFINE c == C[q[k]][j]
           x == y[q[k]]
           t == z[j]
           l == Left(C, y, z, q[k], j)
<1>1. /\ c \in (0 .. B) \cup {Forbidden} /\ x \in Raised(b) /\ t \in Lowered(b) /\ x + t <= c
      /\ B \in Nat /\ b \in Nat /\ B + b < Precision
  BY SearchFree
<1>2. l = Uncovered(c, x, t)
  BY DEF Left
<1>3. Half \in Nat /\ Forbidden = 2 * Half /\ Precision \in Nat /\ Precision < Half
  BY HalfIs
<1> HIDE DEF c, x, t, l
<1>4. b < Precision
  BY <1>1, <1>3
<1>5. /\ l \in Nat
      /\ c < Half /\ x < Half /\ t > -Half => l = c - x - t
      /\ c < Half /\ x >= Half /\ x = -t => l = 0
      /\ c > Half /\ x > Half /\ t > -Half => l = -t
      /\ l < Half => \/ c < Half /\ x < Half /\ t > -Half
                     \/ c < Half /\ x >= Half /\ x = -t
                     \/ c > Half /\ x > Half /\ t > -Half
  BY <1>1, <1>2, <1>4, UncoveredIs
<1>6. /\ c = Forbidden \/ c \in 0 .. B
      /\ x = Half \/ x = Forbidden \/ x \in 0 .. b
      /\ t = -Half \/ t = -Forbidden \/ t \in -b .. 0
  BY <1>1 DEF Raised, Lowered
<1>7. ASSUME l < Half
      PROVE  l <= B + Span(t) /\ l <= B + b /\ (t = -Forbidden => x = Forbidden)
  <2>1. CASE c < Half /\ x < Half /\ t > -Half
    <3>1. l = c - x - t
      BY <1>5, <2>1
    <3>2. c \in 0 .. B /\ x \in 0 .. b /\ t \in -b .. 0
      BY <1>1, <1>3, <1>6, <2>1
    <3>3. QED
      BY <1>1, <1>3, <2>1, <3>1, <3>2 DEF Span
  <2>2. CASE c < Half /\ x >= Half /\ x = -t
    <3>1. l = 0
      BY <1>5, <2>2
    <3>2. QED
      BY <1>1, <1>3, <1>6, <2>2, <3>1 DEF Span
  <2>3. CASE c > Half /\ x > Half /\ t > -Half
    <3>1. l = -t
      BY <1>5, <2>3
    <3>2. QED
      BY <1>1, <1>3, <1>6, <2>3, <3>1 DEF Span
  <2>4. QED
    BY <1>5, <1>7, <2>1, <2>2, <2>3
<1>8. ASSUME x = Forbidden, t = 0 PROVE l = 0
  <2>1. c = Forbidden
    BY <1>1, <1>3, <1>6, <1>8
  <2>2. c > Half /\ x > Half /\ t > -Half /\ ~(c < Half)
    BY <1>3, <1>8, <2>1
  <2>3. l = -t
    BY <1>5, <2>2
  <2>4. \A n \in Int : n <= 0 /\ 0 <= n => -n <= 0
    OBVIOUS
  <2>5. t \in Int /\ t <= 0 /\ 0 <= t
    BY <1>8
  <2>6. QED
    BY <1>5, <2>3, <2>4, <2>5
<1>9. QED
  BY <1>5, <1>7, <1>8 DEF x, t, l

\* What a pass makes of minVal and way.
Met(C, y, z, q, w, m, a, free, least, w2) ==
  LET closer == {j \in free : Left(C, y, z, q[a], j) < m[j]}
  IN  /\ least = [j \in DOMAIN m |-> IF j \in closer THEN Left(C, y, z, q[a], j) ELSE m[j]]
      /\ w2 = [j \in DOMAIN w |-> IF j \in closer THEN a ELSE w[j]]

\* After the comparison minVal has at most what is left with the new row, too.
LEMMA SearchLeast ==
  ASSUME NEW N, NEW B, NEW b, NEW C, NEW y, NEW z, NEW q, NEW m, NEW s, NEW a, NEW seen, NEW free, NEW e,
         Search(N, B, b, C, y, z, q, m, s, a, seen, free, e),
         NEW w, NEW least, NEW w2, Met(C, y, z, q, w, m, a, free, least, w2)
  PROVE  least \in [0 .. N -> 0 .. Half] /\ Bounded(C, B, y, z, q, least, seen, free)
         /\ \A j \in free : least[j] <= m[j]
<1> DEFINE L(j) == Left(C, y, z, q[a], j)
           closer == {j \in free : L(j) < m[j]}
<1>1. /\ seen = s \cup {a} /\ m \in [0 .. N -> 0 .. Half] /\ Bounded(C, B, y, z, q, m, s, free)
      /\ a \in seen /\ Half \in Nat /\ DOMAIN m = 0 .. N
      /\ \A j \in free : j \in 0 .. N /\ j \notin seen
      /\ \A k \in seen : k \in 0 .. N
  <2>1. seen = s \cup {a} /\ m \in [0 .. N -> 0 .. Half] /\ Bounded(C, B, y, z, q, m, s, free)
    BY DEF Search
  <2>2. a \in seen /\ DOMAIN m = 0 .. N /\ \A k \in seen : k \in 0 .. N
    BY SearchFree
  <2>3. \A j \in free : j \in 0 .. N /\ j \notin seen
    BY SearchFree
  <2>4. QED
    BY <2>1, <2>2, <2>3, HalfIs
<1>2. \A j \in 0 .. N : least[j] = IF j \in closer THEN L(j) ELSE m[j]
  BY <1>1 DEF Met
<1>3. DOMAIN least = 0 .. N /\ least = [j \in 0 .. N |-> least[j]]
  BY <1>1 DEF Met
<1>4. ASSUME NEW j \in free
      PROVE  /\ L(j) \in Nat
             /\ L(j) < Half => L(j) <= B + Span(z[j])
  BY <1>1, LeftIs
<1>5. \A j \in 0 .. N : m[j] \in 0 .. Half
  BY <1>1
<1>6. \A j \in closer : j \in free /\ L(j) < m[j] /\ j \in 0 .. N
  BY <1>1
<1>7. \A j \in free : j \notin closer => ~(L(j) < m[j])
  OBVIOUS
<1> HIDE DEF L, closer
<1>8. ASSUME NEW j \in 0 .. N PROVE least[j] \in 0 .. Half
  <2>1. CASE j \in closer
    <3>1. L(j) \in Nat /\ L(j) < m[j] /\ m[j] \in 0 .. Half
      BY <1>4, <1>5, <1>6, <2>1
    <3>2. L(j) \in 0 .. Half
      BY <1>1, <3>1
    <3>3. QED
      BY <1>2, <2>1, <3>2
  <2>2. CASE j \notin closer
    BY <1>2, <1>5, <2>2
  <2>3. QED
    BY <2>1, <2>2
<1>9. least \in [0 .. N -> 0 .. Half]
  BY <1>3, <1>8
<1>10. ASSUME NEW j \in free
       PROVE  /\ least[j] = Half \/ least[j] <= B + Span(z[j])
              /\ \A k \in seen : least[j] <= Left(C, y, z, q[k], j)
              /\ least[j] <= m[j]
  <2>1. /\ m[j] \in 0 .. Half /\ (m[j] = Half \/ m[j] <= B + Span(z[j]))
        /\ \A k \in s : m[j] <= Left(C, y, z, q[k], j)
    BY <1>1, <1>5 DEF Bounded
  <2>2. L(j) \in Nat /\ (L(j) < Half => L(j) <= B + Span(z[j])) /\ L(j) = Left(C, y, z, q[a], j)
    BY <1>4 DEF L
  <2>3. \A k \in s : Left(C, y, z, q[k], j) \in Nat
    BY <1>1, LeftIs
  <2>4. CASE j \in closer
    <3>1. least[j] = L(j) /\ L(j) < m[j]
      BY <1>1, <1>2, <1>6, <2>4
    <3>2. L(j) < Half
      BY <1>1, <2>1, <2>2, <3>1
    <3>3. \A k \in s : L(j) <= Left(C, y, z, q[k], j)
      BY <2>1, <2>2, <2>3, <3>1
    <3>4. L(j) <= L(j) /\ L(j) <= m[j]
      BY <2>1, <2>2, <3>1
    <3>5. \A k \in seen : L(j) <= Left(C, y, z, q[k], j)
      BY <1>1, <2>2, <3>3, <3>4
    <3>6. QED
      BY <2>2, <3>1, <3>2, <3>4, <3>5
  <2>5. CASE j \notin closer
    <3>1. least[j] = m[j] /\ ~(L(j) < m[j])
      BY <1>1, <1>2, <1>7, <2>5
    <3>2. m[j] <= L(j) /\ m[j] <= m[j]
      BY <1>1, <2>1, <2>2, <3>1
    <3>3. \A k \in seen : m[j] <= Left(C, y, z, q[k], j)
      BY <1>1, <2>1, <2>2, <3>2
    <3>4. QED
      BY <2>1, <3>1, <3>2, <3>3
  <2>6. QED
    BY <2>4, <2>5
<1>11. \A j \in seen : least[j] = m[j]
  BY <1>1, <1>2, <1>6
<1>12. QED
  BY <1>9, <1>10, <1>11 DEF Bounded

\* A column is closer than Half; none is closer than d.
Fruitful(least, free) == \E j \in free : least[j] # Half
Beyond(d, least, free) == \A j \in free : d <= least[j]

\* A pass finds the closest column, or every free one is at Half.
LEMMA SearchChooses ==
  ASSUME NEW N, NEW B, NEW b, NEW C, NEW y, NEW z, NEW q, NEW m, NEW s, NEW a, NEW seen, NEW free, NEW e,
         Search(N, B, b, C, y, z, q, m, s, a, seen, free, e),
         NEW least \in [0 .. N -> 0 .. Half], Bounded(C, B, y, z, q, least, seen, free),
         NEW best, best = Nearest(Half, least, free)
  PROVE  IF best = {} THEN ~Fruitful(least, free)
         ELSE /\ Min(best) \in free /\ least[Min(best)] < Half /\ least[Min(best)] \in 0 .. (B + b)
              /\ Beyond(least[Min(best)], least, free)
<1> USE DEF Nearest
<1>1. /\ Half \in Nat /\ \A j \in free : j \in 1 .. N /\ j \in 0 .. N
      /\ N \in Nat /\ B \in Nat /\ b \in Nat
  BY HalfIs, SearchFree
<1>2. \A j \in free : least[j] \in 0 .. Half
  BY <1>1
<1>3. CASE best = {}
  <2>1. SUFFICES ASSUME NEW j \in free, least[j] # Half PROVE FALSE
    BY <1>3 DEF Fruitful
  <2>2. PICK l \in free : \A k \in free : least[l] <= least[k]
    BY <1>2, LeastColumn
  <2>3. least[l] <= least[j] /\ least[j] < Half
    BY <1>1, <1>2, <2>1, <2>2
  <2>4. least[l] < Half
    BY <1>1, <1>2, <2>3
  <2>5. l \in best
    BY <2>2, <2>4
  <2>6. QED
    BY <1>3, <2>5
<1>4. CASE best # {}
  <2>1. best \in SUBSET Nat
    BY <1>1
  <2>2. Min(best) \in best
    BY <1>4, <2>1, LeastOf
  <2> DEFINE l == Min(best)
  <2>3. l \in free /\ least[l] < Half /\ \A k \in free : least[l] <= least[k]
    BY <2>2
  <2> HIDE DEF l
  <2>4. least[l] <= B + Span(z[l]) /\ z[l] \in Lowered(b)
    <3>1. least[l] # Half
      BY <1>1, <1>2, <2>3
    <3>2. e \in 1 .. N
      BY DEF Search
    <3>3. l \in 1 .. N
      BY <1>1, <2>3
    <3>4. z[l] \in Lowered(b)
      BY <3>2, <3>3, SearchFree
    <3>5. least[l] <= B + Span(z[l])
      BY <2>3, <3>1 DEF Bounded
    <3>6. QED
      BY <3>4, <3>5
  <2>5. Span(z[l]) <= b /\ Span(z[l]) \in Int
    BY <1>1, <2>4, HalfIs DEF Span, Lowered
  <2>6. least[l] \in 0 .. (B + b)
    BY <1>1, <1>2, <2>3, <2>4, <2>5
  <2>7. QED
    BY <1>4, <2>3, <2>6 DEF l, Beyond
<1>5. QED
  BY <1>3, <1>4


\* Every row is on the path once at most.
LEMMA TimesOnPath ==
  ASSUME NEW q, NEW seen, \A j, k \in seen : q[j] = q[k] => j = k, NEW i
  PROVE  Cardinality({j \in seen : q[j] = i}) = IF \E j \in seen : q[j] = i THEN 1 ELSE 0
<1> DEFINE S == {j \in seen : q[j] = i}
<1>1. CASE \E j \in seen : q[j] = i
  <2>1. PICK j \in seen : q[j] = i
    BY <1>1
  <2>2. S = {j}
    BY <2>1
  <2>3. Cardinality({j}) = 1
    BY FS_Singleton
  <2>4. QED
    BY <1>1, <2>2, <2>3
<1>2. CASE ~ \E j \in seen : q[j] = i
  <2>1. S = {}
    BY <1>2
  <2>2. QED
    BY <1>2, <2>1, FS_EmptySet
<1>3. QED
  BY <1>1, <1>2

\* A difference that is small moves what is small.
Up(x, d) == IF x < Half THEN x + d ELSE x
Down(x, d) == IF x > -Half THEN x - d ELSE x

LEMMA NearMoves ==
  ASSUME NEW b \in Nat, NEW d \in Nat, b + d < Precision
  PROVE  /\ \A x \in Raised(b) : Near(x + d) = Up(x, d) /\ Up(x, d) \in Raised(b + d)
         /\ \A x \in Lowered(b) : Near(x - d) = Down(x, d) /\ Down(x, d) \in Lowered(b + d)
<1> DEFINE h == Half
           F == Forbidden
           P == Precision
<1>1. h \in Nat /\ F = 2 * h /\ P \in Nat /\ P < h /\ b < P /\ d < P /\ b + d < P
  BY HalfIs
<1>2. \A s \in Int : -P < s /\ s < P =>
        Near(s) = s /\ Near(h + s) = h /\ Near(-h + s) = -h /\ Near(F + s) = F /\ Near(-F + s) = -F
  BY NearExact, NearTop
<1>3. /\ \A x \in Raised(b) : x \in 0 .. b \/ x = h \/ x = F
      /\ \A x \in Lowered(b) : x \in -b .. 0 \/ x = -h \/ x = -F
      /\ \A x \in 0 .. (b + d) : x \in Raised(b + d)
      /\ \A x \in -(b + d) .. 0 : x \in Lowered(b + d)
      /\ h \in Raised(b + d) /\ F \in Raised(b + d) /\ -h \in Lowered(b + d) /\ -F \in Lowered(b + d)
  BY DEF Raised, Lowered
<1> HIDE DEF h, F, P
<1>4. ASSUME NEW x \in Raised(b)
      PROVE  Near(x + d) = Up(x, d) /\ Up(x, d) \in Raised(b + d)
  <2>1. CASE x \in 0 .. b
    <3>1. x < h /\ x + d \in 0 .. (b + d) /\ x + d \in Int /\ -P < x + d /\ x + d < P
      BY <1>1, <2>1
    <3>2. Up(x, d) = x + d
      BY <3>1 DEF Up, h
    <3>3. QED
      BY <1>2, <1>3, <3>1, <3>2
  <2>2. CASE x = h \/ x = F
    <3>1. ~(x < h) /\ d \in Int /\ -P < d /\ d < P
      BY <1>1, <2>2
    <3>2. Up(x, d) = x
      BY <3>1 DEF Up, h
    <3>3. QED
      BY <1>2, <1>3, <2>2, <3>1, <3>2
  <2>3. QED
    BY <1>3, <2>1, <2>2
<1>5. ASSUME NEW x \in Lowered(b)
      PROVE  Near(x - d) = Down(x, d) /\ Down(x, d) \in Lowered(b + d)
  <2>1. CASE x \in -b .. 0
    <3>1. x > -h /\ x - d \in -(b + d) .. 0 /\ x - d \in Int /\ -P < x - d /\ x - d < P
      BY <1>1, <2>1
    <3>2. Down(x, d) = x - d
      BY <3>1 DEF Down, h
    <3>3. QED
      BY <1>2, <1>3, <3>1, <3>2
  <2>2. CASE x = -h \/ x = -F
    <3>1. ~(x > -h) /\ -d \in Int /\ -P < -d /\ -d < P /\ x - d = x + (-d)
      BY <1>1, <2>2
    <3>2. Down(x, d) = x
      BY <3>1 DEF Down, h
    <3>3. Near(x + (-d)) = x
      BY <1>2, <2>2, <3>1
    <3>4. QED
      BY <1>3, <2>2, <3>1, <3>2, <3>3
  <2>3. QED
    BY <1>3, <2>1, <2>2
<1>6. QED
  BY <1>4, <1>5

\* Half moves what is small to Half and that to Forbidden.
Jump(x) == IF x < Half THEN Half ELSE Forbidden
Drop(x) == IF x > -Half THEN -Half ELSE -Forbidden

LEMMA NearJumps ==
  ASSUME NEW b \in Nat, b < Precision
  PROVE  /\ \A x \in Raised(b) : x # Forbidden => Near(x + Half) = Jump(x)
         /\ \A x \in Lowered(b) : x # -Forbidden => Near(x - Half) = Drop(x)
         /\ Near(Half - Half) = 0
<1> DEFINE h == Half
           F == Forbidden
           P == Precision
<1>1. h \in Nat /\ F = 2 * h /\ P \in Nat /\ P < h /\ b < P
  BY HalfIs
<1>2. \A s \in Int : -P < s /\ s < P =>
        Near(s) = s /\ Near(h + s) = h /\ Near(-h + s) = -h /\ Near(F + s) = F /\ Near(-F + s) = -F
  BY NearExact, NearTop
<1>3. /\ \A x \in Raised(b) : x \in 0 .. b \/ x = h \/ x = F
      /\ \A x \in Lowered(b) : x \in -b .. 0 \/ x = -h \/ x = -F
  BY DEF Raised, Lowered
<1> HIDE DEF h, F, P
<1>4. ASSUME NEW x \in Raised(b), x # F PROVE Near(x + h) = Jump(x)
  <2>1. CASE x \in 0 .. b
    <3>1. x < h /\ x + h = h + x /\ x \in Int /\ -P < x /\ x < P
      BY <1>1, <2>1
    <3>2. QED
      BY <1>2, <3>1 DEF Jump, h
  <2>2. CASE x = h
    <3>1. ~(x < h) /\ x + h = F + 0 /\ -P < 0 /\ 0 < P
      BY <1>1, <2>2
    <3>2. Near(F + 0) = F
      BY <1>2, <3>1
    <3>3. QED
      BY <3>1, <3>2 DEF Jump, h, F
  <2>3. QED
    BY <1>3, <1>4, <2>1, <2>2
<1>5. ASSUME NEW x \in Lowered(b), x # -F PROVE Near(x - h) = Drop(x)
  <2>1. CASE x \in -b .. 0
    <3>1. x > -h /\ x - h = -h + x /\ x \in Int /\ -P < x /\ x < P
      BY <1>1, <2>1
    <3>2. QED
      BY <1>2, <3>1 DEF Drop, h
  <2>2. CASE x = -h
    <3>1. ~(x > -h) /\ x - h = -F + 0 /\ -P < 0 /\ 0 < P
      BY <1>1, <2>2
    <3>2. Near(-F + 0) = -F
      BY <1>2, <3>1
    <3>3. QED
      BY <3>1, <3>2 DEF Drop, h, F
  <2>3. QED
    BY <1>3, <1>5, <2>1, <2>2
<1>6. Near(h - h) = 0
  <2>1. h - h = 0 /\ -P < 0 /\ 0 < P
    BY <1>1
  <2>2. QED
    BY <1>2, <2>1
<1>7. QED
  BY <1>4, <1>5, <1>6 DEF h, F

\* What a pass that found a column does to a pair, its row or column met or not.
LEMMA PairMoves ==
  ASSUME NEW B \in Nat, NEW b \in Nat, B + 2 * b < Precision, NEW c \in (0 .. B) \cup {Forbidden},
         NEW x \in Raised(b), NEW t \in Lowered(b), x + t <= c, NEW d \in 0 .. (B + b)
  PROVE  /\ Up(x, d) + Down(t, d) <= c /\ x + Down(t, d) <= c
         /\ d <= Uncovered(c, x, t) => Up(x, d) + t <= c
         /\ \A l \in 0 .. Half : d <= l /\ l <= Uncovered(c, x, t) =>
              (IF l = Half THEN Half ELSE l - d) <= Uncovered(c, Up(x, d), t)
<1> DEFINE h == Half
           F == Forbidden
           P == Precision
           r == Uncovered(c, x, t)
           x2 == Up(x, d)
           t2 == Down(t, d)
           r2 == Uncovered(c, x2, t)
<1>1. h \in Nat /\ F = 2 * h /\ P \in Nat /\ P < h /\ b < P /\ B + b < P /\ B + 2 * b < P /\ b + d < P /\ d \in Nat
  BY HalfIs
<1>2. /\ c = F \/ c \in 0 .. B
      /\ x = h \/ x = F \/ x \in 0 .. b
      /\ t = -h \/ t = -F \/ t \in -b .. 0
      /\ x + t <= c /\ d <= B + b
  BY DEF Raised, Lowered
<1>3. x2 \in Raised(b + d) /\ x2 = (IF x < h THEN x + d ELSE x) /\ t2 = (IF t > -h THEN t - d ELSE t)
  BY <1>1, NearMoves DEF Up, Down, h
<1>4. /\ r \in Nat
      /\ c < h /\ x < h /\ t > -h => r = c - x - t
      /\ c < h /\ x >= h /\ x = -t => r = 0
      /\ c > h /\ x > h /\ t > -h => r = -t
  BY <1>1, UncoveredIs DEF h
<1> HIDE DEF h, F, P, r, t2
<1>5. x2 + t2 <= c /\ x + t2 <= c
  BY <1>1, <1>2, <1>3
<1>6. ASSUME d <= r PROVE x2 + t <= c
  <2>1. CASE x < h /\ t > -h /\ c < h
    <3>1. r = c - x - t /\ x2 = x + d
      BY <1>3, <1>4, <2>1
    <3>2. QED
      BY <1>1, <1>2, <1>6, <2>1, <3>1
  <2>2. CASE ~(x < h /\ t > -h /\ c < h)
    BY <1>1, <1>2, <1>3, <2>2
  <2>3. QED
    BY <2>1, <2>2
<1>7. ASSUME d <= r
      PROVE  /\ r2 \in Nat
             /\ c < h /\ x2 < h /\ t > -h => r2 = c - x2 - t
             /\ c < h /\ x2 >= h /\ x2 = -t => r2 = 0
             /\ c > h /\ x2 > h /\ t > -h => r2 = -t
             /\ r2 < h => \/ c < h /\ x2 < h /\ t > -h
                          \/ c < h /\ x2 >= h /\ x2 = -t
                          \/ c > h /\ x2 > h /\ t > -h
  <2>1. b + d \in Nat /\ b + d < Precision /\ B + b < Precision
    BY <1>1 DEF P
  <2>2. x2 + t <= c
    BY <1>6, <1>7
  <2>3. x2 \in Raised(b + d)
    BY <1>3
  <2> HIDE DEF x2
  <2>4. QED
    BY <2>1, <2>2, <2>3, UncoveredIs DEF h, r2
<1>8. ASSUME NEW l \in 0 .. h, d <= l, l <= r
      PROVE  (IF l = h THEN h ELSE l - d) <= r2
  <2>1. l \in Nat /\ l <= h /\ d <= r
    BY <1>1, <1>4, <1>8
  <2>2. r2 \in Nat
    BY <1>7, <2>1
  <2>3. CASE ~(r2 < h)
    BY <1>1, <1>8, <2>1, <2>2, <2>3
  <2>4. CASE c < h /\ x2 < h /\ t > -h
    <3>1. r2 = c - x2 - t
      BY <1>7, <2>1, <2>4
    <3>2. x < h /\ x2 = x + d
      BY <1>1, <1>2, <1>3, <2>4
    <3>3. r = c - x - t
      BY <1>4, <2>4, <3>2
    <3>4. c \in 0 .. B /\ t \in -b .. 0 /\ x \in 0 .. b
      BY <1>1, <1>2, <2>4, <3>2
    <3>5. l # h
      BY <1>1, <1>8, <3>3, <3>4
    <3> HIDE DEF x2, r2
    <3>6. QED
      BY <1>1, <1>8, <2>1, <3>1, <3>2, <3>3, <3>4, <3>5
  <2>5. CASE c < h /\ x2 >= h /\ x2 = -t
    <3>1. r2 = 0
      BY <1>7, <2>1, <2>5
    <3>2. x2 = x
      BY <1>1, <1>2, <1>3, <2>5
    <3>3. r = 0
      BY <1>4, <2>5, <3>2
    <3> HIDE DEF x2, r2
    <3>4. QED
      BY <1>1, <1>8, <2>1, <3>1, <3>3
  <2>6. CASE c > h /\ x2 > h /\ t > -h
    <3>1. r2 = -t
      BY <1>7, <2>1, <2>6
    <3>2. x2 = x
      BY <1>1, <1>2, <1>3, <2>6
    <3>3. r = -t /\ t \in -b .. 0
      BY <1>1, <1>2, <1>4, <2>6, <3>2
    <3> HIDE DEF x2, r2
    <3>4. QED
      BY <1>1, <1>8, <2>1, <3>1, <3>3
  <2>7. QED
    BY <1>7, <2>1, <2>3, <2>4, <2>5, <2>6
<1>9. QED
  BY <1>5, <1>6, <1>8 DEF h, r, t2

\* What a pass that found none does to it.
LEMMA PairJumps ==
  ASSUME NEW B \in Nat, NEW b \in Nat, B + b < Precision, NEW c \in (0 .. B) \cup {Forbidden},
         NEW x \in Raised(b), NEW t \in Lowered(b), x + t <= c
  PROVE  /\ x # Forbidden /\ t # -Forbidden => Jump(x) + Drop(t) <= c
         /\ t # -Forbidden => x + Drop(t) <= c
         /\ x # Forbidden /\ Half <= Uncovered(c, x, t) => Jump(x) + t <= c
<1> DEFINE h == Half
           F == Forbidden
           P == Precision
           r == Uncovered(c, x, t)
<1>1. h \in Nat /\ F = 2 * h /\ P \in Nat /\ P < h /\ b < P /\ B + b < P
  BY HalfIs
<1>2. /\ c = F \/ c \in 0 .. B
      /\ x = h \/ x = F \/ x \in 0 .. b
      /\ t = -h \/ t = -F \/ t \in -b .. 0
      /\ x + t <= c
  BY DEF Raised, Lowered
<1>3. Jump(x) = (IF x < h THEN h ELSE F) /\ Drop(t) = (IF t > -h THEN -h ELSE -F)
  BY DEF Jump, Drop
<1>4. /\ r \in Nat
      /\ c < h /\ x < h /\ t > -h => r = c - x - t
      /\ c < h /\ x >= h /\ x = -t => r = 0
  <2>1. b < Precision
    BY <1>1
  <2>2. QED
    BY <2>1, UncoveredIs DEF h
<1> DEFINE x2 == Jump(x)
           t2 == Drop(t)
<1>5. x2 = (IF x < h THEN h ELSE F) /\ t2 = (IF t > -h THEN -h ELSE -F)
  BY <1>3
<1> HIDE DEF h, F, P, r, x2, t2
<1>6. x # F /\ t # -F => x2 + t2 <= c
  BY <1>1, <1>2, <1>5
<1>7. t # -F => x + t2 <= c
  BY <1>1, <1>2, <1>5
<1>8. ASSUME x # F, h <= r PROVE x2 + t <= c
  <2>1. CASE c = F
    BY <1>1, <1>2, <1>5, <2>1
  <2>2. CASE c \in 0 .. B /\ x \in 0 .. b
    <3>1. c < h /\ x < h
      BY <1>1, <2>2
    <3>2. CASE t \in -b .. 0
      <4>1. t > -h
        BY <1>1, <3>2
      <4>2. r = c - x - t
        BY <1>4, <3>1, <4>1
      <4>3. QED
        BY <1>1, <1>8, <2>2, <3>2, <4>2
    <3>3. CASE t = -h \/ t = -F
      BY <1>1, <1>5, <2>2, <3>1, <3>3
    <3>4. QED
      BY <1>2, <3>2, <3>3
  <2>3. CASE c \in 0 .. B /\ x = h
    <3>1. c < h /\ x >= h /\ ~(x < h)
      BY <1>1, <2>3
    <3>2. t # -h
      <4>1. ASSUME t = -h PROVE FALSE
        <5>1. x = -t
          BY <1>1, <2>3, <4>1
        <5>2. r = 0
          BY <1>4, <3>1, <5>1
        <5>3. QED
          BY <1>1, <1>8, <5>2
      <4>2. QED
        BY <4>1
    <3>3. t = -F
      BY <1>1, <1>2, <2>3, <3>2
    <3>4. QED
      BY <1>1, <1>5, <2>3, <3>1, <3>3
  <2>4. QED
    BY <1>2, <1>8, <2>1, <2>2, <2>3
<1>9. QED
  BY <1>6, <1>7, <1>8 DEF h, F, r, x2, t2


Known(N, B, b, C, y, z, q, seen, free) ==
  /\ B \in Nat /\ b \in Nat /\ B + b < Precision /\ B + 2 * b < Precision
  /\ \A k \in seen : k \in 0 .. N /\ q[k] \in 1 .. N
  /\ \A j \in free : j \in 1 .. N /\ j \in 0 .. N /\ j \notin seen
  /\ \A i, j \in 1 .. N : /\ C[i][j] \in (0 .. B) \cup {Forbidden} /\ y[i] \in Raised(b)
                          /\ z[j] \in Lowered(b) /\ y[i] + z[j] <= C[i][j]

LEMMA SearchKnown ==
  ASSUME NEW N, NEW B, NEW b, NEW C, NEW y, NEW z, NEW q, NEW m, NEW s, NEW a, NEW seen, NEW free, NEW e,
         Search(N, B, b, C, y, z, q, m, s, a, seen, free, e)
  PROVE  Known(N, B, b, C, y, z, q, seen, free)
BY SearchFree DEF Known

\* The potentials after a pass, one by one.
Changed(N, y, z, q, seen, least, d, y2, z2, m2) ==
  /\ DOMAIN y2 = 0 .. N /\ DOMAIN z2 = 0 .. N
  /\ \A S : (\A j \in 0 .. N : m2[j] \in S) => m2 \in [0 .. N -> S]
  /\ \A i \in 1 .. N : y2[i] = IF \E k \in seen : q[k] = i THEN Near(y[i] + d) ELSE y[i]
  /\ \A j \in 1 .. N : z2[j] = IF j \in seen THEN Near(z[j] - d) ELSE z[j]
  /\ \A j \in 0 .. N : m2[j] = IF j \in seen THEN least[j] ELSE Near(least[j] - d)

LEMMA SearchShifts ==
  ASSUME NEW N, NEW B, NEW b, NEW C, NEW y, NEW z, NEW q, NEW m, NEW s, NEW a, NEW seen, NEW free, NEW e,
         Search(N, B, b, C, y, z, q, m, s, a, seen, free, e),
         NEW least, NEW d \in Nat, NEW y2, NEW z2, NEW m2, Shifted(y, z, q, m, seen, least, d, y2, z2, m2)
  PROVE  Changed(N, y, z, q, seen, least, d, y2, z2, m2) /\ \A j \in 0 .. N : j \in seen \/ j \in free
<1>1. N \in Nat /\ DOMAIN y = 0 .. N /\ DOMAIN z = 0 .. N /\ DOMAIN m = 0 .. N
  BY SearchFree
<1>2. /\ y2 = [i \in 0 .. N |-> Near(y[i] + d * Cardinality({j \in seen : q[j] = i}))]
      /\ z2 = [j \in 0 .. N |-> IF j \in seen THEN Near(z[j] - d) ELSE z[j]]
      /\ m2 = [j \in 0 .. N |-> IF j \in seen THEN least[j] ELSE Near(least[j] - d)]
  BY <1>1 DEF Shifted
<1>3. \A i \in 1 .. N : i \in 0 .. N
  BY <1>1
<1>4. /\ DOMAIN y2 = 0 .. N /\ DOMAIN z2 = 0 .. N
      /\ \A S : (\A j \in 0 .. N : m2[j] \in S) => m2 \in [0 .. N -> S]
  BY <1>2
<1>5. /\ \A j \in 1 .. N : z2[j] = IF j \in seen THEN Near(z[j] - d) ELSE z[j]
      /\ \A j \in 0 .. N : m2[j] = IF j \in seen THEN least[j] ELSE Near(least[j] - d)
  BY <1>2, <1>3
<1>6. ASSUME NEW i \in 1 .. N
      PROVE  y2[i] = IF \E k \in seen : q[k] = i THEN Near(y[i] + d) ELSE y[i]
  <2> DEFINE c == Cardinality({j \in seen : q[j] = i})
             t == y[i]
  <2>1. \A j, k \in seen : q[j] = q[k] => j = k
    <3>1. \A j, k \in 0 .. N : q[j] = q[k] /\ q[j] # 0 => j = k
      BY DEF Search
    <3>2. \A k \in seen : k \in 0 .. N /\ q[k] # 0
      BY SearchFree
    <3>3. QED
      BY <3>1, <3>2
  <2>2. c = IF \E j \in seen : q[j] = i THEN 1 ELSE 0
    BY <2>1, TimesOnPath
  <2>3. y2[i] = Near(t + d * c) /\ i \in 0 .. N
    BY <1>2, <1>3
  <2>4. t \in Raised(b) /\ b \in Nat /\ b + 0 < Precision
    BY SearchFree, HalfIs
  <2>5. Near(t + 0) = t /\ t \in Int
    <3>1. Near(t + 0) = Up(t, 0)
      BY <2>4, NearMoves
    <3>2. t \in Int
      BY <2>4, HalfIs DEF Raised
    <3>3. Up(t, 0) = t
      BY <3>2 DEF Up
    <3>4. QED
      BY <3>1, <3>2, <3>3
  <2> HIDE DEF c, t
  <2>6. CASE \E j \in seen : q[j] = i
    <3>1. t + d * c = t + d
      BY <2>2, <2>5, <2>6
    <3>2. QED
      BY <2>3, <2>6, <3>1 DEF t
  <2>7. CASE ~ \E j \in seen : q[j] = i
    <3>1. t + d * c = t + 0
      BY <2>2, <2>5, <2>7
    <3>2. QED
      BY <2>3, <2>5, <2>7, <3>1 DEF t
  <2>8. QED
    BY <2>6, <2>7
<1>7. \A j \in 0 .. N : j \in seen \/ j \in free
  <2>1. \A j \in 0 .. N : j = 0 \/ j \in 1 .. N
    BY <1>1
  <2>2. free = (1 .. N) \ seen /\ 0 \in seen
    BY DEF Search
  <2>3. QED
    BY <2>1, <2>2
<1>8. QED
  BY <1>4, <1>5, <1>6, <1>7 DEF Changed

\* What a pass that found a column makes of them.
Climbed(N, y, z, q, seen, free, least, d, y2, z2, m2) ==
  /\ \A i \in 1 .. N : y2[i] = IF \E k \in seen : q[k] = i THEN Up(y[i], d) ELSE y[i]
  /\ \A j \in 1 .. N : z2[j] = IF j \in seen THEN Down(z[j], d) ELSE z[j]
  /\ \A j \in free : m2[j] = IF least[j] = Half THEN Half ELSE least[j] - d

\* A pass that found a column keeps the potentials below the costs, and minVal
\* below what is left.
LEMMA SearchMoves ==
  ASSUME NEW N, NEW B, NEW b, NEW C, NEW y, NEW z, NEW q, NEW m, NEW s, NEW a, NEW seen, NEW free, NEW e,
         Search(N, B, b, C, y, z, q, m, s, a, seen, free, e),
         NEW least \in [0 .. N -> 0 .. Half], Bounded(C, B, y, z, q, least, seen, free),
         NEW d \in 0 .. (B + b), Beyond(d, least, free),
         NEW y2, NEW z2, NEW m2, Shifted(y, z, q, m, seen, least, d, y2, z2, m2)
  PROVE  /\ Prices(C, N, Precision - 1, y2, z2) /\ m2 \in [0 .. N -> 0 .. Half]
         /\ Bounded(C, B, y2, z2, q, m2, seen, free)
         /\ Climbed(N, y, z, q, seen, free, least, d, y2, z2, m2)
<1>1. /\ B \in Nat /\ b \in Nat /\ B + b < Precision /\ B + 2 * b < Precision
      /\ \A k \in seen : k \in 0 .. N /\ q[k] \in 1 .. N
      /\ \A j \in free : j \in 1 .. N /\ j \in 0 .. N /\ j \notin seen
      /\ \A i, j \in 1 .. N : /\ C[i][j] \in (0 .. B) \cup {Forbidden} /\ y[i] \in Raised(b)
                              /\ z[j] \in Lowered(b) /\ y[i] + z[j] <= C[i][j]
  <2>1. Known(N, B, b, C, y, z, q, seen, free)
    BY SearchKnown
  <2>2. QED
    BY <2>1 DEF Known
<1>2. /\ Half \in Nat /\ Forbidden = 2 * Half /\ Precision \in Nat /\ Precision < Half
      /\ d \in Nat /\ d <= B + b /\ b + d < Precision
  BY <1>1, HalfIs
<1>3. /\ DOMAIN y2 = 0 .. N /\ DOMAIN z2 = 0 .. N
      /\ \A S : (\A j \in 0 .. N : m2[j] \in S) => m2 \in [0 .. N -> S]
      /\ \A i \in 1 .. N : y2[i] = IF \E k \in seen : q[k] = i THEN Near(y[i] + d) ELSE y[i]
      /\ \A j \in 1 .. N : z2[j] = IF j \in seen THEN Near(z[j] - d) ELSE z[j]
      /\ \A j \in 0 .. N : m2[j] = IF j \in seen THEN least[j] ELSE Near(least[j] - d)
      /\ \A j \in 0 .. N : j \in seen \/ j \in free
  <2>1. d \in Nat
    BY <1>2
  <2>2. Changed(N, y, z, q, seen, least, d, y2, z2, m2) /\ \A j \in 0 .. N : j \in seen \/ j \in free
    BY <2>1, SearchShifts
  <2>3. QED
    BY <2>2 DEF Changed
<1>4. /\ \A x \in Raised(b) : Near(x + d) = Up(x, d) /\ Up(x, d) \in Raised(b + d)
      /\ \A x \in Lowered(b) : Near(x - d) = Down(x, d) /\ Down(x, d) \in Lowered(b + d)
  BY <1>1, <1>2, NearMoves
<1>5. /\ \A i \in 1 .. N : y2[i] = IF \E k \in seen : q[k] = i THEN Up(y[i], d) ELSE y[i]
      /\ \A j \in 1 .. N : z2[j] = IF j \in seen THEN Down(z[j], d) ELSE z[j]
  BY <1>1, <1>3, <1>4
<1>6. ASSUME NEW j \in free
      PROVE  m2[j] = (IF least[j] = Half THEN Half ELSE least[j] - d) /\ m2[j] \in 0 .. Half
  <2> DEFINE l == least[j]
  <2>1. l \in 0 .. Half /\ d <= l /\ m2[j] = Near(l - d)
    BY <1>1, <1>3 DEF Beyond
  <2>2. l = Half \/ l <= B + b
    <3>1. l = Half \/ l <= B + Span(z[j])
      BY DEF Bounded
    <3>2. z[j] \in Lowered(b)
      BY <1>1
    <3>3. Span(z[j]) \in Int /\ Span(z[j]) <= b
      BY <1>1, <1>2, <3>2 DEF Span, Lowered
    <3>4. QED
      BY <1>1, <2>1, <3>1, <3>3
  <2> HIDE DEF l
  <2>3. CASE l = Half
    <3>1. l - d = Half + (-d) /\ -d \in Int /\ -Precision < -d /\ -d < Precision
      BY <1>1, <1>2, <2>3
    <3>2. Near(Half + (-d)) = Half
      BY <3>1, NearTop
    <3>3. QED
      BY <1>2, <2>1, <2>3, <3>1, <3>2 DEF l
  <2>4. CASE l # Half
    <3>1. l - d \in Int /\ -Precision < l - d /\ l - d < Precision /\ l - d \in 0 .. Half
      BY <1>1, <1>2, <2>1, <2>2, <2>4
    <3>2. Near(l - d) = l - d
      BY <3>1, NearExact
    <3>3. QED
      BY <2>1, <2>4, <3>1, <3>2 DEF l
  <2>5. QED
    BY <2>3, <2>4
<1>7. m2 \in [0 .. N -> 0 .. Half]
  <2>1. \A j \in 0 .. N : m2[j] \in 0 .. Half
    BY <1>3, <1>6
  <2>2. QED
    BY <1>3, <2>1
<1>8. /\ \A x \in Raised(b) : x \in Raised(Precision - 1)
      /\ \A x \in Raised(b + d) : x \in Raised(Precision - 1)
      /\ \A x \in Lowered(b) : x \in Lowered(Precision - 1)
      /\ \A x \in Lowered(b + d) : x \in Lowered(Precision - 1)
  BY <1>1, <1>2 DEF Raised, Lowered
<1>9. ASSUME NEW i \in 1 .. N
      PROVE  y2[i] \in Raised(Precision - 1) /\ z2[i] \in Lowered(Precision - 1)
  <2>1. y[i] \in Raised(b) /\ z[i] \in Lowered(b)
    BY <1>1
  <2>2. y2[i] \in {y[i], Up(y[i], d)} /\ z2[i] \in {z[i], Down(z[i], d)}
    BY <1>5, Zenon
  <2>3. QED
    BY <1>4, <1>8, <2>1, <2>2, Zenon
<1>10. ASSUME NEW i \in 1 .. N, NEW j \in 1 .. N
       PROVE  y2[i] + z2[j] <= C[i][j]
  <2> DEFINE c == C[i][j]
             x == y[i]
             t == z[j]
  <2>1. c \in (0 .. B) \cup {Forbidden} /\ x \in Raised(b) /\ t \in Lowered(b) /\ x + t <= c
    BY <1>1
  <2>2. /\ Up(x, d) + Down(t, d) <= c /\ x + Down(t, d) <= c
        /\ d <= Uncovered(c, x, t) => Up(x, d) + t <= c
    <3> HIDE DEF c, x, t
    <3>1. QED
      BY <1>1, <2>1, PairMoves
  <2>3. CASE j \in seen
    BY <1>5, <2>2, <2>3
  <2>4. CASE j \notin seen /\ \E k \in seen : q[k] = i
    <3>1. PICK k \in seen : q[k] = i
      BY <2>4
    <3>2. j \in free
      <4>1. j \in 0 .. N
        BY SearchFree
      <4>2. QED
        BY <1>3, <2>4, <4>1
    <3>3. least[j] <= Left(C, y, z, i, j) /\ d <= least[j]
      BY <3>1, <3>2 DEF Bounded, Beyond
    <3>4. least[j] \in Int /\ Left(C, y, z, i, j) \in Nat
      <4>1. least[j] \in 0 .. Half
        BY <1>1, <3>2
      <4>2. QED
        BY <1>2, <3>1, <3>2, <4>1, LeftIs
    <3>5. d <= Left(C, y, z, i, j)
      BY <1>2, <3>3, <3>4
    <3>6. d <= Uncovered(c, x, t)
      BY <3>5 DEF Left
    <3>7. QED
      BY <1>5, <2>2, <2>4, <3>6
  <2>5. CASE j \notin seen /\ ~ \E k \in seen : q[k] = i
    BY <1>5, <2>1, <2>5
  <2>6. QED
    BY <2>3, <2>4, <2>5
<1>11. Prices(C, N, Precision - 1, y2, z2)
  BY <1>3, <1>9, <1>10 DEF Prices
<1>12. ASSUME NEW j \in free
       PROVE  /\ m2[j] = Half \/ m2[j] <= B + Span(z2[j])
              /\ \A k \in seen : m2[j] <= Left(C, y2, z2, q[k], j)
  <2> DEFINE l == least[j]
  <2>1. /\ l \in 0 .. Half /\ d <= l /\ z2[j] = z[j] /\ (l = Half \/ l <= B + Span(z[j]))
        /\ m2[j] = IF l = Half THEN Half ELSE l - d
    BY <1>1, <1>5, <1>6 DEF Bounded, Beyond
  <2>2. Span(z[j]) \in Int
    <3>1. z[j] \in Lowered(b)
      BY <1>1
    <3>2. \A x \in Lowered(b) : Span(x) \in Int
      BY <1>1, <1>2 DEF Span, Lowered
    <3>3. QED
      BY <3>1, <3>2
  <2>3. m2[j] = Half \/ m2[j] <= B + Span(z2[j])
    <3> DEFINE t == Span(z[j])
    <3> HIDE DEF l, t
    <3>1. l # Half => l - d <= B + t
      BY <1>1, <1>2, <2>1, <2>2 DEF t
    <3>2. QED
      BY <2>1, <3>1 DEF t
  <2>4. ASSUME NEW k \in seen PROVE m2[j] <= Left(C, y2, z2, q[k], j)
    <3> DEFINE i == q[k]
               c == C[i][j]
               x == y[i]
               t == z[j]
    <3>1. /\ c \in (0 .. B) \cup {Forbidden} /\ x \in Raised(b) /\ t \in Lowered(b) /\ x + t <= c
          /\ i \in 1 .. N
      BY <1>1
    <3>2. y2[i] = Up(x, d)
      BY <1>5, <3>1
    <3>3. l <= Uncovered(c, x, t)
      BY DEF Bounded, Left
    <3>4. Left(C, y2, z2, q[k], j) = Uncovered(c, Up(x, d), t)
      BY <2>1, <3>2 DEF Left
    <3>5. (IF l = Half THEN Half ELSE l - d) <= Uncovered(c, Up(x, d), t)
      <4> HIDE DEF c, x, t, i, l
      <4>1. QED
        BY <1>1, <2>1, <3>1, <3>3, PairMoves
    <3>6. QED
      BY <2>1, <3>4, <3>5
  <2>5. QED
    BY <2>3, <2>4
<1>13. QED
  BY <1>5, <1>6, <1>7, <1>11, <1>12 DEF Bounded, Climbed


\* A row on the path has Forbidden.
Exhausted(y, q, s) == \E k \in s : y[q[k]] = Forbidden

\* Nothing is left of a pair with a row that has Forbidden and a column without
\* any row: where a pass finds no column, no row on the path has Forbidden.
LEMMA NoneForbidden ==
  ASSUME NEW N, NEW B, NEW b, NEW C, NEW y, NEW z, NEW q, NEW m, NEW s, NEW a, NEW seen, NEW free, NEW e,
         Search(N, B, b, C, y, z, q, m, s, a, seen, free, e),
         NEW least, Bounded(C, B, y, z, q, least, seen, free), ~Fruitful(least, free)
  PROVE  ~Exhausted(y, q, seen)
<1> SUFFICES ASSUME NEW k \in seen, y[q[k]] = Forbidden PROVE FALSE
  BY DEF Exhausted
<1>1. e \in free /\ z[e] = 0
  <2>1. z[e] = 0
    BY DEF Search
  <2>2. QED
    BY <2>1, SearchFree
<1>2. Left(C, y, z, q[k], e) = 0
  BY <1>1, LeftIs
<1>3. Half <= 0
  BY <1>1, <1>2 DEF Bounded, Fruitful
<1>4. QED
  BY <1>3, HalfIs

\* What a pass that found none makes of the potentials.
Jumped(N, y, z, q, seen, free, y2, z2, m2) ==
  /\ \A i \in 1 .. N : y2[i] = IF \E k \in seen : q[k] = i THEN Jump(y[i]) ELSE y[i]
  /\ \A j \in 1 .. N : z2[j] = IF j \in seen THEN Drop(z[j]) ELSE z[j]
  /\ \A j \in free : m2[j] = 0

\* A pass that found none moves the path to Half and back, and minVal to 0.
LEMMA SearchJumps ==
  ASSUME NEW N, NEW B, NEW b, NEW C, NEW y, NEW z, NEW q, NEW m, NEW s, NEW a, NEW seen, NEW free, NEW e,
         Search(N, B, b, C, y, z, q, m, s, a, seen, free, e),
         NEW least \in [0 .. N -> 0 .. Half], Bounded(C, B, y, z, q, least, seen, free),
         ~Fruitful(least, free), \A k \in seen : k # 0 => z[k] # -Forbidden,
         NEW y2, NEW z2, NEW m2, Shifted(y, z, q, m, seen, least, Half, y2, z2, m2)
  PROVE  /\ Prices(C, N, Precision - 1, y2, z2) /\ m2 \in [0 .. N -> 0 .. Half]
         /\ Bounded(C, B, y2, z2, q, m2, seen, free)
         /\ Jumped(N, y, z, q, seen, free, y2, z2, m2)
<1>1. /\ B \in Nat /\ b \in Nat /\ B + b < Precision
      /\ \A k \in seen : k \in 0 .. N /\ q[k] \in 1 .. N
      /\ \A j \in free : j \in 1 .. N /\ j \in 0 .. N /\ j \notin seen
      /\ \A i, j \in 1 .. N : /\ C[i][j] \in (0 .. B) \cup {Forbidden} /\ y[i] \in Raised(b)
                              /\ z[j] \in Lowered(b) /\ y[i] + z[j] <= C[i][j]
  <2>1. Known(N, B, b, C, y, z, q, seen, free)
    BY SearchKnown
  <2>2. QED
    BY <2>1 DEF Known
<1>2. Half \in Nat /\ Forbidden = 2 * Half /\ Precision \in Nat /\ Precision < Half /\ b < Precision /\ N \in Nat
  BY <1>1, HalfIs, SearchFree
<1>3. /\ DOMAIN y2 = 0 .. N /\ DOMAIN z2 = 0 .. N
      /\ \A S : (\A j \in 0 .. N : m2[j] \in S) => m2 \in [0 .. N -> S]
      /\ \A i \in 1 .. N : y2[i] = IF \E k \in seen : q[k] = i THEN Near(y[i] + Half) ELSE y[i]
      /\ \A j \in 1 .. N : z2[j] = IF j \in seen THEN Near(z[j] - Half) ELSE z[j]
      /\ \A j \in 0 .. N : m2[j] = IF j \in seen THEN least[j] ELSE Near(least[j] - Half)
      /\ \A j \in 0 .. N : j \in seen \/ j \in free
  <2>1. Half \in Nat
    BY <1>2
  <2>2. Changed(N, y, z, q, seen, least, Half, y2, z2, m2) /\ \A j \in 0 .. N : j \in seen \/ j \in free
    BY <2>1, SearchShifts
  <2>3. QED
    BY <2>2 DEF Changed
<1>4. /\ \A x \in Raised(b) : x # Forbidden => Near(x + Half) = Jump(x)
      /\ \A x \in Lowered(b) : x # -Forbidden => Near(x - Half) = Drop(x)
      /\ Near(Half - Half) = 0
  BY <1>1, <1>2, NearJumps
<1>5. \A k \in seen : y[q[k]] # Forbidden
  <2>1. ~Exhausted(y, q, seen)
    BY NoneForbidden
  <2>2. QED
    BY <2>1 DEF Exhausted
<1>6. \A i \in 1 .. N : y2[i] = IF \E k \in seen : q[k] = i THEN Jump(y[i]) ELSE y[i]
  <2>1. ASSUME NEW i \in 1 .. N, NEW k \in seen, q[k] = i PROVE Near(y[i] + Half) = Jump(y[i])
    BY <1>1, <1>4, <1>5, <2>1
  <2>2. QED
    BY <1>3, <2>1
<1>7. \A j \in 1 .. N : z2[j] = IF j \in seen THEN Drop(z[j]) ELSE z[j]
  <2>1. \A j \in 1 .. N : j # 0
    BY <1>2
  <2>2. QED
    BY <1>1, <1>3, <1>4, <2>1
<1>8. \A j \in free : m2[j] = 0
  BY <1>1, <1>3, <1>4 DEF Fruitful
<1>9. m2 \in [0 .. N -> 0 .. Half]
  <2>1. \A j \in 0 .. N : m2[j] \in 0 .. Half
    BY <1>2, <1>3, <1>8
  <2>2. QED
    BY <1>3, <2>1
<1>10. \A i \in 1 .. N : y2[i] \in Raised(Precision - 1) /\ z2[i] \in Lowered(Precision - 1)
  <2>1. /\ \A x \in Raised(b) : x \in Raised(Precision - 1) /\ Jump(x) \in Raised(Precision - 1)
        /\ \A x \in Lowered(b) : x \in Lowered(Precision - 1) /\ Drop(x) \in Lowered(Precision - 1)
    BY <1>1, <1>2 DEF Raised, Lowered, Jump, Drop
  <2>2. QED
    BY <1>1, <1>6, <1>7, <2>1
<1>11. ASSUME NEW i \in 1 .. N, NEW j \in 1 .. N
       PROVE  y2[i] + z2[j] <= C[i][j]
  <2> DEFINE c == C[i][j]
             x == y[i]
             t == z[j]
  <2>1. c \in (0 .. B) \cup {Forbidden} /\ x \in Raised(b) /\ t \in Lowered(b) /\ x + t <= c
    BY <1>1
  <2>2. /\ x # Forbidden /\ t # -Forbidden => Jump(x) + Drop(t) <= c
        /\ t # -Forbidden => x + Drop(t) <= c
        /\ x # Forbidden /\ Half <= Uncovered(c, x, t) => Jump(x) + t <= c
    <3> HIDE DEF c, x, t
    <3>1. QED
      BY <1>1, <2>1, PairJumps
  <2>3. (j \in seen => t # -Forbidden) /\ ((\E k \in seen : q[k] = i) => x # Forbidden)
    <3>1. j # 0
      BY <1>2
    <3>2. QED
      BY <1>5, <3>1
  <2>4. CASE j \in seen
    BY <1>6, <1>7, <2>2, <2>3, <2>4
  <2>5. CASE j \notin seen /\ \E k \in seen : q[k] = i
    <3>1. PICK k \in seen : q[k] = i
      BY <2>5
    <3>2. j \in free
      <4>1. j \in 0 .. N
        BY <1>2
      <4>2. QED
        BY <1>3, <2>5, <4>1
    <3>3. Half <= Uncovered(c, x, t)
      BY <3>1, <3>2 DEF Bounded, Left, Fruitful
    <3>4. QED
      BY <1>6, <1>7, <2>2, <2>3, <2>5, <3>3
  <2>6. CASE j \notin seen /\ ~ \E k \in seen : q[k] = i
    BY <1>6, <1>7, <2>1, <2>6
  <2>7. QED
    BY <2>4, <2>5, <2>6
<1>12. Prices(C, N, Precision - 1, y2, z2)
  BY <1>3, <1>10, <1>11 DEF Prices
<1>13. ASSUME NEW j \in free
       PROVE  /\ m2[j] <= B + Span(z2[j])
              /\ \A k \in seen : m2[j] <= Left(C, y2, z2, q[k], j)
  <2>1. m2[j] = 0 /\ z2[j] = z[j] /\ z[j] \in Lowered(b)
    BY <1>1, <1>7, <1>8
  <2>2. Span(z[j]) \in Nat
    BY <1>1, <1>2, <2>1 DEF Span, Lowered
  <2>3. ASSUME NEW k \in seen PROVE Left(C, y2, z2, q[k], j) \in Nat
    <3> DEFINE c == C[q[k]][j]
               x == y2[q[k]]
               t == z2[j]
    <3>1. c \in (0 .. B) \cup {Forbidden} /\ x + t <= c
      BY <1>1, <1>11
    <3>2. x = Jump(y[q[k]]) /\ y[q[k]] \in Raised(b) /\ t \in Lowered(b)
      BY <1>1, <1>6, <2>1
    <3>3. x \in Raised(b)
      BY <3>2 DEF Jump, Raised
    <3>4. Left(C, y2, z2, q[k], j) = Uncovered(c, x, t)
      BY DEF Left
    <3> HIDE DEF c, x, t
    <3>5. Uncovered(c, x, t) \in Nat
      BY <1>1, <1>2, <3>1, <3>2, <3>3, UncoveredIs
    <3>6. QED
      BY <3>4, <3>5
  <2>4. QED
    BY <1>1, <2>1, <2>2, <2>3
<1>14. QED
  BY <1>6, <1>7, <1>8, <1>9, <1>12, <1>13 DEF Bounded, Jumped


\* Before a pass has found no column, the columns met form a tree, minVal is from
\* one of them, and none that is within reach is at -Forbidden unless a row on
\* the path has Forbidden.
Fresh(N, y, z, q, w, m, s, a) ==
  /\ a \notin s /\ \A k \in (s \cup {a}) \ {0} : w[k] \in s
  /\ Ranked(N, w, s, a)
  /\ \A j \in (1 .. N) \ (s \cup {a}) : m[j] = Half \/ w[j] \in s
  /\ Exhausted(y, q, s) \/ \A j \in 1 .. N : (j \in s \cup {a} \/ m[j] < Half) => z[j] # -Forbidden

\* The columns on the way from a are not closed in themselves.
Leads(N, w, a) ==
  \E f \in [0 .. N -> Nat] : \A j \in 1 .. N : f[j] <= f[a] => f[w[j]] < f[j]

LEMMA FreshStarts ==
  ASSUME NEW N \in Nat, NEW y, NEW z, NEW q, NEW w
  PROVE  Fresh(N, y, z, q, w, [j \in 0 .. N |-> Half], {}, 0)
<1> DEFINE m == [j \in 0 .. N |-> Half]
<1>1. Ranked(N, w, {}, 0)
  BY RowStarts DEF Passing
<1>2. (({} \cup {0}) \ {0}) = {} /\ 0 \notin {} /\ \A j \in 1 .. N : j \in 0 .. N /\ j \notin {} \cup {0}
  OBVIOUS
<1>3. \A j \in 1 .. N : m[j] = Half
  BY <1>2
<1>4. ~(Half < Half)
  BY HalfIs
<1> HIDE DEF m
<1>5. Fresh(N, y, z, q, w, m, {}, 0)
  BY <1>1, <1>2, <1>3, <1>4 DEF Fresh
<1>6. QED
  BY <1>5 DEF m

Ranks(N, w, s, a, f, b) ==
  \A j \in 0 .. N : IF j \in s \cup {a} THEN f[j] < b /\ (j # 0 => f[w[j]] < f[j]) ELSE f[j] = b

LEMMA RankedIs ==
  ASSUME NEW N, NEW w, NEW s, NEW a
  PROVE  Ranked(N, w, s, a) <=> \E f \in [0 .. N -> Nat], b \in Nat : Ranks(N, w, s, a, f, b)
BY DEF Ranked, Ranks

\* The tree grows by the column the pass goes on from.
LEMMA RanksGrow ==
  ASSUME NEW N \in Nat, NEW w, NEW w2, NEW s, NEW a, NEW seen, NEW l,
         Ranked(N, w, s, a), seen = s \cup {a}, seen \subseteq 0 .. N, l \in 0 .. N, l \notin seen,
         \A k \in seen : w2[k] = w[k] /\ (k # 0 => w[k] \in seen), w2[l] \in seen
  PROVE  Ranked(N, w2, seen, l)
<1>1. PICK f \in [0 .. N -> Nat], r \in Nat :
        \A j \in 0 .. N : IF j \in s \cup {a} THEN f[j] < r /\ (j # 0 => f[w[j]] < f[j]) ELSE f[j] = r
  BY DEF Ranked
<1> DEFINE f2 == [j \in 0 .. N |-> IF j \in seen \/ j = l THEN f[j] ELSE r + 1]
<1>2. f2 \in [0 .. N -> Nat] /\ r + 1 \in Nat
  OBVIOUS
<1>3. /\ \A j \in 0 .. N : f2[j] = IF j \in seen \/ j = l THEN f[j] ELSE r + 1
      /\ \A j \in 0 .. N : f[j] \in Nat
  OBVIOUS
<1> HIDE DEF f2
<1>4. ASSUME NEW j \in 0 .. N
      PROVE  IF j \in seen \cup {l} THEN f2[j] < r + 1 /\ (j # 0 => f2[w2[j]] < f2[j]) ELSE f2[j] = r + 1
  <2>1. CASE j \in seen
    <3>1. f[j] < r /\ (j # 0 => f[w[j]] < f[j])
      BY <1>1, <2>1
    <3>2. f2[j] = f[j] /\ w2[j] = w[j]
      BY <1>3, <2>1
    <3>3. j # 0 => f2[w2[j]] = f[w[j]]
      <4>1. j # 0 => w[j] \in seen /\ w[j] \in 0 .. N
        BY <2>1
      <4>2. QED
        BY <1>3, <3>2, <4>1
    <3>4. f[j] \in Nat
      BY <1>3
    <3>5. f[j] < r + 1
      BY <3>1, <3>4
    <3>6. QED
      BY <2>1, <3>1, <3>2, <3>3, <3>5
  <2>2. CASE j = l
    <3>1. f[l] = r /\ f2[l] = r
      BY <1>1, <1>3
    <3>2. w2[l] \in seen /\ w2[l] \in 0 .. N
      OBVIOUS
    <3>3. f2[w2[l]] = f[w2[l]] /\ f[w2[l]] < r
      BY <1>1, <1>3, <3>2
    <3>4. r < r + 1
      OBVIOUS
    <3>5. QED
      BY <2>2, <3>1, <3>3, <3>4
  <2>3. CASE j \notin seen \cup {l}
    BY <1>3, <2>3
  <2>4. QED
    BY <2>1, <2>2, <2>3
<1>5. Ranks(N, w2, seen, l, f2, r + 1)
  BY <1>4 DEF Ranks
<1>6. QED
  BY <1>2, <1>5, RankedIs

LEMMA RanksLead ==
  ASSUME NEW N \in Nat, NEW w, NEW s, NEW a \in 0 .. N, Ranked(N, w, s, a)
  PROVE  Leads(N, w, a)
<1>1. PICK f \in [0 .. N -> Nat], r \in Nat :
        \A j \in 0 .. N : IF j \in s \cup {a} THEN f[j] < r /\ (j # 0 => f[w[j]] < f[j]) ELSE f[j] = r
  BY DEF Ranked
<1>2. \A j \in 0 .. N : f[j] <= f[a] => j \in s \cup {a}
  <2>1. f[a] < r /\ f[a] \in Nat
    BY <1>1
  <2>2. QED
    BY <1>1, <2>1
<1>3. \A j \in 1 .. N : j \in 0 .. N /\ j # 0
  OBVIOUS
<1>4. \A j \in 1 .. N : f[j] <= f[a] => f[w[j]] < f[j]
  BY <1>1, <1>2, <1>3
<1>5. QED
  BY <1>4 DEF Leads

\* They lead on from the next one.
LEMMA LeadsOn ==
  ASSUME NEW N \in Nat, NEW w \in [0 .. N -> 0 .. N], NEW a \in 1 .. N, Leads(N, w, a)
  PROVE  Leads(N, w, w[a])
<1>1. PICK f \in [0 .. N -> Nat] : \A j \in 1 .. N : f[j] <= f[a] => f[w[j]] < f[j]
  BY DEF Leads
<1>2. \A j \in 1 .. N : j \in 0 .. N
  OBVIOUS
<1>3. f[a] \in Nat /\ f[w[a]] \in Nat /\ \A j \in 1 .. N : f[j] \in Nat
  BY <1>2
<1>4. f[a] <= f[a]
  BY <1>3
<1>5. f[w[a]] < f[a]
  BY <1>1, <1>4
<1>6. ASSUME NEW j \in 1 .. N, f[j] <= f[w[a]] PROVE f[w[j]] < f[j]
  <2>1. f[j] <= f[a]
    BY <1>3, <1>5, <1>6
  <2>2. QED
    BY <1>1, <2>1
<1>7. QED
  BY <1>6 DEF Leads

\* And out of every set of columns.
LEMMA LeadsOut ==
  ASSUME NEW N \in Nat, NEW w, NEW a \in 1 .. N, Leads(N, w, a), NEW S \in SUBSET (1 .. N), a \in S
  PROVE  \E j \in S : w[j] \notin S
<1>1. PICK f \in [0 .. N -> Nat] :
        \A j \in 1 .. N : f[j] <= f[a] => f[w[j]] < f[j]
  BY DEF Leads
<1>2. \A j \in S : f[j] \in Nat /\ j \in 1 .. N
  <2>1. \A j \in 1 .. N : j \in 0 .. N
    OBVIOUS
  <2>2. QED
    BY <2>1
<1> DEFINE D == {f[j] : j \in S}
<1>3. D \in SUBSET Nat /\ D # {}
  BY <1>2
<1>4. PICK d \in D : \A n \in D : d <= n
  BY <1>3, LeastNat
<1>5. PICK j \in S : f[j] = d
  OBVIOUS
<1>6. f[j] <= f[a] /\ \A k \in S : f[j] <= f[k]
  BY <1>4, <1>5
<1>7. f[w[j]] < f[j]
  BY <1>1, <1>2, <1>6
<1>8. w[j] \notin S
  <2>1. SUFFICES ASSUME w[j] \in S PROVE FALSE
    OBVIOUS
  <2>2. f[j] <= f[w[j]] /\ f[w[j]] \in Nat /\ f[j] \in Nat
    BY <1>2, <1>6, <2>1
  <2>3. QED
    BY <1>7, <2>2
<1>9. QED
  BY <1>8

LEMMA FreshGoesOn ==
  ASSUME NEW N, NEW B, NEW b, NEW C, NEW y, NEW z, NEW q, NEW m, NEW s, NEW a, NEW seen, NEW free, NEW e,
         Search(N, B, b, C, y, z, q, m, s, a, seen, free, e),
         NEW w \in [0 .. N -> 0 .. N], Fresh(N, y, z, q, w, m, s, a),
         NEW least, NEW w2, Met(C, y, z, q, w, m, a, free, least, w2), \A j \in free : least[j] \in 0 .. Half,
         NEW l \in free, least[l] < Half, NEW d \in 0 .. (B + b),
         NEW y2, NEW z2, NEW m2, Climbed(N, y, z, q, seen, free, least, d, y2, z2, m2)
  PROVE  Fresh(N, y2, z2, q, w2, m2, seen, l)
<1>1. /\ N \in Nat /\ seen = s \cup {a} /\ free = (1 .. N) \ seen
      /\ \A k \in seen : k \in 0 .. N /\ q[k] \in 1 .. N
      /\ \A j \in free : j \in 1 .. N /\ j \in 0 .. N /\ j \notin seen
      /\ a \in seen /\ DOMAIN m = 0 .. N /\ DOMAIN w = 0 .. N
  <2>1. seen = s \cup {a} /\ free = (1 .. N) \ seen
    BY DEF Search
  <2>2. N \in Nat /\ a \in seen /\ DOMAIN m = 0 .. N
    BY SearchFree
  <2>3. /\ \A k \in seen : k \in 0 .. N /\ q[k] \in 1 .. N
        /\ \A j \in free : j \in 1 .. N /\ j \in 0 .. N /\ j \notin seen
    BY SearchFree
  <2>4. QED
    BY <2>1, <2>2, <2>3
<1>2. Half \in Nat /\ Forbidden = 2 * Half /\ Precision < Half /\ Precision \in Nat
  BY HalfIs
<1> DEFINE closer == {j \in free : Left(C, y, z, q[a], j) < m[j]}
<1>3. /\ \A j \in 0 .. N : least[j] = IF j \in closer THEN Left(C, y, z, q[a], j) ELSE m[j]
      /\ \A j \in 0 .. N : w2[j] = IF j \in closer THEN a ELSE w[j]
  BY <1>1 DEF Met
<1>4. \A j \in closer : j \in free
  OBVIOUS
<1> HIDE DEF closer
<1>5. /\ a \notin s /\ \A k \in (s \cup {a}) \ {0} : w[k] \in s
      /\ Ranked(N, w, s, a)
      /\ \A j \in free : m[j] = Half \/ w[j] \in s
      /\ Exhausted(y, q, s) \/ \A j \in 1 .. N : (j \in seen \/ m[j] < Half) => z[j] # -Forbidden
  BY <1>1 DEF Fresh
<1>6. \A k \in seen : w2[k] = w[k] /\ (k # 0 => w[k] \in seen)
  BY <1>1, <1>3, <1>4, <1>5
<1>7. \A j \in free : least[j] = Half \/ w2[j] \in seen
  BY <1>1, <1>3, <1>5
<1>8. w2[l] \in seen
  BY <1>2, <1>7
<1>9. Ranked(N, w2, seen, l)
  <2>1. seen \subseteq 0 .. N /\ l \in 0 .. N /\ l \notin seen
    BY <1>1
  <2>2. QED
    BY <1>1, <1>5, <1>6, <1>8, <2>1, RanksGrow
<1>10. /\ \A i \in 1 .. N : y2[i] = IF \E k \in seen : q[k] = i THEN Up(y[i], d) ELSE y[i]
       /\ \A j \in 1 .. N : z2[j] = IF j \in seen THEN Down(z[j], d) ELSE z[j]
       /\ \A j \in free : m2[j] = IF least[j] = Half THEN Half ELSE least[j] - d
  BY DEF Climbed
<1>11. ASSUME NEW j \in (1 .. N) \ (seen \cup {l}) PROVE m2[j] = Half \/ w2[j] \in seen
  BY <1>1, <1>7, <1>10
<1>12. CASE Exhausted(y, q, seen)
  <2>1. PICK k \in seen : y[q[k]] = Forbidden
    BY <1>12 DEF Exhausted
  <2>2. y2[q[k]] = Forbidden
    <3>1. ~(Forbidden < Half)
      BY <1>2
    <3>2. Up(y[q[k]], d) = Forbidden
      BY <2>1, <3>1 DEF Up
    <3>3. QED
      BY <1>1, <1>10, <3>2
  <2>3. Exhausted(y2, q, seen)
    BY <2>2 DEF Exhausted
  <2>4. QED
    BY <1>1, <1>6, <1>8, <1>9, <1>11, <2>3 DEF Fresh
<1>13. CASE ~Exhausted(y, q, seen)
  <2>1. \A k \in seen : y[q[k]] # Forbidden
    BY <1>13 DEF Exhausted
  <2>2. \A j \in 1 .. N : (j \in seen \/ m[j] < Half) => z[j] # -Forbidden
    <3>1. ~Exhausted(y, q, s)
      BY <1>1, <2>1 DEF Exhausted
    <3>2. QED
      BY <1>5, <3>1
  <2>3. ASSUME NEW j \in free, least[j] < Half PROVE z[j] # -Forbidden
    <3>1. CASE j \in closer
      <4>1. Left(C, y, z, q[a], j) < Half
        BY <1>1, <1>3, <2>3, <3>1
      <4>2. z[j] = -Forbidden => y[q[a]] = Forbidden
        <5>1. a \in seen
          BY <1>1
        <5>2. QED
          BY <4>1, <5>1, LeftIs
      <4>3. QED
        BY <1>1, <2>1, <4>2
    <3>2. CASE j \notin closer
      BY <1>1, <1>3, <2>2, <2>3, <3>2
    <3>3. QED
      BY <3>1, <3>2
  <2>4. ASSUME NEW j \in 1 .. N, j \in seen \cup {l} \/ m2[j] < Half PROVE z2[j] # -Forbidden
    <3>1. CASE j \in seen
      <4> DEFINE t == z[j]
      <4>1. t # -Forbidden /\ z2[j] = Down(t, d)
        BY <1>10, <2>2, <3>1
      <4>2. b \in Nat /\ t \in Lowered(b) /\ B \in Nat /\ B + 2 * b < Precision
        BY SearchFree
      <4> HIDE DEF t
      <4>3. t \in -b .. 0 \/ t = -Half
        BY <4>1, <4>2 DEF Lowered
      <4>4. Down(t, d) # -Forbidden
        BY <1>2, <4>2, <4>3 DEF Down
      <4>5. QED
        BY <4>1, <4>4
    <3>2. CASE j \notin seen
      <4>1. j \in free /\ z2[j] = z[j]
        BY <1>1, <1>10, <3>2
      <4>2. least[j] < Half
        <5>1. CASE j = l
          BY <5>1
        <5>2. CASE j # l
          <6>1. m2[j] < Half
            BY <2>4, <3>2, <5>2
          <6>2. least[j] # Half
            BY <1>2, <1>10, <4>1, <6>1
          <6>3. QED
            BY <1>2, <4>1, <6>2
        <5>3. QED
          BY <5>1, <5>2
      <4>3. QED
        BY <2>3, <4>1, <4>2
    <3>3. QED
      BY <3>1, <3>2
  <2>5. QED
    BY <1>1, <1>6, <1>8, <1>9, <1>11, <2>4 DEF Fresh
<1>14. QED
  BY <1>12, <1>13


\* A pair is forbidden or costs at most Dearest.
LEMMA AllCostsAre ==
  ASSUME Question, Exact
  PROVE  /\ Costs \in [1 .. Size -> [1 .. Size -> (0 .. Dearest) \cup {Forbidden}]]
         /\ Dearest \in Nat /\ Dearest < Precision /\ Size \in Nat
<1>1. Dearest \in Nat /\ 4 * Dearest < Precision /\ Precision \in Nat /\ Size \in Nat
  <2>1. CycleLength \in Nat
    BY SolverAssumption
  <2>2. Dearest \in Nat
    BY <2>1 DEF Dearest
  <2>3. QED
    BY <2>2, SizeIs, HalfIs DEF Exact
<1>2. ASSUME NEW i \in 1 .. Size, NEW j \in 1 .. Size PROVE Cost(i, j) \in (0 .. Dearest) \cup {Forbidden}
  <2>1. CASE i <= Len(profiles) /\ j <= Len(tiers)
    <3>1. i \in 1 .. Len(profiles) /\ j \in 1 .. Len(tiers)
      BY <1>1, <2>1, SizeIs
    <3>2. Cost(i, j) = ComputeCij(profiles[i], tiers[j])
      BY <2>1 DEF Cost
    <3>3. QED
      BY <3>1, <3>2, DearestIs
  <2>2. CASE ~(i <= Len(profiles) /\ j <= Len(tiers))
    BY <2>2 DEF Cost
  <2>3. QED
    BY <2>1, <2>2
<1>3. Dearest < Precision
  BY <1>1
<1> DEFINE R == (0 .. Dearest) \cup {Forbidden}
<1>4. \A i, j \in 1 .. Size : Cost(i, j) \in R
  BY <1>2
<1> HIDE DEF R
<1>5. Costs \in [1 .. Size -> [1 .. Size -> R]]
  BY <1>4 DEF Costs
<1>6. QED
  BY <1>1, <1>3, <1>5 DEF R

\* Twice a small potential and a cost are below the first number that is rounded.
Modest ==
  \A i \in 1 .. Size : /\ u[i] < Half => Dearest + 2 * u[i] < Precision
                       /\ v[i] > -Half => Dearest - 2 * v[i] < Precision

Reach == (Precision - 1 - Dearest) \div 2

FloatInv ==
  /\ Prices(Costs, Size, Precision - 1, u, v)
  /\ minVal \in [0 .. Size -> 0 .. Half] /\ used \subseteq 0 .. Size
  /\ \A i \in 1 .. Size : i > row => u[i] = 0
  /\ \A j \in 1 .. Size : (p[j] = 0 => v[j] = 0) /\ (way[j] # 0 => p[way[j]] # 0)
  /\ loop # "rows" => p[0] # 0
  /\ loop = "scan" =>
       /\ 0 \in used \cup {j0} /\ \A k \in used \cup {j0} : p[k] # 0
       /\ Bounded(Costs, Dearest, u, v, p, minVal, used, (1 .. Size) \ (used \cup {j0}))
       /\ u[row] < Half => Fresh(Size, u, v, p, way, minVal, used, j0)
       /\ u[row] >= Half => \A j \in (1 .. Size) \ (used \cup {j0}) : minVal[j] = 0
  /\ loop = "augment" /\ u[row] < Half => Leads(Size, way, j0)

LEMMA ReachIs ==
  ASSUME Question, Exact
  PROVE  /\ Reach \in Nat /\ Dearest + 2 * Reach < Precision
         /\ \A x \in Nat : Dearest + 2 * x < Precision => x <= Reach
<1> DEFINE n == Precision - 1 - Dearest
           r == n \div 2
<1>1. n \in Nat /\ Dearest \in Nat /\ Precision \in Nat /\ Precision = n + 1 + Dearest
  BY AllCostsAre, HalfIs
<1> HIDE DEF n
<1>2. r \in Nat /\ 2 * r <= n /\ n < 2 * r + 2
  BY <1>1
<1>3. r = Reach
  BY DEF Reach, n
<1> HIDE DEF r
<1>4. Dearest + 2 * r < Precision
  BY <1>1, <1>2
<1>5. \A x \in Nat : Dearest + 2 * x < Precision => x <= r
  BY <1>1, <1>2
<1>6. QED
  BY <1>2, <1>3, <1>4, <1>5

LEMMA ModestPrices ==
  ASSUME Question, Exact, FloatInv, Modest
  PROVE  Prices(Costs, Size, Reach, u, v)
<1>1. /\ DOMAIN u = 0 .. Size /\ DOMAIN v = 0 .. Size
      /\ \A i \in 1 .. Size : u[i] \in Raised(Precision - 1) /\ v[i] \in Lowered(Precision - 1)
      /\ \A i, j \in 1 .. Size : u[i] + v[j] <= Costs[i][j]
  BY DEF FloatInv, Prices
<1>2. /\ Reach \in Nat /\ \A x \in Nat : Dearest + 2 * x < Precision => x <= Reach
      /\ Dearest \in Nat /\ Precision \in Nat /\ Half \in Nat /\ Forbidden = 2 * Half /\ Precision < Half
  BY ReachIs, AllCostsAre, HalfIs
<1>3. ASSUME NEW i \in 1 .. Size PROVE u[i] \in Raised(Reach)
  <2> DEFINE x == u[i]
  <2>1. x \in Raised(Precision - 1) /\ (x < Half => Dearest + 2 * x < Precision)
    BY <1>1 DEF Modest
  <2> HIDE DEF x
  <2>2. x = Half \/ x = Forbidden \/ x \in 0 .. (Precision - 1)
    BY <2>1 DEF Raised
  <2>3. CASE x \in 0 .. (Precision - 1)
    <3>1. x \in Nat /\ x < Half
      BY <1>2, <2>3
    <3>2. x \in 0 .. Reach
      BY <1>2, <2>1, <3>1
    <3>3. QED
      BY <3>2 DEF Raised, x
  <2>4. CASE x = Half \/ x = Forbidden
    BY <2>4 DEF Raised, x
  <2>5. QED
    BY <2>2, <2>3, <2>4
<1>4. ASSUME NEW i \in 1 .. Size PROVE v[i] \in Lowered(Reach)
  <2> DEFINE x == v[i]
  <2>1. x \in Lowered(Precision - 1) /\ (x > -Half => Dearest - 2 * x < Precision)
    BY <1>1 DEF Modest
  <2> HIDE DEF x
  <2>2. x = -Half \/ x = -Forbidden \/ x \in -(Precision - 1) .. 0
    BY <2>1 DEF Lowered
  <2>3. CASE x \in -(Precision - 1) .. 0
    <3>1. -x \in Nat /\ x > -Half
      BY <1>2, <2>3
    <3>2. Dearest + 2 * (-x) < Precision
      BY <1>2, <2>1, <2>3, <3>1
    <3>3. -x <= Reach
      BY <1>2, <3>1, <3>2
    <3>4. x \in -Reach .. 0
      BY <1>2, <2>3, <3>3
    <3>5. QED
      BY <3>4 DEF Lowered, x
  <2>4. CASE x = -Half \/ x = -Forbidden
    BY <2>4 DEF Lowered, x
  <2>5. QED
    BY <2>2, <2>3, <2>4
<1>5. QED
  BY <1>1, <1>3, <1>4 DEF Prices

LEMMA FloatSearch ==
  ASSUME Question, Exact, MatchInv, FloatInv, Modest, loop = "scan",
         NEW seen, seen = used \cup {j0}, NEW free, free = (1 .. Size) \ seen
  PROVE  /\ \E e : Search(Size, Dearest, Reach, Costs, u, v, p, minVal, used, j0, seen, free, e)
         /\ row \in 1 .. Size /\ p[0] = row /\ \A k \in 0 .. Size : p[k] <= row
<1>1. /\ row \in 1 .. Size /\ p[0] = row /\ Coupled(p, 1 .. Size, row - 1) /\ Size \in Nat
      /\ p \in [0 .. Size -> 0 .. Size] /\ j0 \in 0 .. Size
  <2>1. row \in 0 .. Size /\ row # 0 /\ Size \in Nat
    BY DEF MatchInv
  <2>2. row \in 1 .. Size
    BY <2>1
  <2>3. QED
    BY <2>2 DEF MatchInv
<1>2. PICK e \in 1 .. Size : p[e] = 0
  BY <1>1, FreeColumn
<1>3. /\ \A j \in 1 .. Size : p[j] \in 0 .. (row - 1)
      /\ \A j, k \in 1 .. Size : p[j] = p[k] /\ p[j] # 0 => j = k
  BY <1>1 DEF Coupled
<1>4. \A j \in 0 .. Size : j = 0 \/ j \in 1 .. Size
  BY <1>1
<1>5. \A j \in 1 .. Size : p[j] # row /\ p[j] <= row
  <2>1. \A n \in 0 .. (row - 1) : n # row /\ n <= row
    BY <1>1
  <2>2. QED
    BY <1>3, <2>1
<1>6. \A j, k \in 0 .. Size : p[j] = p[k] /\ p[j] # 0 => j = k
  BY <1>1, <1>3, <1>4, <1>5
<1>7. \A k \in 0 .. Size : p[k] <= row
  BY <1>1, <1>4, <1>5
<1>8. Prices(Costs, Size, Reach, u, v)
  BY ModestPrices
<1>9. /\ Dearest \in Nat /\ Reach \in Nat /\ Dearest + 2 * Reach < Precision
      /\ Costs \in [1 .. Size -> [1 .. Size -> (0 .. Dearest) \cup {Forbidden}]]
  BY AllCostsAre, ReachIs
<1>10. /\ used \subseteq 0 .. Size /\ minVal \in [0 .. Size -> 0 .. Half] /\ v[e] = 0
       /\ 0 \in seen /\ \A k \in seen : p[k] # 0
       /\ Bounded(Costs, Dearest, u, v, p, minVal, used, free)
  BY <1>2 DEF FloatInv
<1>11. Search(Size, Dearest, Reach, Costs, u, v, p, minVal, used, j0, seen, free, e)
  BY <1>1, <1>2, <1>6, <1>8, <1>9, <1>10 DEF Search
<1>12. QED
  BY <1>1, <1>7, <1>11

LEMMA InitFloat ==
  ASSUME Question, Exact, SolverInit
  PROVE  FloatInv
<1>1. /\ Costs \in [1 .. Size -> [1 .. Size -> (0 .. Dearest) \cup {Forbidden}]] /\ Size \in Nat
      /\ Dearest \in Nat /\ Precision \in Nat /\ Half \in Nat /\ Forbidden \in Nat /\ Precision >= 1
  <2>1. Precision >= 1
    BY SolverAssumption
  <2>2. QED
    BY <2>1, AllCostsAre, HalfIs
<1>2. /\ u = [j \in 0 .. Size |-> 0] /\ v = [j \in 0 .. Size |-> 0] /\ p = [j \in 0 .. Size |-> 0]
      /\ way = [j \in 0 .. Size |-> 0] /\ minVal = [j \in 0 .. Size |-> Half]
      /\ loop = "rows" /\ used = {}
  BY DEF SolverInit, Everywhere
<1>3. \A j \in 1 .. Size : u[j] = 0 /\ v[j] = 0 /\ p[j] = 0 /\ way[j] = 0
  BY <1>1, <1>2
<1> DEFINE C == Costs
           R == (0 .. Dearest) \cup {Forbidden}
<1>4. \A x \in R : x \in Int /\ 0 <= x
  BY <1>1
<1>5. C \in [1 .. Size -> [1 .. Size -> R]]
  BY <1>1
<1> HIDE DEF C, R
<1>6. \A i, j \in 1 .. Size : C[i][j] \in R
  BY <1>5
<1>7. \A i, j \in 1 .. Size : u[i] + v[j] <= C[i][j]
  BY <1>3, <1>4, <1>6
<1>8. 0 \in Raised(Precision - 1) /\ 0 \in Lowered(Precision - 1)
  BY <1>1 DEF Raised, Lowered
<1>9. DOMAIN u = 0 .. Size /\ DOMAIN v = 0 .. Size
  BY <1>2
<1>10. Prices(C, Size, Precision - 1, u, v)
  BY <1>3, <1>7, <1>8, <1>9 DEF Prices
<1>11. minVal \in [0 .. Size -> 0 .. Half]
  BY <1>1, <1>2
<1>12. QED
  BY <1>2, <1>3, <1>10, <1>11 DEF FloatInv, C

LEMMA FloatNextRow ==
  ASSUME Question, Exact, MatchInv, FloatInv, NextRow
  PROVE  FloatInv'
<1>1. /\ Size' = Size /\ Costs' = Costs /\ u' = u /\ v' = v /\ way' = way /\ loop = "rows" /\ loop' = "scan"
      /\ row' = row + 1 /\ row < Size
      /\ j0' = 0 /\ p' = [p EXCEPT ![0] = row + 1] /\ used' = {} /\ minVal' = [j \in 0 .. Size |-> Half]
  BY InputStays DEF NextRow, Everywhere
<1>2. Size \in Nat /\ row \in Nat /\ p \in [0 .. Size -> 0 .. Size] /\ way \in [0 .. Size -> 0 .. Size]
  <2>1. Size \in Nat /\ row \in 0 .. Size /\ p \in [0 .. Size -> 0 .. Size] /\ way \in [0 .. Size -> 0 .. Size]
    BY DEF MatchInv
  <2>2. row \in Nat
    BY <2>1
  <2>3. QED
    BY <2>1, <2>2
<1>3. Half \in Nat
  BY HalfIs
<1>4. /\ Prices(Costs, Size, Precision - 1, u, v) /\ \A i \in 1 .. Size : i > row => u[i] = 0
      /\ \A j \in 1 .. Size : (p[j] = 0 => v[j] = 0) /\ (way[j] # 0 => p[way[j]] # 0)
  BY DEF FloatInv
<1>5. p'[0] # 0 /\ \A j \in 0 .. Size : j # 0 => p'[j] = p[j]
  <2>1. 0 \in 0 .. Size /\ row + 1 # 0
    BY <1>2
  <2>2. QED
    BY <1>1, <1>2, <2>1
<1>6. \A j \in 1 .. Size : (p'[j] = 0 => v[j] = 0) /\ (way[j] # 0 => p'[way[j]] # 0)
  <2>1. \A j \in 1 .. Size : j \in 0 .. Size /\ j # 0
    BY <1>2
  <2>2. \A j \in 0 .. Size : way[j] \in 0 .. Size
    BY <1>2
  <2>3. QED
    BY <1>4, <1>5, <2>1, <2>2
<1>7. \A i \in 1 .. Size : i > row + 1 => u[i] = 0
  BY <1>2, <1>4
<1>8. minVal' \in [0 .. Size -> 0 .. Half]
  BY <1>1, <1>3
<1>9. used' \subseteq 0 .. Size /\ used' \cup {j0'} = {0}
  BY <1>1
<1>10. \A j \in (1 .. Size) \ {0} : minVal'[j] = Half /\ j \in 0 .. Size
  BY <1>1, <1>2
<1>11. Bounded(Costs, Dearest, u, v, p', minVal', used', (1 .. Size) \ {0})
  BY <1>1, <1>10 DEF Bounded
<1>12. Fresh(Size, u, v, p', way, minVal', used', j0')
  BY <1>1, <1>2, FreshStarts
<1>13. ~(u[row + 1] >= Half)
  <2>1. row + 1 \in 1 .. Size /\ row + 1 > row
    BY <1>1, <1>2
  <2>2. u[row + 1] = 0
    BY <1>4, <2>1
  <2>3. Precision < Half /\ Precision \in Nat
    BY HalfIs
  <2>4. QED
    BY <1>3, <2>2, <2>3
<1>14. QED
  BY <1>1, <1>4, <1>5, <1>6, <1>7, <1>8, <1>9, <1>11, <1>12, <1>13 DEF FloatInv

LEMMA FloatAugment ==
  ASSUME Question, Exact, MatchInv, FloatInv, Augment
  PROVE  FloatInv'
<1>1. /\ Size' = Size /\ Costs' = Costs /\ u' = u /\ v' = v /\ way' = way /\ loop = "augment" /\ row' = row
      /\ j0' = way[j0] /\ p' = [p EXCEPT ![j0] = p[way[j0]]] /\ minVal' = minVal /\ used' = used
      /\ loop' = IF way[j0] = 0 THEN "rows" ELSE "augment"
  BY InputStays DEF Augment
<1>2. /\ Size \in Nat /\ p \in [0 .. Size -> 0 .. Size] /\ way \in [0 .. Size -> 0 .. Size]
      /\ j0 \in 1 .. Size
  <2>1. j0 \in 0 .. Size /\ j0 # 0 /\ Size \in Nat
    BY <1>1 DEF MatchInv
  <2>2. j0 \in 1 .. Size
    BY <2>1
  <2>3. QED
    BY <2>2 DEF MatchInv
<1>3. /\ \A j \in 1 .. Size : (p[j] = 0 => v[j] = 0) /\ (way[j] # 0 => p[way[j]] # 0)
      /\ p[0] # 0 /\ (u[row] < Half => Leads(Size, way, j0))
  BY <1>1 DEF FloatInv
<1>4. p[way[j0]] # 0
  BY <1>2, <1>3
<1>5. /\ \A j \in 0 .. Size : p[j] # 0 => p'[j] # 0
      /\ \A j \in 0 .. Size : p'[j] = 0 => p[j] = 0
  <2>1. \A j \in 0 .. Size : p'[j] = IF j = j0 THEN p[way[j0]] ELSE p[j]
    BY <1>1, <1>2
  <2>2. QED
    BY <1>4, <2>1
<1>6. \A j \in 1 .. Size : (p'[j] = 0 => v[j] = 0) /\ (way[j] # 0 => p'[way[j]] # 0)
  <2>1. \A j \in 1 .. Size : j \in 0 .. Size
    BY <1>2
  <2>2. \A j \in 0 .. Size : way[j] \in 0 .. Size
    BY <1>2
  <2>3. QED
    BY <1>3, <1>5, <2>1, <2>2
<1>7. p'[0] # 0
  <2>1. 0 \in 0 .. Size
    BY <1>2
  <2>2. QED
    BY <1>3, <1>5, <2>1
<1>8. u[row] < Half => Leads(Size, way, way[j0])
  BY <1>2, <1>3, LeadsOn
<1>9. /\ Prices(Costs, Size, Precision - 1, u, v) /\ minVal \in [0 .. Size -> 0 .. Half]
      /\ used \subseteq 0 .. Size /\ \A i \in 1 .. Size : i > row => u[i] = 0
  BY DEF FloatInv
<1>10. loop' # "scan"
  BY <1>1
<1>11. QED
  BY <1>1, <1>6, <1>7, <1>8, <1>9, <1>10 DEF FloatInv


\* Where the path does not go, and where no closer column is found.
Elsewhere(seen, y2, z2, w2) ==
  /\ \A i \in 1 .. Size : (\A k \in seen : p[k] # i) => y2[i] = u[i]
  /\ \A j \in 1 .. Size : j \notin seen => z2[j] = v[j]
  /\ \A j \in 0 .. Size : w2[j] = way[j] \/ w2[j] = j0

StaysOff(seen, y2, z2, w2) ==
  /\ \A i \in 1 .. Size : i > row => y2[i] = 0
  /\ \A j \in 1 .. Size : (p[j] = 0 => z2[j] = 0) /\ (w2[j] # 0 => p[w2[j]] # 0)
  /\ p[0] # 0 /\ seen \subseteq 0 .. Size /\ \A k \in seen : p[k] # 0

\* What every pass keeps, whether it found a column or not.
LEMMA PassKeeps ==
  ASSUME Question, Exact, MatchInv, FloatInv, Modest, Scan,
         NEW seen, seen = used \cup {j0}, NEW y2, NEW z2, NEW w2, Elsewhere(seen, y2, z2, w2)
  PROVE  StaysOff(seen, y2, z2, w2)
<1>1. loop = "scan" /\ Size \in Nat /\ j0 \in 0 .. Size
  BY Zenon DEF Scan, MatchInv
<1>2. row \in 1 .. Size /\ p[0] = row /\ \A k \in 0 .. Size : p[k] <= row
  BY <1>1, FloatSearch
<1>3. /\ \A i \in 1 .. Size : i > row => u[i] = 0
      /\ \A j \in 1 .. Size : (p[j] = 0 => v[j] = 0) /\ (way[j] # 0 => p[way[j]] # 0)
      /\ used \subseteq 0 .. Size /\ 0 \in seen /\ \A k \in seen : p[k] # 0
  BY <1>1 DEF FloatInv
<1>4. p[0] # 0 /\ seen \subseteq 0 .. Size
  BY <1>1, <1>2, <1>3
<1>5. ASSUME NEW i \in 1 .. Size, i > row PROVE y2[i] = 0
  <2>1. \A k \in seen : p[k] <= row
    BY <1>2, <1>4
  <2>2. \A k \in seen : p[k] # i
    BY <1>2, <1>5, <2>1
  <2>3. QED
    BY <1>3, <1>5, <2>2 DEF Elsewhere
<1>6. ASSUME NEW j \in 1 .. Size PROVE (p[j] = 0 => z2[j] = 0) /\ (w2[j] # 0 => p[w2[j]] # 0)
  <2>1. j \in 0 .. Size
    BY <1>1
  <2>2. p[j0] # 0
    BY <1>3
  <2>3. QED
    BY <1>3, <2>1, <2>2 DEF Elsewhere
<1>7. QED
  BY <1>3, <1>4, <1>5, <1>6, Zenon DEF StaysOff

LEMMA FloatScan ==
  ASSUME Question, Exact, MatchInv, FloatInv, Modest, Scan
  PROVE  FloatInv'
<1> DEFINE N == Size
           C == Costs
           B == Dearest
           b == Reach
<1>1. loop = "scan"
  BY Zenon DEF Scan
<1>2. p \in [0 .. N -> 0 .. N] /\ way \in [0 .. N -> 0 .. N] /\ j0 \in 0 .. N /\ N \in Nat
  BY DEF MatchInv
<1> DEFINE i0 == p[j0]
           seen == used \cup {j0}
           free == (1 .. N) \ seen
           closer == {j \in free : Reduced(i0, j) < minVal[j]}
           least == [j \in DOMAIN minVal |-> IF j \in closer THEN Reduced(i0, j) ELSE minVal[j]]
           best == {j \in free : least[j] < Half /\ \A k \in free : least[j] <= least[k]}
           j1 == IF best = {} THEN 0 ELSE Min(best)
           delta == IF best = {} THEN Half ELSE least[j1]
           w2 == [j \in DOMAIN way |-> IF j \in closer THEN j0 ELSE way[j]]
           y2 == [i \in DOMAIN u |-> Near(u[i] + delta * Cardinality({j \in seen : p[j] = i}))]
           z2 == [j \in DOMAIN v |-> IF j \in seen THEN Near(v[j] - delta) ELSE v[j]]
           m2 == [j \in DOMAIN minVal |-> IF j \in seen THEN least[j] ELSE Near(least[j] - delta)]
<1>3. /\ way' = w2 /\ u' = y2 /\ v' = z2 /\ minVal' = m2 /\ used' = seen /\ j0' = j1
      /\ loop' = (IF p[j1] = 0 THEN "augment" ELSE "scan")
      /\ p' = p /\ row' = row /\ Size' = N /\ Costs' = C
  BY InputStays, Zenon DEF Scan, PotentialsMoved
<1>4. PICK e : Search(N, B, b, C, u, v, p, minVal, used, j0, seen, free, e)
  BY <1>1, FloatSearch
<1>5. row \in 1 .. N /\ p[0] = row
  BY <1>1, FloatSearch
<1>6. \A j \in 0 .. N : w2[j] = way[j] \/ w2[j] = j0
  BY <1>2
<1>7. ASSUME NEW j \in free PROVE Reduced(i0, j) = Left(C, u, v, i0, j)
  <2>1. i0 \in 1 .. N /\ j \in 1 .. N
    BY <1>4, SearchFree
  <2>2. C[i0][j] = Cost(i0, j)
    BY <2>1 DEF Costs
  <2>3. QED
    BY <2>2 DEF Reduced, Left, Uncovered
<1>8. Met(C, u, v, p, way, minVal, j0, free, least, w2)
  <2>1. closer = {j \in free : Left(C, u, v, i0, j) < minVal[j]}
    BY <1>7
  <2>2. \A j \in closer : j \in free
    OBVIOUS
  <2> HIDE DEF free, closer, N, C, B, b
  <2>3. least = [j \in DOMAIN minVal |-> IF j \in closer THEN Left(C, u, v, i0, j) ELSE minVal[j]]
    BY <1>7, <2>2
  <2>4. QED
    BY <2>1, <2>3 DEF Met
<1>9. Shifted(u, v, p, minVal, seen, least, delta, y2, z2, m2)
  BY DEF Shifted
<1>10. best = Nearest(Half, least, free)
  BY DEF Nearest
<1>11. /\ 0 \in seen /\ Half \in Nat /\ Forbidden = 2 * Half /\ Precision < Half /\ Precision \in Nat
       /\ \A j \in free : j \in 1 .. N /\ j \in 0 .. N /\ j \notin seen
       /\ B \in Nat /\ b \in Nat /\ B + 2 * b < Precision /\ u[row] \in Raised(b)
  BY <1>4, <1>5, SearchFree, HalfIs
<1> HIDE DEF N, C, B, b, i0, seen, free, closer, least, best, w2, y2, z2, m2
<1>12. /\ least \in [0 .. N -> 0 .. Half] /\ Bounded(C, B, u, v, p, least, seen, free)
       /\ \A j \in free : least[j] <= minVal[j]
  BY <1>4, <1>8, SearchLeast
<1>13. u[row] >= Half => \A j \in free : minVal[j] = 0
  BY <1>1 DEF FloatInv, seen, free, N
<1>14. u[row] < Half => Fresh(N, u, v, p, way, minVal, used, j0)
  BY <1>1 DEF FloatInv, N
<1>15. \A j \in free : least[j] \in 0 .. Half
  BY <1>11, <1>12
<1>16. CASE best # {}
  <2>1. /\ j1 \in free /\ least[j1] < Half /\ delta = least[j1] /\ delta \in 0 .. (B + b)
        /\ Beyond(delta, least, free)
    <3>1. j1 = Min(best) /\ delta = least[j1]
      BY <1>16
    <3>2. /\ Min(best) \in free /\ least[Min(best)] < Half /\ least[Min(best)] \in 0 .. (B + b)
          /\ Beyond(least[Min(best)], least, free)
      BY <1>4, <1>10, <1>12, <1>16, SearchChooses
    <3> HIDE DEF j1, delta
    <3>3. QED
      BY <3>1, <3>2
  <2> HIDE DEF j1, delta
  <2>2. /\ Prices(C, N, Precision - 1, y2, z2) /\ m2 \in [0 .. N -> 0 .. Half]
        /\ Bounded(C, B, y2, z2, p, m2, seen, free)
        /\ Climbed(N, u, v, p, seen, free, least, delta, y2, z2, m2)
    BY <1>4, <1>9, <1>12, <2>1, SearchMoves
  <2>3. /\ \A i \in 1 .. N : y2[i] = IF \E k \in seen : p[k] = i THEN Up(u[i], delta) ELSE u[i]
        /\ \A j \in 1 .. N : z2[j] = IF j \in seen THEN Down(v[j], delta) ELSE v[j]
        /\ \A j \in free : m2[j] = IF least[j] = Half THEN Half ELSE least[j] - delta
    BY <2>2 DEF Climbed
  <2>4. /\ \A i \in 1 .. N : i > row => y2[i] = 0
        /\ \A j \in 1 .. N : (p[j] = 0 => z2[j] = 0) /\ (w2[j] # 0 => p[w2[j]] # 0)
        /\ p[0] # 0 /\ seen \subseteq 0 .. N /\ \A k \in seen : p[k] # 0
    <3>1. Elsewhere(seen, y2, z2, w2)
      BY <1>6, <2>3 DEF Elsewhere, N
    <3>2. seen = used \cup {j0}
      BY DEF seen
    <3>3. StaysOff(seen, y2, z2, w2)
      BY <3>1, <3>2, PassKeeps
    <3>4. QED
      BY <3>3 DEF StaysOff, N
  <2>5. y2[row] < Half <=> u[row] < Half
    <3>1. y2[row] = Up(u[row], delta)
      BY <1>5, <1>11, <2>3
    <3> DEFINE x == u[row]
    <3>2. x = Half \/ x = Forbidden \/ x \in 0 .. b
      BY <1>11 DEF Raised
    <3> HIDE DEF x
    <3>3. Up(x, delta) < Half <=> x < Half
      BY <1>11, <2>1, <3>2 DEF Up
    <3>4. QED
      BY <3>1, <3>3 DEF x
  <2>6. ASSUME y2[row] < Half PROVE Fresh(N, y2, z2, p, w2, m2, seen, j1)
    <3>1. Fresh(N, u, v, p, way, minVal, used, j0)
      BY <1>14, <2>5, <2>6
    <3>2. QED
      BY <1>2, <1>4, <1>8, <1>15, <2>1, <2>2, <3>1, FreshGoesOn
  <2>7. ASSUME y2[row] >= Half PROVE \A j \in free : m2[j] = 0
    <3>1. ~(u[row] < Half)
      <4>1. y2[row] \in Int
        <5>1. y2[row] \in Raised(Precision - 1)
          BY <1>5, <2>2 DEF Prices
        <5>2. QED
          BY <1>11, <5>1 DEF Raised
      <4>2. ~(y2[row] < Half)
        BY <1>11, <2>7, <4>1
      <4>3. QED
        BY <2>5, <4>2
    <3>2. u[row] \in Int
      BY <1>11 DEF Raised
    <3>3. u[row] >= Half
      BY <1>11, <3>1, <3>2
    <3>4. \A j \in free : least[j] = 0
      BY <1>12, <1>13, <1>15, <3>3
    <3>5. delta = 0 /\ Half # 0
      BY <1>11, <2>1, <3>4
    <3>6. QED
      BY <2>3, <3>4, <3>5
  <2>8. \A j \in (1 .. N) \ (seen \cup {j1}) : j \in free
    BY DEF free
  <2>9. CASE p[j1] = 0
    <3>1. loop' = "augment"
      BY <1>3, <2>9
    <3>2. y2[row] < Half => Leads(N, w2, j1)
      <4>1. j1 \in 0 .. N
        BY <1>11, <2>1
      <4>2. QED
        BY <1>2, <2>6, <4>1, RanksLead DEF Fresh
    <3>3. QED
      BY <1>3, <2>2, <2>4, <3>1, <3>2 DEF FloatInv, N, C
  <2>10. CASE p[j1] # 0
    <3>1. loop' = "scan"
      BY <1>3, <2>10
    <3>2. 0 \in seen \cup {j1} /\ \A k \in seen \cup {j1} : p[k] # 0
      BY <1>11, <2>4, <2>10
    <3>3. Bounded(C, B, y2, z2, p, m2, seen, (1 .. N) \ (seen \cup {j1}))
      BY <2>2, <2>8 DEF Bounded
    <3>4. y2[row] >= Half => \A j \in (1 .. N) \ (seen \cup {j1}) : m2[j] = 0
      BY <2>7, <2>8
    <3>5. QED
      BY <1>3, <2>2, <2>4, <2>6, <3>1, <3>2, <3>3, <3>4 DEF FloatInv, N, C, B
  <2>11. QED
    BY <2>9, <2>10
<1>17. CASE best = {}
  <2>1. j1 = 0 /\ delta = Half
    BY <1>17
  <2> HIDE DEF j1, delta
  <2>2. ~Fruitful(least, free)
    BY <1>4, <1>10, <1>12, <1>17, SearchChooses
  <2>3. \A j \in free : least[j] = Half
    BY <2>2 DEF Fruitful
  <2>4. ~Exhausted(u, p, seen)
    BY <1>4, <1>12, <2>2, NoneForbidden
  <2>5. u[row] < Half
    <3>1. u[row] \in Int /\ e \in free
      <4>1. u[row] \in Int
        BY <1>11 DEF Raised
      <4>2. e \in free
        BY <1>4, SearchFree
      <4>3. QED
        BY <4>1, <4>2
    <3>2. least[e] = Half /\ Half # 0 /\ ~(Half <= 0)
      BY <1>11, <2>3, <3>1
    <3>3. ~(u[row] >= Half)
      BY <1>12, <1>13, <3>1, <3>2
    <3>4. QED
      BY <1>11, <3>1, <3>3
  <2>6. Fresh(N, u, v, p, way, minVal, used, j0)
    BY <1>14, <2>5
  <2>7. \A k \in seen : k # 0 => v[k] # -Forbidden
    <3>1. ~Exhausted(u, p, used)
      BY <2>4 DEF Exhausted, seen
    <3>2. \A k \in 1 .. N : k \in used \cup {j0} => v[k] # -Forbidden
      BY <2>6, <3>1 DEF Fresh
    <3>3. \A k \in seen : k \in 0 .. N
      BY <1>4, SearchFree
    <3>4. \A k \in 0 .. N : k # 0 => k \in 1 .. N
      BY <1>2
    <3>5. QED
      BY <3>2, <3>3, <3>4 DEF seen
  <2>8. /\ Prices(C, N, Precision - 1, y2, z2) /\ m2 \in [0 .. N -> 0 .. Half]
        /\ Bounded(C, B, y2, z2, p, m2, seen, free)
        /\ Jumped(N, u, v, p, seen, free, y2, z2, m2)
    <3>1. Shifted(u, v, p, minVal, seen, least, Half, y2, z2, m2)
      BY <1>9, <2>1
    <3>2. QED
      BY <1>4, <1>12, <2>2, <2>7, <3>1, SearchJumps
  <2>9. /\ \A i \in 1 .. N : y2[i] = IF \E k \in seen : p[k] = i THEN Jump(u[i]) ELSE u[i]
        /\ \A j \in 1 .. N : z2[j] = IF j \in seen THEN Drop(v[j]) ELSE v[j]
        /\ \A j \in free : m2[j] = 0
    BY <2>8 DEF Jumped
  <2>10. /\ \A i \in 1 .. N : i > row => y2[i] = 0
         /\ \A j \in 1 .. N : (p[j] = 0 => z2[j] = 0) /\ (w2[j] # 0 => p[w2[j]] # 0)
         /\ p[0] # 0 /\ seen \subseteq 0 .. N /\ \A k \in seen : p[k] # 0
    <3>1. Elsewhere(seen, y2, z2, w2)
      BY <1>6, <2>9 DEF Elsewhere, N
    <3>2. seen = used \cup {j0}
      BY DEF seen
    <3>3. StaysOff(seen, y2, z2, w2)
      BY <3>1, <3>2, PassKeeps
    <3>4. QED
      BY <3>3 DEF StaysOff, N
  <2>11. ~(y2[row] < Half)
    <3>1. y2[row] = Jump(u[row])
      BY <1>5, <1>11, <2>9
    <3>2. y2[row] = Half
      BY <2>5, <3>1 DEF Jump
    <3>3. QED
      BY <1>11, <3>2
  <2>12. loop' = "scan"
    BY <1>3, <2>1, <2>10
  <2>13. seen \cup {0} = seen
    BY <1>11
  <2>14. Bounded(C, B, y2, z2, p, m2, seen, (1 .. N) \ seen) /\ \A j \in (1 .. N) \ seen : m2[j] = 0
    BY <2>8, <2>9 DEF free
  <2>15. QED
    BY <1>3, <1>11, <2>1, <2>8, <2>10, <2>11, <2>12, <2>13, <2>14 DEF FloatInv, N, C, B
<1>18. QED
  BY <1>16, <1>17


LEMMA FloatTypes ==
  ASSUME MatchInv, FloatInv
  PROVE  SolverTypeOK
<1>1. /\ Precision \in Nat /\ Half \in Nat /\ Forbidden = 2 * Half /\ Precision < Half
  BY HalfIs
<1>2. ASSUME NEW j \in 1 .. Size PROVE u[j] \in -Half .. Forbidden /\ v[j] \in -Forbidden .. 0
  <2>1. u[j] \in Raised(Precision - 1) /\ v[j] \in Lowered(Precision - 1)
    BY <1>2 DEF FloatInv, Prices
  <2> HIDE DEF Half, Forbidden
  <2>2. u[j] \in -Half .. Forbidden
    BY <1>1, <2>1 DEF Raised
  <2>3. v[j] \in -Forbidden .. 0
    BY <1>1, <2>1 DEF Lowered
  <2>4. QED
    BY <2>2, <2>3
<1>3. \A j \in 0 .. Size : p[j] \in 0 .. Size /\ way[j] \in 0 .. Size /\ minVal[j] \in 0 .. Half
  BY DEF MatchInv, FloatInv
<1>4. row \in 0 .. Size /\ loop \in {"rows", "scan", "augment"} /\ j0 \in 0 .. Size /\ used \subseteq 0 .. Size
  BY DEF MatchInv, FloatInv
<1>5. QED
  BY <1>2, <1>3, <1>4 DEF SolverTypeOK

LEMMA FloatLoops ==
  ASSUME MatchInv, FloatInv, loop # "rows", ~Fruitless
  PROVE  LoopsEnd
<1>1. row \in 1 .. Size /\ Size \in Nat
  <2>1. row \in 0 .. Size /\ row # 0 /\ Size \in Nat
    BY DEF MatchInv
  <2>2. QED
    BY <2>1
<1>2. u[row] < Half
  <2>1. u[row] \in -Half .. Forbidden
    BY <1>1, FloatTypes DEF SolverTypeOK
  <2>2. u[row] \in Int /\ Half \in Nat
    BY <2>1, HalfIs
  <2>3. QED
    BY <2>2 DEF Fruitless
<1>3. loop = "scan" => j0 \notin used
  BY <1>2 DEF FloatInv, Fresh
<1>4. ASSUME loop = "augment", NEW S \in SUBSET (1 .. Size), j0 \in S
      PROVE  \E j \in S : way[j] \notin S
  <2>1. Leads(Size, way, j0) /\ j0 \in 1 .. Size
    BY <1>2, <1>4 DEF FloatInv
  <2>2. QED
    BY <1>1, <1>4, <2>1, LeadsOut
<1>5. QED
  BY <1>3, <1>4 DEF LoopsEnd, WayLeadsBack

LEMMA NextFloat ==
  ASSUME Question, Exact, MatchInv, FloatInv, Modest, [SolverNext]_solverVars
  PROVE  FloatInv'
<1>1. CASE NextRow
  BY <1>1, FloatNextRow
<1>2. CASE Scan
  BY <1>2, FloatScan
<1>3. CASE Augment
  BY <1>3, FloatAugment
<1>4. CASE UNCHANGED solverVars
  <2>1. UNCHANGED input
    BY <1>4 DEF solverVars
  <2>2. Size' = Size /\ Costs' = Costs
    BY <2>1, InputStays
  <2>3. Dearest' = Dearest
    BY DEF Dearest
  <2>4. UNCHANGED <<row, loop, j0, u, v, p, way, minVal, used>>
    BY <1>4 DEF solverVars, search
  <2>5. QED
    BY <2>2, <2>3, <2>4 DEF FloatInv
<1>5. QED
  BY <1>1, <1>2, <1>3, <1>4 DEF SolverNext

LEMMA SpecFloat ==
  ASSUME Exact
  PROVE  SolverSpec /\ []Modest => [](FitInv /\ FloatInv)
<1>1. Question /\ SolverInit => FloatInv
  BY InitFloat
<1>2. FitInv /\ FloatInv /\ Modest /\ [SolverNext]_solverVars => FloatInv'
  BY NextFloat DEF FitInv
<1>3. SolverSpec => []FitInv
  BY SpecFit
<1>4. QED
  BY <1>1, <1>2, <1>3, PTL DEF SolverSpec

LEMMA FloatSound ==
  ASSUME Exact, FitInv, FloatInv
  PROVE  SolutionIsSound
<1>1. MatchInv
  BY DEF FitInv
<1>2. ColumnsDistinct
  BY <1>1, MatchColumns
<1>3. CheapestIsFound
  <2>1. ASSUME Solved, EverybodyFits PROVE Optimal(Assignments)
    <3>1. Question /\ MatchInv /\ PriceInv
      BY <2>1 DEF FitInv
    <3>2. QED
      BY <2>1, <3>1, PriceOptimal
  <2>2. QED
    BY <2>1 DEF CheapestIsFound
<1>4. SolverTypeOK
  BY <1>1, FloatTypes
<1>5. loop # "rows" /\ ~Fruitless => LoopsEnd
  BY <1>1, FloatLoops
<1>6. QED
  BY <1>2, <1>3, <1>4, <1>5 DEF SolutionIsSound

\* As long as the potentials that are no part of the largest float stay where no
\* sum is rounded, the answer is sound for every list of talents and slots:
\* whatever a forbidden pair costs, each row has a column of its own, the matching
\* is the cheapest if everybody fits, and the loops end unless a pass finds no
\* column (internal/algo/hungarian.go:149, 195).
THEOREM SolutionCorrect ==
  ASSUME Exact
  PROVE  SolverSpec /\ []Modest => []SolutionIsSound
<1>1. FitInv /\ FloatInv => SolutionIsSound
  BY FloatSound
<1>2. QED
  BY <1>1, SpecFloat, PTL


\* Small potentials are at most that far from what the dearest pair costs.
Below(bound) ==
  \A i \in 1 .. Size : /\ u[i] < Half => Dearest + u[i] <= bound
                       /\ v[i] > -Half => Dearest - v[i] <= bound

\* A pass moves the potentials on the path by no more than the dearest pair costs
\* and a column that is not on it has, or past Half.
Passed(seen, free, d) ==
  /\ \E j \in free : d <= Dearest + Span(v[j])
  /\ u[row] >= Half => d = 0
  /\ \A i \in 1 .. Size : u'[i] = u[i] \/ u'[i] = Up(u[i], d) \/ u'[i] >= Half
  /\ \A j \in 1 .. Size : \/ v'[j] = v[j]
                          \/ j \in seen /\ (v'[j] = Down(v[j], d) \/ v'[j] <= -Half)

LEMMA NearBack ==
  ASSUME NEW x \in Nat, x = Half \/ x = Forbidden \/ x < Precision
  PROVE  Near(x + Half) >= Half /\ Near(-x - Half) <= -Half
<1> DEFINE h == Half
           F == Forbidden
<1>1. h \in Nat /\ F = 2 * h /\ Precision \in Nat /\ Precision < h /\ x \in Nat
  BY HalfIs
<1>2. Near(x + h) \in Int /\ Near(x + h) >= h
  <2>1. CASE x = F
    <3>1. x + h \in Int /\ x + h >= h + F
      BY <1>1, <2>1
    <3>2. QED
      BY <3>1, NearFar
  <2>2. CASE x = h
    <3>1. x + h = F + 0 /\ 0 \in Int /\ -Precision < 0 /\ 0 < Precision
      BY <1>1, <2>2, SolverAssumption
    <3>2. Near(x + h) = F
      <4>1. Near(F + 0) = F
        BY <3>1, NearTop
      <4>2. QED
        BY <3>1, <4>1
    <3>3. QED
      BY <1>1, <3>2
  <2>3. CASE x < Precision
    <3>1. -Precision < x
      BY <1>1, <2>3
    <3>2. Near(h + x) = h
      BY <2>3, <3>1, NearTop
    <3>3. x + h = h + x
      BY <1>1
    <3>4. QED
      BY <1>1, <3>2, <3>3
  <2>4. QED
    BY <2>1, <2>2, <2>3
<1>3. Near(-x - h) = -Near(x + h)
  <2> DEFINE z == x + h
  <2>1. z \in Nat /\ -x - h = -z /\ -z < 0 /\ ~(z < 0) /\ -(-z) = z
    BY <1>1
  <2> HIDE DEF z, h
  <2>2. Near(-z) = -Magnitude(z) /\ Near(z) = Magnitude(z)
    BY <2>1 DEF Near
  <2>3. QED
    BY <2>1, <2>2 DEF z
<1> HIDE DEF h, F
<1>4. QED
  BY <1>1, <1>2, <1>3 DEF h

LEMMA ScanPasses ==
  ASSUME Question, Exact, MatchInv, FloatInv, Modest, Scan
  PROVE  \E d \in Nat : Passed(used \cup {j0}, (1 .. Size) \ (used \cup {j0}), d)
<1> DEFINE N == Size
           C == Costs
           B == Dearest
           b == Reach
<1>1. loop = "scan"
  BY DEF Scan
<1>2. p \in [0 .. N -> 0 .. N] /\ way \in [0 .. N -> 0 .. N] /\ j0 \in 0 .. N /\ N \in Nat
  BY DEF MatchInv
<1> DEFINE i0 == p[j0]
           seen == used \cup {j0}
           free == (1 .. N) \ seen
           closer == {j \in free : Reduced(i0, j) < minVal[j]}
           least == [j \in DOMAIN minVal |-> IF j \in closer THEN Reduced(i0, j) ELSE minVal[j]]
           best == {j \in free : least[j] < Half /\ \A k \in free : least[j] <= least[k]}
           j1 == IF best = {} THEN 0 ELSE Min(best)
           delta == IF best = {} THEN Half ELSE least[j1]
           w2 == [j \in DOMAIN way |-> IF j \in closer THEN j0 ELSE way[j]]
           y2 == [i \in DOMAIN u |-> Near(u[i] + delta * Cardinality({j \in seen : p[j] = i}))]
           z2 == [j \in DOMAIN v |-> IF j \in seen THEN Near(v[j] - delta) ELSE v[j]]
           m2 == [j \in DOMAIN minVal |-> IF j \in seen THEN least[j] ELSE Near(least[j] - delta)]
<1>3. u' = y2 /\ v' = z2
  BY Zenon DEF Scan, PotentialsMoved
<1>4. PICK e : Search(N, B, b, C, u, v, p, minVal, used, j0, seen, free, e)
  BY <1>1, FloatSearch
<1>5. ASSUME NEW j \in free PROVE Reduced(i0, j) = Left(C, u, v, i0, j)
  <2>1. i0 \in 1 .. N /\ j \in 1 .. N
    BY <1>4, SearchFree
  <2>2. C[i0][j] = Cost(i0, j)
    BY <2>1 DEF Costs
  <2>3. QED
    BY <2>2 DEF Reduced, Left, Uncovered
<1>6. Met(C, u, v, p, way, minVal, j0, free, least, w2)
  <2>1. closer = {j \in free : Left(C, u, v, i0, j) < minVal[j]}
    BY <1>5
  <2>2. \A j \in closer : j \in free
    OBVIOUS
  <2> HIDE DEF closer, N, C, B, b
  <2>3. least = [j \in DOMAIN minVal |-> IF j \in closer THEN Left(C, u, v, i0, j) ELSE minVal[j]]
    BY <1>5, <2>2
  <2>4. QED
    BY <2>1, <2>3 DEF Met
<1>7. Shifted(u, v, p, minVal, seen, least, delta, y2, z2, m2)
  BY DEF Shifted
<1>8. best = Nearest(Half, least, free)
  BY DEF Nearest
<1>9. u[row] >= Half => \A j \in free : minVal[j] = 0
  BY <1>1 DEF FloatInv, seen, free, N
<1>10. /\ Half \in Nat /\ Forbidden = 2 * Half /\ Precision < Half /\ Precision \in Nat
       /\ \A j \in free : j \in 1 .. N /\ j \in 0 .. N
       /\ B \in Nat /\ b \in Nat /\ B + 2 * b < Precision
       /\ \A i \in 1 .. N : u[i] \in Raised(b) /\ v[i] \in Lowered(b)
  BY <1>4, SearchFree, HalfIs
<1> HIDE DEF N, C, B, b, i0, seen, free, closer, least, best, w2, y2, z2, m2
<1>11. /\ least \in [0 .. N -> 0 .. Half] /\ Bounded(C, B, u, v, p, least, seen, free)
       /\ \A j \in free : least[j] <= minVal[j]
  BY <1>4, <1>6, SearchLeast
<1>12. CASE best # {}
  <2>1. /\ j1 \in free /\ least[j1] < Half /\ delta = least[j1] /\ delta \in 0 .. (B + b)
        /\ Beyond(delta, least, free)
    <3>1. j1 = Min(best) /\ delta = least[j1]
      BY <1>12
    <3>2. /\ Min(best) \in free /\ least[Min(best)] < Half /\ least[Min(best)] \in 0 .. (B + b)
          /\ Beyond(least[Min(best)], least, free)
      BY <1>4, <1>8, <1>11, <1>12, SearchChooses
    <3> HIDE DEF j1, delta
    <3>3. QED
      BY <3>1, <3>2
  <2> HIDE DEF j1, delta
  <2>2. Climbed(N, u, v, p, seen, free, least, delta, y2, z2, m2)
    BY <1>4, <1>7, <1>11, <2>1, SearchMoves
  <2>3. /\ \A i \in 1 .. N : y2[i] = u[i] \/ y2[i] = Up(u[i], delta)
        /\ \A j \in 1 .. N : z2[j] = v[j] \/ (j \in seen /\ z2[j] = Down(v[j], delta))
    <3>1. /\ \A i \in 1 .. N : y2[i] = IF \E k \in seen : p[k] = i THEN Up(u[i], delta) ELSE u[i]
          /\ \A j \in 1 .. N : z2[j] = IF j \in seen THEN Down(v[j], delta) ELSE v[j]
      BY <2>2 DEF Climbed
    <3>2. ASSUME NEW i \in 1 .. N PROVE y2[i] = u[i] \/ y2[i] = Up(u[i], delta)
      BY <3>1
    <3>3. ASSUME NEW j \in 1 .. N PROVE z2[j] = v[j] \/ (j \in seen /\ z2[j] = Down(v[j], delta))
      <4>1. CASE j \in seen
        BY <3>1, <4>1
      <4>2. CASE j \notin seen
        BY <3>1, <4>2
      <4>3. QED
        BY <4>1, <4>2
    <3>4. QED
      BY <3>2, <3>3
  <2>4. delta <= B + Span(v[j1])
    <3>1. least[j1] = Half \/ least[j1] <= B + Span(v[j1])
      BY <1>11, <2>1 DEF Bounded
    <3>2. least[j1] # Half
      BY <1>10, <2>1
    <3>3. QED
      BY <2>1, <3>1, <3>2
  <2>5. u[row] >= Half => delta = 0
    <3>1. ASSUME u[row] >= Half PROVE delta = 0
      <4>1. least[j1] <= 0
        BY <1>9, <1>11, <2>1, <3>1
      <4>2. QED
        BY <1>10, <2>1, <4>1
    <3>2. QED
      BY <3>1
  <2>6. delta \in Nat
    BY <1>10, <2>1
  <2>7. Passed(seen, free, delta)
    BY <1>3, <2>1, <2>3, <2>4, <2>5 DEF Passed, N, B
  <2>8. QED
    BY <2>6, <2>7 DEF seen, free, N
<1>13. CASE best = {}
  <2>1. delta = Half
    BY <1>13
  <2>2. Shifted(u, v, p, minVal, seen, least, Half, y2, z2, m2)
    BY <1>7, <2>1
  <2>3. Changed(N, u, v, p, seen, least, Half, y2, z2, m2)
    BY <1>4, <1>10, <2>2, SearchShifts
  <2>4. /\ \A i \in 1 .. N : y2[i] = u[i] \/ y2[i] = Near(u[i] + Half)
        /\ \A j \in 1 .. N : z2[j] = v[j] \/ (j \in seen /\ z2[j] = Near(v[j] - Half))
    <3>1. /\ \A i \in 1 .. N : y2[i] = IF \E k \in seen : p[k] = i THEN Near(u[i] + Half) ELSE u[i]
          /\ \A j \in 1 .. N : z2[j] = IF j \in seen THEN Near(v[j] - Half) ELSE v[j]
      BY <2>3 DEF Changed
    <3>2. ASSUME NEW i \in 1 .. N PROVE y2[i] = u[i] \/ y2[i] = Near(u[i] + Half)
      BY <3>1
    <3>3. ASSUME NEW j \in 1 .. N PROVE z2[j] = v[j] \/ (j \in seen /\ z2[j] = Near(v[j] - Half))
      <4>1. CASE j \in seen
        BY <3>1, <4>1
      <4>2. CASE j \notin seen
        BY <3>1, <4>2
      <4>3. QED
        BY <4>1, <4>2
    <3>4. QED
      BY <3>2, <3>3
  <2>5. ASSUME NEW i \in 1 .. N PROVE Near(u[i] + Half) >= Half /\ Near(v[i] - Half) <= -Half
    <3> DEFINE x == u[i]
               y == -v[i]
    <3>1. x \in Raised(b) /\ v[i] \in Lowered(b)
      BY <1>10
    <3>2. x \in Nat /\ (x = Half \/ x = Forbidden \/ x < Precision)
      BY <1>10, <3>1 DEF Raised
    <3>3. y \in Nat /\ (y = Half \/ y = Forbidden \/ y < Precision) /\ v[i] = -y
      BY <1>10, <3>1 DEF Lowered
    <3> HIDE DEF x, y
    <3>4. Near(x + Half) >= Half
      BY <3>2, NearBack
    <3>5. Near(-y - Half) <= -Half
      BY <3>3, NearBack
    <3>6. QED
      BY <3>3, <3>4, <3>5 DEF x
  <2>6. /\ \A i \in 1 .. N : y2[i] = u[i] \/ y2[i] >= Half
        /\ \A j \in 1 .. N : z2[j] = v[j] \/ (j \in seen /\ z2[j] <= -Half)
    BY <2>4, <2>5
  <2>7. e \in free /\ v[e] = 0
    BY <1>4, SearchFree DEF Search
  <2>8. 0 <= B + Span(v[e])
    <3>1. Span(v[e]) \in Nat
      <4>1. \A x \in Int : x = 0 => Span(x) \in Nat
        BY DEF Span
      <4>2. QED
        BY <2>7, <4>1
    <3>2. QED
      BY <1>10, <3>1
  <2>9. Passed(seen, free, 0)
    BY <1>3, <2>6, <2>7, <2>8 DEF Passed, N, B
  <2>10. QED
    BY <2>9 DEF seen, free, N
<1>14. QED
  BY <1>12, <1>13, Zenon


\* A bound for the small potentials after every row: it grows as many times as
\* there are rows, and then some.
Rising(g) ==
  /\ g \in [0 .. Size -> Nat]
  /\ \A r \in 0 .. Size : Dearest <= g[r] /\ 2 * g[r] < Precision
  /\ \A r \in 1 .. Size : (Size + 1) * g[r - 1] <= g[r]

\* The lists are short enough for such a bound below where float64 rounds.
Room == \E g \in [0 .. Size -> Nat] : Rising(g)

Grown(g) ==
  /\ loop # "scan" => Below(g[row])
  /\ loop = "scan" =>
       /\ Below(g[row - 1] * (1 + Cardinality(used)))
       /\ \A j \in (1 .. Size) \ (used \cup {j0}) : v[j] > -Half => Dearest - v[j] <= g[row - 1]

LEMMA FewColumns ==
  ASSUME NEW N \in Nat, NEW S, S \subseteq 0 .. N, NEW e \in 0 .. N, e \notin S
  PROVE  IsFiniteSet(S) /\ Cardinality(S) \in 0 .. N
<1> DEFINE I == 0 .. N
<1>1. IsFiniteSet(I) /\ Cardinality(I) = N + 1
  <2>1. 0 \in Int /\ N \in Int /\ (IF 0 > N THEN 0 ELSE N - 0 + 1) = N + 1
    OBVIOUS
  <2>2. QED
    BY <2>1, FS_Interval
<1>2. e \in I /\ S \subseteq I \ {e}
  OBVIOUS
<1> HIDE DEF I
<1>3. IsFiniteSet(I \ {e}) /\ Cardinality(I \ {e}) = N
  BY <1>1, <1>2, FS_RemoveElement
<1>4. IsFiniteSet(S) /\ Cardinality(S) <= N
  BY <1>2, <1>3, FS_Subset
<1>5. Cardinality(S) \in Nat
  BY <1>4, FS_CardinalityType
<1>6. QED
  BY <1>4, <1>5

\* A row never meets every column: one is nobody's.
LEMMA ColumnsMet ==
  ASSUME MatchInv, FloatInv, loop = "scan"
  PROVE  LET seen == used \cup {j0}
         IN  /\ row \in 1 .. Size /\ Size \in Nat /\ IsFiniteSet(used) /\ IsFiniteSet(seen)
             /\ Cardinality(used) \in 0 .. Size /\ Cardinality(seen) \in 0 .. Size
<1> DEFINE seen == used \cup {j0}
<1>1. row \in 1 .. Size /\ Size \in Nat /\ Coupled(p, 1 .. Size, row - 1) /\ j0 \in 0 .. Size
  <2>1. row \in 0 .. Size /\ row # 0 /\ Size \in Nat
    BY DEF MatchInv
  <2>2. row \in 1 .. Size
    BY <2>1
  <2>3. QED
    BY <2>2 DEF MatchInv
<1>2. PICK e \in 1 .. Size : p[e] = 0
  BY <1>1, FreeColumn
<1>3. used \subseteq 0 .. Size /\ \A k \in seen : p[k] # 0
  BY DEF FloatInv
<1>4. e \in 0 .. Size /\ e \notin seen /\ e \notin used /\ seen \subseteq 0 .. Size
  BY <1>1, <1>2, <1>3
<1> HIDE DEF seen
<1>5. IsFiniteSet(used) /\ Cardinality(used) \in 0 .. Size
  BY <1>1, <1>3, <1>4, FewColumns
<1>6. IsFiniteSet(seen) /\ Cardinality(seen) \in 0 .. Size
  BY <1>1, <1>4, FewColumns
<1>7. QED
  BY <1>1, <1>5, <1>6 DEF seen

LEMMA TimesLess ==
  ASSUME NEW a \in Nat, NEW m \in Nat, NEW n \in Nat, m <= n
  PROVE  a * m \in Nat /\ a * n \in Nat /\ a * m <= a * n
<1>1. n - m \in Nat
  OBVIOUS
<1>2. PICK k \in Nat : n = m + k
  BY <1>1
<1>3. a * n = a * m + a * k /\ a * m \in Nat /\ a * k \in Nat
  BY <1>2
<1>4. QED
  BY <1>3

LEMMA BelowMore ==
  ASSUME NEW c \in Nat, NEW d \in Nat, c <= d, Below(c),
         \A i \in 1 .. Size : u[i] \in Int /\ v[i] \in Int
  PROVE  Below(d)
<1>1. Dearest \in Int
  BY SolverAssumption DEF Dearest
<1>2. QED
  BY <1>1 DEF Below

LEMMA FloatInts ==
  ASSUME FloatInv
  PROVE  \A i \in 1 .. Size : u[i] \in Nat /\ v[i] \in Int
<1>1. ASSUME NEW i \in 1 .. Size PROVE u[i] \in Nat /\ v[i] \in Int
  <2>1. u[i] \in Raised(Precision - 1) /\ v[i] \in Lowered(Precision - 1)
    BY DEF FloatInv, Prices
  <2>2. Half \in Nat /\ Forbidden = 2 * Half /\ Precision \in Nat
    BY HalfIs
  <2>3. QED
    BY <2>1, <2>2 DEF Raised, Lowered
<1>2. QED
  BY <1>1

\* The bound of the row the solver is at.
LEMMA GrownBelow ==
  ASSUME Question, Exact, MatchInv, FloatInv, NEW g, Rising(g), Grown(g)
  PROVE  Below(g[row]) /\ row \in 0 .. Size /\ g[row] \in Nat
<1>1. row \in 0 .. Size /\ Size \in Nat
  BY DEF MatchInv
<1>2. g[row] \in Nat
  BY <1>1 DEF Rising
<1>3. CASE loop # "scan"
  BY <1>1, <1>2, <1>3 DEF Grown
<1>4. CASE loop = "scan"
  <2> DEFINE K == Cardinality(used)
             G == g[row - 1]
  <2>1. row \in 1 .. Size /\ K \in 0 .. Size
    BY <1>4, ColumnsMet
  <2>2. row - 1 \in 0 .. Size
    BY <1>1, <2>1
  <2>3. G \in Nat /\ (Size + 1) * G <= g[row]
    BY <2>1, <2>2 DEF Rising
  <2>4. Below(G * (1 + K))
    BY <1>4 DEF Grown
  <2> HIDE DEF K, G
  <2>5. 1 + K \in Nat /\ Size + 1 \in Nat /\ 1 + K <= Size + 1
    BY <1>1, <2>1
  <2>6. G * (1 + K) \in Nat /\ G * (1 + K) <= G * (Size + 1)
    BY <2>3, <2>5, TimesLess
  <2>7. G * (Size + 1) = (Size + 1) * G
    BY <1>1, <2>3
  <2>8. G * (1 + K) <= g[row]
    <3> DEFINE x == G * (1 + K)
               y == G * (Size + 1)
               z == (Size + 1) * G
    <3>1. x \in Nat /\ y \in Nat /\ x <= y /\ y = z /\ z <= g[row]
      BY <2>3, <2>5, <2>6, <2>7, TimesLess
    <3> HIDE DEF x, y, z
    <3>2. x <= g[row]
      BY <1>2, <3>1
    <3>3. QED
      BY <3>2 DEF x
  <2>9. \A i \in 1 .. Size : u[i] \in Int /\ v[i] \in Int
    <3>1. \A n \in Nat : n \in Int
      OBVIOUS
    <3>2. QED
      BY <3>1, FloatInts
  <2>10. QED
    BY <1>1, <1>2, <2>4, <2>6, <2>8, <2>9, BelowMore
<1>5. QED
  BY <1>3, <1>4

LEMMA GrownModest ==
  ASSUME Question, Exact, MatchInv, FloatInv, NEW g, Rising(g), Grown(g)
  PROVE  Modest
<1>1. Below(g[row]) /\ row \in 0 .. Size /\ g[row] \in Nat
  BY GrownBelow
<1>2. 2 * g[row] < Precision /\ Dearest \in Nat /\ Precision \in Nat
  BY <1>1, AllCostsAre, HalfIs DEF Rising
<1>3. \A i \in 1 .. Size : u[i] \in Nat /\ v[i] \in Int
  BY FloatInts
<1> DEFINE G == g[row]
<1>4. G \in Nat /\ 2 * G < Precision /\ Below(G)
  BY <1>1, <1>2
<1> HIDE DEF G
<1>5. ASSUME NEW i \in 1 .. Size
      PROVE  /\ u[i] < Half => Dearest + 2 * u[i] < Precision
             /\ v[i] > -Half => Dearest - 2 * v[i] < Precision
  <2>1. /\ u[i] < Half => Dearest + u[i] <= G
        /\ v[i] > -Half => Dearest - v[i] <= G
    BY <1>4 DEF Below
  <2>2. u[i] \in Nat /\ v[i] \in Int
    BY <1>3
  <2> DEFINE x == u[i]
             y == v[i]
  <2>3. x \in Nat /\ y \in Int /\ (x < Half => Dearest + x <= G) /\ (y > -Half => Dearest - y <= G)
    BY <2>1, <2>2
  <2> HIDE DEF x, y
  <2>4. /\ x < Half => Dearest + 2 * x < Precision
        /\ y > -Half => Dearest - 2 * y < Precision
    BY <1>2, <1>4, <2>3
  <2>5. QED
    BY <2>4 DEF x, y
<1>6. QED
  BY <1>5 DEF Modest

LEMMA InitGrown ==
  ASSUME Question, Exact, SolverInit, NEW g, Rising(g)
  PROVE  Grown(g)
<1>1. Size \in Nat /\ Dearest \in Nat
  BY AllCostsAre
<1>2. Dearest <= g[0] /\ g[0] \in Nat
  BY <1>1 DEF Rising
<1>3. loop = "rows" /\ row = 0 /\ \A i \in 1 .. Size : u[i] = 0 /\ v[i] = 0
  BY <1>1 DEF SolverInit, Everywhere
<1>4. Below(g[0])
  BY <1>1, <1>2, <1>3 DEF Below
<1>5. QED
  BY <1>3, <1>4 DEF Grown

LEMMA GrownNextRow ==
  ASSUME Question, Exact, MatchInv, NEW g, Rising(g), Grown(g), NextRow
  PROVE  Grown(g)'
<1>1. /\ Size' = Size /\ u' = u /\ v' = v /\ loop = "rows" /\ loop' = "scan" /\ row' = row + 1
      /\ j0' = 0 /\ used' = {} /\ g' = g
  BY InputStays DEF NextRow
<1>2. Below(g[row]) /\ row \in 0 .. Size /\ Size \in Nat
  BY <1>1 DEF Grown, MatchInv
<1>3. row' - 1 = row /\ g[row] \in Nat
  BY <1>1, <1>2 DEF Rising
<1>4. g[row] * (1 + Cardinality({})) = g[row]
  <2>1. Cardinality({}) = 0
    BY FS_EmptySet
  <2>2. QED
    BY <1>3, <2>1
<1>5. Below(g[row' - 1] * (1 + Cardinality(used')))
  BY <1>1, <1>2, <1>3, <1>4
<1>6. \A j \in 1 .. Size : v[j] > -Half => Dearest - v[j] <= g[row' - 1]
  BY <1>2, <1>3 DEF Below
<1>7. QED
  BY <1>1, <1>5, <1>6 DEF Grown, Below, Dearest


LEMMA GrownAugment ==
  ASSUME Question, Exact, MatchInv, NEW g, Rising(g), Grown(g), Augment
  PROVE  Grown(g)'
<1>1. /\ Size' = Size /\ u' = u /\ v' = v /\ loop = "augment" /\ row' = row
      /\ loop' = IF way[j0] = 0 THEN "rows" ELSE "augment"
  BY InputStays DEF Augment
<1>2. Below(g[row]) /\ loop' # "scan"
  BY <1>1 DEF Grown
<1>3. QED
  BY <1>1, <1>2 DEF Grown, Below, Dearest

\* How far a pass may move the potentials.
LEMMA PassRoom ==
  ASSUME Question, Exact, MatchInv, FloatInv, loop = "scan", NEW g, Rising(g), Grown(g),
         NEW d \in Nat, Passed(used \cup {j0}, (1 .. Size) \ (used \cup {j0}), d)
  PROVE  LET bound == g[row - 1] * (1 + Cardinality(used))
             next  == g[row - 1] * (1 + Cardinality(used \cup {j0}))
         IN  bound \in Nat /\ next \in Nat /\ bound + d <= next /\ next <= g[row]
<1> DEFINE seen == used \cup {j0}
           free == (1 .. Size) \ seen
           K == Cardinality(used)
           L == Cardinality(seen)
           G == g[row - 1]
<1>1. /\ row \in 1 .. Size /\ Size \in Nat /\ IsFiniteSet(used) /\ K \in 0 .. Size /\ L \in 0 .. Size
  BY ColumnsMet
<1>2. row - 1 \in 0 .. Size /\ row \in 0 .. Size
  BY <1>1
<1>3. G \in Nat /\ Dearest <= G /\ (Size + 1) * G <= g[row] /\ g[row] \in Nat /\ Dearest \in Nat
  BY <1>1, <1>2, AllCostsAre DEF Rising
<1>4. \A j \in free : v[j] > -Half => Dearest - v[j] <= G
  BY DEF Grown
<1>5. \A j \in 1 .. Size : v[j] \in Int
  BY FloatInts
<1>6. /\ \E j \in free : d <= Dearest + Span(v[j])
      /\ u[row] >= Half => d = 0
  BY DEF Passed
<1>7. u[row] \in Nat /\ Half \in Nat /\ (u[row] < Half => j0 \notin used)
  <2>1. u[row] \in Nat
    BY <1>1, FloatInts
  <2>2. u[row] < Half => j0 \notin used
    BY DEF FloatInv, Fresh
  <2>3. QED
    BY <2>1, <2>2, HalfIs
<1>8. j0 \notin used => L = K + 1
  BY <1>1, FS_AddElement
<1>9. j0 \in used => L = K
  <2>1. j0 \in used => used \cup {j0} = used
    OBVIOUS
  <2>2. QED
    BY <2>1
<1>10. \A j \in free : j \in 1 .. Size
  OBVIOUS
<1> HIDE DEF seen, free, K, L, G
<1>11. d <= G
  <2>1. PICK j \in free : d <= Dearest + Span(v[j])
    BY <1>6
  <2> DEFINE y == v[j]
  <2>2. y \in Int /\ (y > -Half => Dearest - y <= G) /\ d <= Dearest + Span(y)
    BY <1>4, <1>5, <1>10, <2>1
  <2> HIDE DEF y
  <2>3. CASE y > -Half
    <3>1. Span(y) = -y
      BY <2>3 DEF Span
    <3>2. QED
      BY <1>3, <2>2, <2>3, <3>1
  <2>4. CASE ~(y > -Half)
    <3>1. Span(y) = 0
      BY <2>4 DEF Span
    <3>2. QED
      BY <1>3, <2>2, <3>1
  <2>5. QED
    BY <2>3, <2>4
<1>12. /\ G * (1 + K) \in Nat /\ G * (1 + L) \in Nat /\ G * (Size + 1) \in Nat /\ G * (1 + L) <= G * (Size + 1)
  <2>1. 1 + K \in Nat /\ 1 + L \in Nat /\ Size + 1 \in Nat /\ 1 + L <= Size + 1 /\ 1 + K <= Size + 1
    BY <1>1
  <2>2. QED
    BY <1>3, <2>1, TimesLess
<1>13. G * (1 + K) + d <= G * (1 + L)
  <2>1. CASE j0 \in used
    <3>1. ~(u[row] < Half) /\ L = K
      BY <1>7, <1>9, <2>1
    <3>2. d = 0
      BY <1>6, <1>7, <3>1
    <3>3. QED
      BY <1>12, <3>1, <3>2
  <2>2. CASE j0 \notin used
    <3>1. L = K + 1 /\ K \in Nat
      BY <1>1, <1>8, <2>2
    <3>2. G * (1 + L) = G * (1 + K) + G
      BY <1>3, <3>1
    <3>3. QED
      BY <1>3, <1>11, <1>12, <3>2
  <2>3. QED
    BY <2>1, <2>2
<1>14. G * (1 + L) <= g[row]
  <2>1. G * (Size + 1) = (Size + 1) * G
    BY <1>1, <1>3
  <2> DEFINE x == G * (1 + L)
             y == G * (Size + 1)
             z == (Size + 1) * G
  <2>2. x \in Nat /\ y \in Nat /\ x <= y /\ y = z /\ z <= g[row]
    BY <1>3, <1>12, <2>1
  <2> HIDE DEF x, y, z
  <2>3. x <= g[row]
    BY <1>3, <2>2
  <2>4. QED
    BY <2>3 DEF x
<1>15. QED
  BY <1>12, <1>13, <1>14 DEF K, L, G, seen

LEMMA GrownScan ==
  ASSUME Question, Exact, MatchInv, FloatInv, FloatInv', NEW g, Rising(g), Grown(g), Scan
  PROVE  Grown(g)'
<1> DEFINE seen == used \cup {j0}
           free == (1 .. Size) \ seen
           X == g[row - 1] * (1 + Cardinality(used))
           Y == g[row - 1] * (1 + Cardinality(seen))
<1>1. /\ loop = "scan" /\ loop' \in {"scan", "augment"} /\ row' = row /\ used' = seen
      /\ Size' = Size /\ Dearest' = Dearest
  BY InputStays, Zenon DEF Scan, Dearest
<1>2. PICK d \in Nat : Passed(seen, free, d)
  BY GrownModest, ScanPasses
<1>3. X \in Nat /\ Y \in Nat /\ X + d <= Y /\ Y <= g[row]
  BY <1>1, <1>2, PassRoom
<1>4. Below(X) /\ \A j \in free : v[j] > -Half => Dearest - v[j] <= g[row - 1]
  BY <1>1 DEF Grown
<1>5. /\ \A i \in 1 .. Size : u'[i] = u[i] \/ u'[i] = Up(u[i], d) \/ u'[i] >= Half
      /\ \A j \in 1 .. Size : \/ v'[j] = v[j]
                              \/ v'[j] = Down(v[j], d) \/ v'[j] <= -Half
      /\ \A j \in free : v'[j] = v[j]
  BY <1>2 DEF Passed
<1>6. \A i \in 1 .. Size : u[i] \in Nat /\ v[i] \in Int /\ u'[i] \in Nat /\ v'[i] \in Int
  <2>1. ASSUME NEW i \in 1 .. Size PROVE u'[i] \in Nat /\ v'[i] \in Int
    <3>1. Prices(Costs', Size', Precision - 1, u', v')
      BY DEF FloatInv
    <3>2. u'[i] \in Raised(Precision - 1) /\ v'[i] \in Lowered(Precision - 1)
      BY <1>1, <3>1 DEF Prices
    <3>3. Half \in Nat /\ Forbidden = 2 * Half /\ Precision \in Nat
      BY HalfIs
    <3>4. QED
      BY <3>2, <3>3 DEF Raised, Lowered
  <2>2. QED
    BY <2>1, FloatInts
<1>7. Half \in Nat /\ Dearest \in Nat /\ Size \in Nat /\ row \in 0 .. Size /\ g[row] \in Nat
  BY AllCostsAre, HalfIs, GrownBelow
<1> HIDE DEF seen, free, X, Y
<1>8. ASSUME NEW i \in 1 .. Size
      PROVE  /\ u'[i] < Half => Dearest + u'[i] <= Y
             /\ v'[i] > -Half => Dearest - v'[i] <= Y
  <2> DEFINE x == u[i]
             y == v[i]
             x2 == u'[i]
             y2 == v'[i]
  <2>1. /\ x \in Nat /\ y \in Int /\ x2 \in Nat /\ y2 \in Int
        /\ x < Half => Dearest + x <= X
        /\ y > -Half => Dearest - y <= X
        /\ x2 = x \/ x2 = Up(x, d) \/ x2 >= Half
        /\ y2 = y \/ y2 = Down(y, d) \/ y2 <= -Half
    BY <1>4, <1>5, <1>6 DEF Below
  <2> HIDE DEF x, y, x2, y2
  <2>2. x2 < Half => Dearest + x2 <= Y
    BY <1>3, <1>7, <2>1 DEF Up
  <2>3. y2 > -Half => Dearest - y2 <= Y
    BY <1>3, <1>7, <2>1 DEF Down
  <2>4. QED
    BY <2>2, <2>3 DEF x2, y2
<1>9. CASE loop' = "augment"
  <2>1. Below(g[row])'
    <3>1. g' = g
      OBVIOUS
    <3>2. ASSUME NEW i \in 1 .. Size
          PROVE  /\ u'[i] < Half => Dearest + u'[i] <= g[row]
                 /\ v'[i] > -Half => Dearest - v'[i] <= g[row]
      <4> DEFINE x2 == u'[i]
                 y2 == v'[i]
                 b == g[row]
      <4>1. /\ x2 \in Nat /\ y2 \in Int /\ b \in Nat /\ Y <= b /\ Y \in Nat
            /\ x2 < Half => Dearest + x2 <= Y
            /\ y2 > -Half => Dearest - y2 <= Y
        BY <1>3, <1>6, <1>7, <1>8
      <4> HIDE DEF x2, y2, b
      <4>2. /\ x2 < Half => Dearest + x2 <= b
            /\ y2 > -Half => Dearest - y2 <= b
        BY <1>7, <4>1
      <4>3. QED
        BY <4>2 DEF x2, y2, b
    <3>3. QED
      BY <1>1, <3>2 DEF Below, Dearest
  <2>2. QED
    BY <1>9, <2>1 DEF Grown
<1>10. CASE loop' = "scan"
  <2>1. Below(g[row - 1] * (1 + Cardinality(used)))'
    <3>1. Y = g[row' - 1] * (1 + Cardinality(used'))
      BY <1>1 DEF Y
    <3>2. QED
      BY <1>1, <1>8, <3>1 DEF Below, Dearest
  <2>2. \A j \in (1 .. Size') \ (used' \cup {j0'}) : v'[j] > -Half => Dearest - v'[j] <= g[row' - 1]
    <3>1. \A j \in (1 .. Size') \ (used' \cup {j0'}) : j \in free
      BY <1>1 DEF free
    <3>2. QED
      BY <1>1, <1>4, <1>5, <3>1
  <2>3. QED
    BY <1>1, <1>10, <2>1, <2>2 DEF Grown, Dearest
<1>11. QED
  BY <1>1, <1>9, <1>10, Zenon

GrowInv == \E g \in [0 .. Size -> Nat] : Rising(g) /\ Grown(g)

LEMMA GrowModest ==
  ASSUME Question, Exact, MatchInv, FloatInv, GrowInv
  PROVE  Modest
<1>1. PICK g \in [0 .. Size -> Nat] : Rising(g) /\ Grown(g)
  BY DEF GrowInv
<1>2. QED
  BY <1>1, GrownModest

LEMMA NextGrow ==
  ASSUME Question, Exact, MatchInv, FloatInv, FloatInv', GrowInv, [SolverNext]_solverVars
  PROVE  GrowInv'
<1>1. PICK g \in [0 .. Size -> Nat] : Rising(g) /\ Grown(g)
  BY DEF GrowInv
<1>2. UNCHANGED input /\ Size' = Size
  <2>1. UNCHANGED input
    BY Zenon DEF SolverNext, NextRow, Scan, Augment, solverVars
  <2>2. QED
    BY <2>1, InputStays, Zenon
<1>3. Rising(g)'
  BY <1>1, <1>2 DEF Rising, Dearest
<1>4. Grown(g)'
  <2>1. CASE NextRow
    BY <1>1, <2>1, GrownNextRow
  <2>2. CASE Scan
    BY <1>1, <2>2, GrownScan
  <2>3. CASE Augment
    BY <1>1, <2>3, GrownAugment
  <2>4. CASE UNCHANGED solverVars
    <3>1. UNCHANGED <<row, loop, j0, u, v, used>>
      BY <2>4 DEF solverVars, search
    <3>2. QED
      BY <1>1, <1>2, <3>1 DEF Grown, Below, Dearest
  <2>5. QED
    BY <2>1, <2>2, <2>3, <2>4 DEF SolverNext
<1>5. g \in [0 .. Size' -> Nat]
  BY <1>1, <1>2
<1>6. QED
  BY <1>3, <1>4, <1>5 DEF GrowInv

LEMMA SpecGrow ==
  ASSUME Exact
  PROVE  SolverSpec /\ Room => [](FitInv /\ FloatInv /\ GrowInv)
<1>1. Question /\ SolverInit /\ Room => FloatInv /\ GrowInv
  <2>1. SUFFICES ASSUME Question, SolverInit, Room PROVE FloatInv /\ GrowInv
    OBVIOUS
  <2>2. PICK g \in [0 .. Size -> Nat] : Rising(g)
    BY <2>1 DEF Room
  <2>3. Grown(g)
    BY <2>1, <2>2, InitGrown
  <2>4. QED
    BY <2>1, <2>2, <2>3, InitFloat DEF GrowInv
<1>2. FitInv /\ FloatInv /\ GrowInv /\ [SolverNext]_solverVars => (FloatInv /\ GrowInv)'
  <2>1. SUFFICES ASSUME FitInv, FloatInv, GrowInv, [SolverNext]_solverVars PROVE (FloatInv /\ GrowInv)'
    OBVIOUS
  <2>2. Question /\ MatchInv
    BY <2>1 DEF FitInv
  <2>3. FloatInv'
    BY <2>1, <2>2, GrowModest, NextFloat
  <2>4. GrowInv'
    BY <2>1, <2>2, <2>3, NextGrow
  <2>5. QED
    BY <2>3, <2>4
<1>3. SolverSpec => []FitInv
  BY SpecFit
<1>4. QED
  BY <1>1, <1>2, <1>3, PTL DEF SolverSpec

\* Lists short enough never reach a sum that is rounded: with 2^53 floats and a
\* cycle of 30 days, ten talents and slots.  For them the answer is sound outright
\* (internal/algo/hungarian.go:149, 185, 195).
THEOREM ShortListsCorrect ==
  ASSUME Exact
  PROVE  SolverSpec /\ Room => []SolutionIsSound
<1>1. FitInv /\ FloatInv => SolutionIsSound
  BY FloatSound
<1>2. QED
  BY <1>1, SpecGrow, PTL
=============================================================================
