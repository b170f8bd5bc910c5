-------------------------- MODULE PredictorsProofs --------------------------
(***************************************************************************)
(* The two predictors, for any number of callers, model names, prompt      *)
(* lengths, times, batch sizes and thresholds.                             *)
(***************************************************************************)
EXTENDS Predictors, FiniteSetTheorems, SequenceTheorems, WellFoundedInduction, TLAPS

-----------------------------------------------------------------------------
\* A set of natural numbers up to n that is not empty has a least and a
\* greatest element.
LEMMA Extremes ==
    ASSUME NEW n \in Nat, NEW S \in SUBSET (0 .. n), S # {}
    PROVE  /\ \E x \in S : \A y \in S : x <= y
           /\ Max(S) \in S /\ \A y \in S : Max(S) >= y
<1>1. ASSUME NEW T, T \subseteq Nat, T # {}
      PROVE  \E x \in T : \A y \in T : x <= y
    <2>1. PICK x \in T : \A y \in T : ~(<<y, x>> \in OpToRel(<, Nat))
        BY <1>1, WFMin, NatLessThanWellFounded
    <2>2. ASSUME NEW y \in T
          PROVE  ~(y < x)
        <3>1. y < x => <<y, x>> \in OpToRel(<, Nat)
            BY <1>1 DEF OpToRel
        <3>2. QED
            BY <2>1, <3>1
    <2>3. QED
        BY <1>1, <2>2
<1>2. \E x \in S : \A y \in S : x <= y
    <2>1. S \subseteq Nat
        OBVIOUS
    <2>2. QED
        BY <1>1, <2>1
<1>3. \E x \in S : \A y \in S : x >= y
    <2> DEFINE T == {n - x : x \in S}
    <2>1. T \subseteq Nat /\ T # {}
        <3>1. \A x \in S : n - x \in Nat
            OBVIOUS
        <3>2. QED
            BY <3>1
    <2>2. PICK d \in T : \A e \in T : d <= e
        BY <1>1, <2>1
    <2>3. PICK x \in S : d = n - x
        OBVIOUS
    <2>4. \A y \in S : n - x <= n - y
        BY <2>2, <2>3
    <2>5. QED
        BY <2>4
<1>4. QED
    BY <1>2, <1>3 DEF Max

-----------------------------------------------------------------------------
\* Sequences, whatever their elements.

IsSeq(s) == \E S : s \in Seq(S)

LEMMA SeqFacts ==
    ASSUME NEW s, IsSeq(s)
    PROVE  Len(s) \in Nat /\ DOMAIN s = 1 .. Len(s)
<1>1. PICK S : s \in Seq(S)
    BY DEF IsSeq
<1>2. QED
    BY <1>1, LenProperties

LEMMA SeqAppend ==
    ASSUME NEW s, IsSeq(s), NEW x
    PROVE  /\ IsSeq(Append(s, x)) /\ Len(Append(s, x)) = Len(s) + 1
           /\ Append(s, x)[Len(s) + 1] = x
           /\ \A i \in 1 .. Len(s) : Append(s, x)[i] = s[i]
<1>1. PICK S : s \in Seq(S)
    BY DEF IsSeq
<1>2. PICK T : T = S \cup {x}
    OBVIOUS
<1>3. s \in Seq(T) /\ x \in T
    BY <1>1, <1>2, SeqMonotonic
<1>4. /\ Append(s, x) \in Seq(T) /\ Len(Append(s, x)) = Len(s) + 1
      /\ Append(s, x)[Len(s) + 1] = x
      /\ \A i \in 1 .. Len(s) : Append(s, x)[i] = s[i]
    BY <1>3
<1>5. QED
    BY <1>4 DEF IsSeq

LEMMA SeqOfFunction ==
    ASSUME NEW n \in Nat, NEW f, f = [i \in 1 .. n |-> f[i]]
    PROVE  IsSeq(f) /\ Len(f) = n
<1>1. PICK S : S = {f[i] : i \in 1 .. n}
    OBVIOUS
<1>2. f \in [1 .. n -> S]
    BY <1>1
<1>3. f \in Seq(S) /\ Len(f) = n
    BY <1>2
<1>4. QED
    BY <1>3 DEF IsSeq

\* u is t after s.
Joined(u, s, t) ==
    /\ IsSeq(u) /\ Len(u) = Len(s) + Len(t)
    /\ \A i \in 1 .. Len(s) : u[i] = s[i]
    /\ \A i \in 1 .. Len(t) : u[Len(s) + i] = t[i]

LEMMA SeqConcat ==
    ASSUME NEW s, IsSeq(s), NEW t, IsSeq(t)
    PROVE  Joined(s \o t, s, t)
<1>1. PICK S : s \in Seq(S)
    BY DEF IsSeq
<1>2. PICK T : t \in Seq(T)
    BY DEF IsSeq
<1>3. PICK U : U = S \cup T
    OBVIOUS
<1>4. s \in Seq(U) /\ t \in Seq(U)
    BY <1>1, <1>2, <1>3, SeqMonotonic
<1>5. /\ s \o t \in Seq(U) /\ Len(s \o t) = Len(s) + Len(t)
      /\ \A i \in 1 .. Len(s) + Len(t) : (s \o t)[i] =
            IF i <= Len(s) THEN s[i] ELSE t[i - Len(s)]
    BY <1>4, ConcatProperties
<1>6. Len(s) \in Nat /\ Len(t) \in Nat
    BY SeqFacts
<1>7. \A i \in 1 .. Len(s) : (s \o t)[i] = s[i]
    BY <1>5, <1>6
<1>8. \A i \in 1 .. Len(t) : (s \o t)[Len(s) + i] = t[i]
    <2>1. SUFFICES ASSUME NEW i \in 1 .. Len(t)
                   PROVE  (s \o t)[Len(s) + i] = t[i]
        OBVIOUS
    <2>2. PICK j \in 1 .. Len(s) + Len(t) : j = Len(s) + i /\ ~(j <= Len(s)) /\ j - Len(s) = i
        BY <1>6
    <2>3. QED
        BY <1>5, <2>2
<1>9. QED
    BY <1>5, <1>7, <1>8 DEF IsSeq, Joined

LEMMA SeqSingle ==
    ASSUME NEW x
    PROVE  IsSeq(<<x>>) /\ Len(<<x>>) = 1 /\ <<x>>[1] = x
<1>1. <<x>> \in Seq({x}) /\ Len(<<x>>) = 1 /\ <<x>>[1] = x
    OBVIOUS
<1>2. QED
    BY <1>1 DEF IsSeq

LEMMA SeqEmpty == IsSeq(<<>>) /\ Len(<<>>) = 0
<1>1. <<>> \in Seq({})
    BY EmptySeq
<1>2. QED
    BY <1>1 DEF IsSeq

-----------------------------------------------------------------------------
\* The segments of the TPOT predictor.

\* Thresholds that ascend from each to the next do so altogether: nothing
\* at or below b follows one above b.
LEMMA NoneFollows ==
    ASSUME NEW thresh \in Seq(Int), Ascending(thresh), NEW b \in Int,
           NEW i \in 1 .. Len(thresh), b < thresh[i], NEW j \in i .. Len(thresh)
    PROVE  b < thresh[j]
<1>1. SUFFICES ASSUME thresh[j] <= b
               PROVE  FALSE
    OBVIOUS
<1>2. Len(thresh) \in Nat /\ \A k \in 1 .. Len(thresh) : thresh[k] \in Int
    OBVIOUS
<1> DEFINE S == {k \in i .. Len(thresh) : thresh[k] <= b}
<1>3. S \in SUBSET (0 .. Len(thresh)) /\ S # {}
    BY <1>1, <1>2
<1>4. PICK k : k \in S /\ \A l \in S : k <= l
    BY <1>2, <1>3, Extremes
<1>5. k \in Int /\ i <= k /\ k <= Len(thresh) /\ thresh[k] <= b
    BY <1>2, <1>4
<1>6. k # i
    BY <1>2, <1>5
<1>7. k - 1 \in i .. Len(thresh) /\ k - 1 \notin S
    BY <1>2, <1>4, <1>5, <1>6
<1>8. ~(thresh[k - 1] <= b)
    BY <1>7
<1>9. thresh[k - 1] < thresh[k]
    BY <1>2, <1>5, <1>6 DEF Ascending
<1>10. thresh[k - 1] \in Int /\ thresh[k] \in Int
    BY <1>2, <1>5, <1>7
<1>11. QED
    BY <1>5, <1>8, <1>9, <1>10

\* segment finds the one segment a batch size is in, if there are thresholds
\* (tpot_prediction.go, segment).
LEMMA SegmentOf ==
    ASSUME NEW thresh \in Seq(Int), Ascending(thresh), thresh # <<>>, NEW b \in Int
    PROVE  /\ segment(thresh, b) \in 1 .. Len(thresh) + 1
           /\ \A i \in 1 .. Len(thresh) + 1 :
                 InSegment(thresh, i, b) <=> i = segment(thresh, b)
<1>1. /\ Len(thresh) \in Nat /\ Len(thresh) >= 1
      /\ \A k \in 1 .. Len(thresh) : thresh[k] \in Int
    BY EmptySeq
<1> DEFINE below == {i \in 1 .. Len(thresh) : b < thresh[i]}
<1>2. CASE below = {}
    <2>1. segment(thresh, b) = Len(thresh) + 1
        BY <1>2 DEF segment
    <2>2. \A k \in 1 .. Len(thresh) : thresh[k] <= b
        BY <1>1, <1>2
    <2>3. \A i \in 1 .. Len(thresh) + 1 : InSegment(thresh, i, b) <=> i = Len(thresh) + 1
        BY <1>1, <2>2 DEF InSegment
    <2>4. QED
        BY <1>1, <2>1, <2>3
<1>3. CASE below # {}
    <2>1. below \in SUBSET (0 .. Len(thresh))
        BY <1>1
    <2>2. \E i \in below : \A j \in below : i <= j
        BY <1>1, <1>3, <2>1, Extremes
    <2>3. PICK first : first = segment(thresh, b)
        OBVIOUS
    <2>4. first \in below /\ \A j \in below : first <= j
        BY <1>3, <2>2, <2>3 DEF segment
    <2>5. first \in 1 .. Len(thresh) /\ b < thresh[first]
        BY <2>4
    <2>6. ASSUME NEW i \in 1 .. Len(thresh) + 1
          PROVE  InSegment(thresh, i, b) <=> i = first
        <3>1. CASE i < first
            <4>1. i \in 1 .. Len(thresh) /\ i \notin below
                BY <1>1, <2>4, <2>5, <3>1
            <4>2. QED
                BY <1>1, <3>1, <4>1 DEF InSegment
        <3>2. CASE i > first
            <4>1. i - 1 \in first .. Len(thresh)
                BY <1>1, <2>5, <3>2
            <4>2. b < thresh[i - 1]
                BY <2>5, <4>1, NoneFollows
            <4>3. i > 1 /\ ~(thresh[i - 1] <= b)
                BY <1>1, <2>5, <3>2, <4>1, <4>2
            <4>4. QED
                BY <1>1, <3>2, <4>3 DEF InSegment
        <3>3. CASE i = first
            <4>1. i > 1 => thresh[i - 1] <= b
                <5>1. SUFFICES ASSUME i > 1
                               PROVE  thresh[i - 1] <= b
                    OBVIOUS
                <5>2. i - 1 \in 1 .. Len(thresh) /\ i - 1 \notin below
                    BY <1>1, <2>4, <2>5, <3>3, <5>1
                <5>3. QED
                    BY <1>1, <5>2
            <4>2. QED
                BY <2>5, <3>3, <4>1 DEF InSegment
        <3>4. QED
            BY <1>1, <2>5, <3>1, <3>2, <3>3
    <2>7. QED
        BY <1>1, <2>3, <2>5, <2>6
<1>4. QED
    BY <1>2, <1>3

-----------------------------------------------------------------------------
\* The estimators of the TPOT predictors.

\* A predictor has ascending thresholds, and a segment more than thresholds,
\* each with one of the first count estimators.
Built(predictor, samples, count) ==
    /\ DOMAIN predictor = {"thresh", "rls"}
    /\ predictor.thresh \in Seq(Int) /\ Ascending(predictor.thresh)
    /\ DOMAIN predictor.rls = 1 .. Len(predictor.thresh) + 1
    /\ DOMAIN samples = 1 .. Len(predictor.thresh) + 1
    /\ \A i \in DOMAIN predictor.rls : predictor.rls[i] \in 1 .. count

\* No estimator serves two segments, of one predictor or of two.
Unshared ==
    \A p, q \in DOMAIN predictors :
        \A i \in DOMAIN predictors[p].rls, j \in DOMAIN predictors[q].rls :
            predictors[p].rls[i] = predictors[q].rls[j] => p = q /\ i = j

TpotInv ==
    /\ IsSeq(predictors) /\ IsSeq(estimators) /\ IsSeq(trained)
    /\ Len(trained) = Len(predictors) /\ panicked \subseteq DOMAIN predictors
    /\ \A e \in 1 .. Len(estimators) : DOMAIN estimators[e] = {"from", "samples"}
    /\ \A p \in DOMAIN predictors : Built(predictors[p], trained[p], Len(estimators))
    /\ Unshared
    /\ SegmentsApart

LEMMA TpotStart == InitTpot => TpotInv
<1>1. SUFFICES ASSUME InitTpot
               PROVE  TpotInv
    OBVIOUS
<1>2. predictors = <<>> /\ estimators = <<>> /\ trained = <<>>
    BY <1>1 DEF InitTpot
<1>3. DOMAIN predictors = {} /\ 1 .. Len(estimators) = {}
    BY <1>2, SeqEmpty, SeqFacts
<1>4. panicked = {}
    BY <1>1 DEF InitTpot
<1>5. QED
    BY <1>2, <1>3, <1>4, SeqEmpty DEF TpotInv, Unshared, SegmentsApart

LEMMA NewStep ==
    ASSUME TpotInv, NEW thresh \in Threshes, NEW given \in 0 .. MaxParams,
           NewPredictor(thresh, given)
    PROVE  TpotInv'
<1>1. thresh \in Seq(Int) /\ Len(thresh) \in Nat
    BY TpotConstants DEF TpotConstants
<1>2. PICK n \in Nat : n = Len(thresh) + 1
    BY <1>1
<1>3. PICK rls : rls = [i \in 1 .. n |-> i]
    OBVIOUS
<1>4. PICK none : none = [i \in 1 .. n |-> <<>>]
    OBVIOUS
<1>5. PICK new : new = [thresh |-> thresh, rls |-> rls]
    OBVIOUS
<1>6. /\ predictors = <<>> /\ Ascending(thresh)
      /\ predictors' = <<new>> /\ trained' = <<none>> /\ UNCHANGED panicked
      /\ estimators' = [i \in 1 .. n |-> IF i <= given THEN NewRLSWithParams(i) ELSE NewRLS]
    BY <1>2, <1>3, <1>4, <1>5 DEF NewPredictor
<1>7. /\ IsSeq(predictors') /\ Len(predictors') = 1 /\ predictors'[1] = new
      /\ IsSeq(trained') /\ Len(trained') = 1 /\ trained'[1] = none
    BY <1>6, SeqSingle
<1>8. /\ IsSeq(estimators') /\ Len(estimators') = n
    BY <1>2, <1>6, SeqOfFunction
<1>9. \A i \in 1 .. n : /\ DOMAIN estimators'[i] = {"from", "samples"}
                        /\ estimators'[i].samples = <<>>
    BY <1>6 DEF NewRLS, NewRLSWithParams
<1>10. /\ DOMAIN predictors' = 1 .. 1
       /\ DOMAIN new = {"thresh", "rls"} /\ new.thresh = thresh /\ new.rls = rls
       /\ DOMAIN rls = 1 .. n /\ DOMAIN none = 1 .. n
       /\ \A i \in 1 .. n : rls[i] = i /\ none[i] = <<>>
    BY <1>3, <1>4, <1>5, <1>7, SeqFacts
<1>11. \A p \in DOMAIN predictors' : p = 1
    BY <1>10
<1>12. \A p \in DOMAIN predictors' : Built(predictors'[p], trained'[p], Len(estimators'))
    <2>1. Built(new, none, n)
        BY <1>1, <1>2, <1>6, <1>10 DEF Built
    <2>2. QED
        BY <1>7, <1>8, <1>11, <2>1
<1>13. Unshared'
    <2>1. SUFFICES ASSUME NEW p \in DOMAIN predictors', NEW q \in DOMAIN predictors',
                          NEW i \in DOMAIN predictors'[p].rls, NEW j \in DOMAIN predictors'[q].rls,
                          predictors'[p].rls[i] = predictors'[q].rls[j]
                   PROVE  p = q /\ i = j
        BY DEF Unshared
    <2>2. p = 1 /\ q = 1
        BY <1>11
    <2>3. predictors'[p].rls = rls /\ predictors'[q].rls = rls
        BY <1>7, <1>10, <2>2
    <2>4. QED
        BY <1>10, <2>1, <2>2, <2>3
<1>14. panicked' = {}
    BY <1>6, SeqEmpty, SeqFacts DEF TpotInv
<1>15. SegmentsApart'
    BY <1>7, <1>9, <1>10, <1>11, <1>14 DEF SegmentsApart
<1>16. QED
    BY <1>7, <1>8, <1>9, <1>12, <1>13, <1>14, <1>15 DEF TpotInv

LEMMA CloneStep ==
    ASSUME TpotInv, Clone
    PROVE  TpotInv'
<1>1. PICK old : old = predictors[1]
    OBVIOUS
<1>2. PICK n \in Nat : n = Len(estimators)
    BY SeqFacts DEF TpotInv
<1>3. Len(predictors) = 1 /\ DOMAIN predictors = 1 .. 1
    BY SeqFacts DEF Clone, TpotInv
<1>4. Built(old, trained[1], n)
    BY <1>1, <1>2, <1>3 DEF TpotInv
<1>5. PICK m \in Nat : /\ m = Len(old.thresh) + 1
                       /\ DOMAIN old.rls = 1 .. m /\ DOMAIN trained[1] = 1 .. m
    BY <1>4 DEF Built
<1>6. PICK rls : rls = [i \in 1 .. m |-> n + i]
    OBVIOUS
<1>7. PICK new : new = [old EXCEPT !.rls = rls]
    OBVIOUS
<1>8. PICK copies : copies = [i \in 1 .. m |-> estimators[old.rls[i]]]
    OBVIOUS
<1>9. /\ predictors' = Append(predictors, new) /\ estimators' = estimators \o copies
      /\ trained' = Append(trained, trained[1]) /\ UNCHANGED panicked
    BY <1>1, <1>2, <1>5, <1>6, <1>7, <1>8 DEF Clone, CloneRLS
<1>10. /\ IsSeq(predictors') /\ Len(predictors') = 2
       /\ predictors'[2] = new /\ predictors'[1] = old
    <2>1. IsSeq(predictors)
        BY DEF TpotInv
    <2>2. /\ IsSeq(Append(predictors, new)) /\ Len(Append(predictors, new)) = Len(predictors) + 1
          /\ Append(predictors, new)[Len(predictors) + 1] = new
          /\ \A i \in 1 .. Len(predictors) : Append(predictors, new)[i] = predictors[i]
        BY <2>1, SeqAppend
    <2>3. QED
        BY <1>1, <1>3, <1>9, <2>2
<1>11. /\ IsSeq(trained') /\ Len(trained') = 2
       /\ trained'[2] = trained[1] /\ trained'[1] = trained[1]
    <2>1. IsSeq(trained) /\ Len(trained) = 1
        BY <1>3 DEF TpotInv
    <2>2. PICK x : x = trained[1]
        OBVIOUS
    <2>3. /\ IsSeq(Append(trained, x)) /\ Len(Append(trained, x)) = Len(trained) + 1
          /\ Append(trained, x)[Len(trained) + 1] = x
          /\ \A i \in 1 .. Len(trained) : Append(trained, x)[i] = trained[i]
        BY <2>1, SeqAppend, ZenonT(30)
    <2>4. QED
        BY <1>9, <2>1, <2>2, <2>3
<1>12. IsSeq(copies) /\ Len(copies) = m
    BY <1>5, <1>8, SeqOfFunction
<1>13. /\ IsSeq(estimators') /\ Len(estimators') = n + m
       /\ \A e \in 1 .. n : estimators'[e] = estimators[e]
       /\ \A i \in 1 .. m : estimators'[n + i] = estimators[old.rls[i]]
    <2>1. IsSeq(estimators)
        BY DEF TpotInv
    <2>2. \A i \in 1 .. m : copies[i] = estimators[old.rls[i]]
        BY <1>8
    <2>3. Joined(estimators', estimators, copies)
        BY <1>9, <1>12, <2>1, SeqConcat
    <2>4. QED
        BY <1>2, <1>12, <2>2, <2>3 DEF Joined
<1>14. /\ DOMAIN new = {"thresh", "rls"} /\ new.thresh = old.thresh /\ new.rls = rls
       /\ DOMAIN rls = 1 .. m /\ \A i \in 1 .. m : rls[i] = n + i
    BY <1>4, <1>6, <1>7 DEF Built
<1>15. \A p \in DOMAIN predictors' : p = 1 \/ p = 2
    BY <1>10, SeqFacts
<1>16. \A e \in 1 .. n + m : DOMAIN estimators'[e] = {"from", "samples"}
    <2>1. SUFFICES ASSUME NEW e \in 1 .. n + m
                   PROVE  DOMAIN estimators'[e] = {"from", "samples"}
        OBVIOUS
    <2>2. CASE e \in 1 .. n
        BY <1>2, <1>13, <2>2 DEF TpotInv
    <2>3. CASE e \notin 1 .. n
        <3>1. PICK i \in 1 .. m : e = n + i
            <4>1. e - n \in 1 .. m /\ e = n + (e - n)
                BY <2>3
            <4>2. QED
                BY <4>1
        <3>2. old.rls[i] \in 1 .. n
            BY <1>4, <1>5 DEF Built
        <3>3. QED
            BY <1>2, <1>13, <3>1, <3>2 DEF TpotInv
    <2>4. QED
        BY <2>2, <2>3
<1>17. \A p \in DOMAIN predictors' : Built(predictors'[p], trained'[p], Len(estimators'))
    <2>1. Built(old, trained[1], n + m)
        <3>1. \A i \in 1 .. m : old.rls[i] \in 1 .. n + m
            BY <1>4, <1>5 DEF Built
        <3>2. QED
            BY <1>4, <1>5, <3>1 DEF Built
    <2>2. Built(new, trained[1], n + m)
        <3>1. \A i \in 1 .. m : rls[i] \in 1 .. n + m
            BY <1>14
        <3>2. QED
            BY <1>4, <1>5, <1>14, <3>1 DEF Built
    <2>3. QED
        BY <1>10, <1>11, <1>13, <1>15, <2>1, <2>2
<1>18. \A i \in 1 .. m : old.rls[i] \in 1 .. n
    BY <1>4, <1>5 DEF Built
<1>19. Unshared'
    <2>1. SUFFICES ASSUME NEW p \in DOMAIN predictors', NEW q \in DOMAIN predictors',
                          NEW i \in DOMAIN predictors'[p].rls, NEW j \in DOMAIN predictors'[q].rls,
                          predictors'[p].rls[i] = predictors'[q].rls[j]
                   PROVE  p = q /\ i = j
        BY DEF Unshared
    <2>2. i \in 1 .. m /\ j \in 1 .. m
        BY <1>5, <1>10, <1>14, <1>15
    <2>3. CASE p = 1 /\ q = 1
        <3>1. old.rls[i] = old.rls[j]
            BY <1>10, <2>1, <2>3
        <3>2. QED
            BY <1>1, <1>3, <1>5, <2>2, <2>3, <3>1 DEF TpotInv, Unshared
    <2>4. CASE p = 2 /\ q = 2
        <3>1. n + i = n + j
            BY <1>10, <1>14, <2>1, <2>2, <2>4
        <3>2. QED
            BY <2>2, <2>4, <3>1
    <2>5. CASE p = 1 /\ q = 2
        <3>1. old.rls[i] = n + j
            BY <1>10, <1>14, <2>1, <2>2, <2>5
        <3>2. QED
            BY <1>18, <2>2, <3>1
    <2>6. CASE p = 2 /\ q = 1
        <3>1. old.rls[j] = n + i
            BY <1>10, <1>14, <2>1, <2>2, <2>6
        <3>2. QED
            BY <1>18, <2>2, <3>1
    <2>7. QED
        BY <1>15, <2>3, <2>4, <2>5, <2>6
<1>20. /\ \A i \in 1 .. m : estimators[old.rls[i]].samples = trained[1][i]
       /\ 1 \in panicked => old.thresh = <<>>
       /\ panicked \subseteq {1}
    BY <1>1, <1>3, <1>5 DEF TpotInv, SegmentsApart
<1>21. SegmentsApart'
    <2>1. SUFFICES ASSUME NEW p \in DOMAIN predictors'
                   PROVE  /\ p \in panicked' => predictors'[p].thresh = <<>>
                          /\ \A i \in DOMAIN predictors'[p].rls :
                                estimators'[predictors'[p].rls[i]].samples = trained'[p][i]
        BY DEF SegmentsApart
    <2>2. CASE p = 1
        <3>1. \A i \in 1 .. m : estimators'[old.rls[i]].samples = trained[1][i]
            BY <1>13, <1>18, <1>20
        <3>2. QED
            BY <1>5, <1>9, <1>10, <1>11, <1>20, <2>2, <3>1, ZenonT(30)
    <2>3. CASE p = 2
        <3>1. \A i \in 1 .. m : estimators'[rls[i]].samples = trained[1][i]
            BY <1>13, <1>14, <1>20
        <3>2. QED
            BY <1>9, <1>10, <1>11, <1>14, <1>20, <2>3, <3>1
    <2>4. QED
        BY <1>15, <2>2, <2>3
<1>22. panicked' \subseteq DOMAIN predictors'
    BY <1>9, <1>10, <1>20, SeqFacts
<1>23. QED
    BY <1>10, <1>11, <1>13, <1>16, <1>17, <1>19, <1>21, <1>22 DEF TpotInv

\* A call panics only on a predictor without thresholds.
LEMMA PanicsOnly ==
    ASSUME TpotInv, NEW p \in DOMAIN predictors, NEW b \in Int
    PROVE  Panics(p, b) <=> predictors[p].thresh = <<>>
<1>1. PICK predictor : predictor = predictors[p]
    OBVIOUS
<1>2. Built(predictor, trained[p], Len(estimators))
    BY <1>1 DEF TpotInv
<1>3. PICK thresh : thresh = predictor.thresh
    OBVIOUS
<1>4. /\ thresh \in Seq(Int) /\ Ascending(thresh) /\ Len(thresh) \in Nat
      /\ DOMAIN predictor.rls = 1 .. Len(thresh) + 1
    BY <1>2, <1>3 DEF Built
<1>5. CASE thresh = <<>>
    <2>1. Len(thresh) = 0
        BY <1>5, SeqEmpty
    <2>2. {i \in 1 .. Len(thresh) : b < thresh[i]} = {}
        BY <2>1
    <2>3. segment(thresh, b) = 2
        BY <1>5, <2>2 DEF segment
    <2>4. 2 \notin 1 .. Len(thresh) + 1
        BY <2>1
    <2>5. QED
        BY <1>1, <1>3, <1>4, <1>5, <2>3, <2>4 DEF Panics
<1>6. CASE thresh # <<>>
    <2>1. segment(thresh, b) \in 1 .. Len(thresh) + 1
        BY <1>4, <1>6, SegmentOf
    <2>2. QED
        BY <1>1, <1>3, <1>4, <1>6, <2>1 DEF Panics
<1>7. QED
    BY <1>5, <1>6

LEMMA TrainStep ==
    ASSUME TpotInv, NEW p \in 1 .. 2, NEW b \in Batches, Train(p, b)
    PROVE  TpotInv'
<1>1. b \in Int /\ p \in DOMAIN predictors
    BY TpotConstants DEF TpotConstants, Train
<1>2. PICK old : old = predictors[p]
    OBVIOUS
<1>3. PICK thresh : thresh = old.thresh
    OBVIOUS
<1>4. PICK count \in Nat : count = Len(estimators)
    BY SeqFacts DEF TpotInv
<1>5. Built(old, trained[p], count)
    BY <1>1, <1>2, <1>4 DEF TpotInv
<1>6. PICK m \in Nat : m = Len(thresh) + 1 /\ DOMAIN old.rls = 1 .. m /\ DOMAIN trained[p] = 1 .. m
    BY <1>3, <1>5 DEF Built
<1>7. thresh # <<>>
    BY <1>1, <1>2, <1>3, PanicsOnly DEF Train
<1>8. PICK g : g = segment(thresh, b)
    OBVIOUS
<1>9. g \in 1 .. m /\ \A i \in 1 .. m : InSegment(thresh, i, b) <=> i = g
    <2>1. thresh \in Seq(Int) /\ Ascending(thresh)
        BY <1>3, <1>5 DEF Built
    <2>2. QED
        BY <1>1, <1>6, <1>7, <1>8, <2>1, SegmentOf
<1>10. PICK e : e = old.rls[g]
    OBVIOUS
<1>11. e \in 1 .. count
    BY <1>5, <1>6, <1>9, <1>10 DEF Built
<1>12. PICK grown : grown = [trained[p] EXCEPT ![g] = Append(@, b)]
    OBVIOUS
<1>13. grown = [i \in DOMAIN trained[p] |-> IF InSegment(thresh, i, b)
                       THEN Append(trained[p][i], b) ELSE trained[p][i]]
    <2>1. PICK was : was = trained[p]
        OBVIOUS
    <2>2. PICK more : more = Append(was[g], b)
        OBVIOUS
    <2>3. DOMAIN was = 1 .. m
        BY <1>6, <2>1
    <2>4. grown = [was EXCEPT ![g] = more]
        BY <1>12, <2>1, <2>2
    <2>5. grown = [i \in DOMAIN was |-> IF i = g THEN more ELSE was[i]]
        BY <2>4
    <2>6. \A i \in DOMAIN was : (IF i = g THEN more ELSE was[i]) =
                (IF InSegment(thresh, i, b) THEN Append(was[i], b) ELSE was[i])
        BY <1>9, <2>2, <2>3
    <2>7. QED
        BY <2>1, <2>5, <2>6
<1>14. /\ UNCHANGED <<predictors, panicked>>
       /\ estimators' = [estimators EXCEPT ![e].samples = Append(@, b)]
       /\ trained' = [trained EXCEPT ![p] = grown]
    <2>1. UNCHANGED <<predictors, panicked>> /\ estimators' = [estimators EXCEPT ![e].samples = Append(@, b)]
        BY <1>2, <1>3, <1>8, <1>10 DEF Train, Update
    <2>2. trained' = [trained EXCEPT ![p] =
               [i \in DOMAIN @ |-> IF InSegment(thresh, i, b) THEN Append(@[i], b) ELSE @[i]]]
        BY <1>2, <1>3 DEF Train
    <2>3. QED
        BY <1>13, <2>1, <2>2
<1>15. /\ DOMAIN estimators = 1 .. count /\ DOMAIN trained = DOMAIN predictors
       /\ \A i \in 1 .. count : DOMAIN estimators[i] = {"from", "samples"}
    BY <1>4, SeqFacts DEF TpotInv
<1>16. PICK sample : sample = estimators[e].samples
    OBVIOUS
<1>17. /\ \A i \in 1 .. count : DOMAIN estimators'[i] = {"from", "samples"}
       /\ \A i \in 1 .. count : i # e => estimators'[i] = estimators[i]
       /\ estimators'[e].samples = Append(sample, b)
    BY <1>11, <1>14, <1>15, <1>16
<1>18. IsSeq(estimators') /\ Len(estimators') = count
    <2>1. estimators' = [i \in 1 .. count |-> estimators'[i]]
        BY <1>14, <1>15
    <2>2. QED
        BY <2>1, SeqOfFunction
<1>19. /\ IsSeq(trained') /\ Len(trained') = Len(predictors)
       /\ trained'[p] = grown /\ \A q \in DOMAIN predictors : q # p => trained'[q] = trained[q]
    <2>1. PICK n \in Nat : n = Len(predictors) /\ DOMAIN trained = 1 .. n
        BY <1>15, SeqFacts DEF TpotInv
    <2>2. trained' = [i \in 1 .. n |-> trained'[i]]
        BY <1>14, <2>1
    <2>3. IsSeq(trained') /\ Len(trained') = n
        BY <2>2, SeqOfFunction
    <2>4. QED
        BY <1>1, <1>14, <1>15, <2>1, <2>3
<1>20. DOMAIN grown = 1 .. m /\ grown[g] = Append(trained[p][g], b)
       /\ \A i \in 1 .. m : i # g => grown[i] = trained[p][i]
    BY <1>6, <1>9, <1>12
<1>21. \A q \in DOMAIN predictors : Built(predictors[q], trained'[q], count)
    <2>1. SUFFICES ASSUME NEW q \in DOMAIN predictors
                   PROVE  Built(predictors[q], trained'[q], count)
        OBVIOUS
    <2>2. Built(predictors[q], trained[q], count)
        BY <1>4 DEF TpotInv
    <2>3. DOMAIN trained'[q] = DOMAIN trained[q]
        BY <1>6, <1>19, <1>20
    <2>4. QED
        BY <2>2, <2>3 DEF Built
<1>22. SegmentsApart'
    <2>1. SUFFICES ASSUME NEW q \in DOMAIN predictors
                   PROVE  /\ q \in panicked => predictors[q].thresh = <<>>
                          /\ \A i \in DOMAIN predictors[q].rls :
                                estimators'[predictors[q].rls[i]].samples = trained'[q][i]
        BY <1>14 DEF SegmentsApart
    <2>2. /\ q \in panicked => predictors[q].thresh = <<>>
          /\ \A i \in DOMAIN predictors[q].rls :
                estimators[predictors[q].rls[i]].samples = trained[q][i]
        BY DEF TpotInv, SegmentsApart
    <2>3. ASSUME NEW i \in DOMAIN predictors[q].rls
          PROVE  estimators'[predictors[q].rls[i]].samples = trained'[q][i]
        <3>1. PICK d : d = predictors[q].rls[i]
            OBVIOUS
        <3>2. d \in 1 .. count
            BY <1>21, <3>1 DEF Built
        <3>3. CASE q = p /\ i = g
            <4>1. d = e /\ sample = trained[p][g]
                BY <1>2, <1>10, <1>16, <2>2, <3>1, <3>3
            <4>2. QED
                BY <1>17, <1>19, <1>20, <3>1, <3>3, <4>1
        <3>4. CASE ~(q = p /\ i = g)
            <4>1. d # e
                BY <1>1, <1>2, <1>6, <1>9, <1>10, <3>1, <3>4 DEF TpotInv, Unshared
            <4>2. estimators'[d] = estimators[d]
                BY <1>17, <3>2, <4>1
            <4>3. trained'[q][i] = trained[q][i]
                <5>1. CASE q = p
                    <6>1. i \in 1 .. m /\ i # g
                        BY <1>2, <1>6, <3>4, <5>1
                    <6>2. QED
                        BY <1>19, <1>20, <5>1, <6>1
                <5>2. CASE q # p
                    BY <1>19, <5>2
                <5>3. QED
                    BY <5>1, <5>2
            <4>4. QED
                BY <2>2, <3>1, <4>2, <4>3
        <3>5. QED
            BY <3>3, <3>4
    <2>4. QED
        BY <2>2, <2>3
<1>23. Unshared'
    BY <1>14 DEF TpotInv, Unshared
<1>24. QED
    BY <1>4, <1>14, <1>17, <1>18, <1>19, <1>21, <1>22, <1>23 DEF TpotInv

LEMMA PanicStep ==
    ASSUME TpotInv, NEW p \in 1 .. 2, NEW b \in Batches, Panic(p, b)
    PROVE  TpotInv'
<1>1. b \in Int /\ p \in DOMAIN predictors
    BY TpotConstants DEF TpotConstants, Panic
<1>2. predictors[p].thresh = <<>>
    BY <1>1, PanicsOnly DEF Panic
<1>3. panicked' = panicked \cup {p} /\ UNCHANGED <<predictors, estimators, trained>>
    BY DEF Panic
<1>4. SegmentsApart'
    BY <1>2, <1>3 DEF TpotInv, SegmentsApart
<1>5. Unshared'
    BY <1>3 DEF TpotInv, Unshared
<1>6. QED
    BY <1>1, <1>3, <1>4, <1>5 DEF TpotInv

LEMMA TpotKept == Spec => []TpotInv
<1>1. Init => TpotInv
    BY TpotStart DEF Init
<1>2. TpotInv /\ [Next]_vars => TpotInv'
    <2>1. SUFFICES ASSUME TpotInv, [Next]_vars
                   PROVE  TpotInv'
        OBVIOUS
    <2>2. CASE UNCHANGED tpotVars
        BY <2>1, <2>2 DEF tpotVars, TpotInv, Unshared, SegmentsApart
    <2>3. CASE NextTpot
        BY <2>1, <2>3, NewStep, CloneStep, TrainStep, PanicStep DEF NextTpot
    <2>4. QED
        BY <2>1, <2>2, <2>3 DEF Next, vars
<1>3. QED
    BY <1>1, <1>2, PTL DEF Spec

\* A batch size trains the estimator of its own segment, "[0, thresh1),
\* [thresh1, thresh2), [thresh2, inf)" (tpot_prediction.go:65), on its own
\* predictor and not on a clone, and only a predictor without thresholds
\* panics.
THEOREM OwnSegment == Spec => []SegmentsApart
<1>1. TpotInv => SegmentsApart
    BY DEF TpotInv
<1>2. QED
    BY <1>1, TpotKept, PTL

-----------------------------------------------------------------------------
\* The tables of the TTFT statistics.

\* What a caller is in, when there are count tables.
IsCall(record, count) ==
    \/ record = Idle
    \/ /\ DOMAIN record = {"at", "name", "sample", "table", "seen"}
       /\ record.at \in {"create", "read", "write"}
       /\ record.name \in Model /\ record.sample \in Sample
       /\ record.at # "create" => record.table \in 2 .. count

StatsType ==
    /\ useMovingAverage \in BOOLEAN
    /\ IsSeq(heap) /\ Len(heap) >= 1 /\ heap[1] = <<DefaultData>>
    /\ DOMAIN models = Model
    /\ \A n \in Model : models[n] = None \/ models[n] \in 2 .. Len(heap)
    /\ DOMAIN call = Caller
    /\ \A c \in Caller : IsCall(call[c], Len(heap))
    /\ done \in [Model -> Seq(Sample)]
    /\ DOMAIN serial = Model

\* The caller has looked the table up or created it, and will write to it.
Uses(c, t) == call[c].at \in {"read", "write"} /\ call[c].table = t

Owns(n, t) ==
    \/ models[n] = t
    \/ \E c \in Caller : Uses(c, t) /\ call[c].name = n

\* No table serves two names, though one name may own several.
TablesApart ==
    \A n, m \in Model : \A t \in 2 .. Len(heap) : Owns(n, t) /\ Owns(m, t) => n = m

\* Without averages a table starts with the data of the default estimator.
Started(n) ==
    useMovingAverage
    \/ (IsSeq(serial[n]) /\ Len(serial[n]) >= 1 /\ serial[n][1] = DefaultData)

\* A name that no two calls have recorded at once: what the calls of its
\* one caller find.
Alone(n) ==
    /\ \A c, d \in Busy(n) : c = d
    /\ models[n] = None => done[n] = <<>> /\ serial[n] = NewTable
    /\ models[n] # None => heap[models[n]] = serial[n]
    /\ Busy(n) = {} /\ models[n] # None => done[n] # <<>>
    /\ Started(n)
    /\ \A c \in Busy(n) :
         /\ call[c].at = "create" => models[n] = None
         /\ call[c].at # "create" => models[n] # None /\ call[c].table = models[n]
         /\ call[c].at = "write" /\ useMovingAverage =>
              call[c].seen = serial[n][calcKB(call[c].sample.length)]

StatsInv ==
    /\ StatsType
    /\ TablesApart
    /\ \A n \in Model \ overlapped : Alone(n)

\* No average, or one between two of the name's samples in the unit.
Mean(x, n, i) ==
    \/ x = 0
    \/ /\ x \in Int
       /\ \E a, b \in OfUnit(n, i) : Scale * a.ttft <= x /\ x <= Scale * b.ttft

TableMeans(table, n) ==
    DOMAIN table = Units /\ \A i \in Units : Mean(table[i], n, i)

CallerMeans(c) ==
    call[c].at = "write" => Mean(call[c].seen, call[c].name, calcKB(call[c].sample.length))

\* Such is every average in a table of the name's, the ones that were lost
\* included, and every average a caller is about to replace.
MeansInv ==
    useMovingAverage =>
    /\ \A n \in Model : \A t \in 2 .. Len(heap) : Owns(n, t) => TableMeans(heap[t], n)
    /\ \A c \in Caller : CallerMeans(c)

LEMMA StatsStart == Init => StatsInv /\ MeansInv
<1>1. SUFFICES ASSUME Init
               PROVE  StatsInv /\ MeansInv
    OBVIOUS
<1>2. PICK data : data = <<DefaultData>>
    OBVIOUS
<1>3. /\ useMovingAverage \in BOOLEAN /\ models = [n \in Model |-> None] /\ heap = <<data>>
      /\ call = [c \in Caller |-> Idle] /\ done = [n \in Model |-> <<>>]
      /\ serial = [n \in Model |-> NewTable]
    BY <1>1, <1>2 DEF Init, InitStats
<1>4. IsSeq(heap) /\ Len(heap) = 1 /\ heap[1] = data
    BY <1>3, SeqSingle
<1>5. \A c \in Caller : call[c] = Idle /\ call[c].at = "idle"
    BY <1>3 DEF Idle
<1>6. StatsType
    <2>1. done \in [Model -> Seq(Sample)]
        BY <1>3
    <2>2. QED
        BY <1>2, <1>3, <1>4, <1>5, <2>1 DEF StatsType, IsCall
<1>7. 2 .. Len(heap) = {}
    BY <1>4
<1>8. \A n \in Model : Alone(n)
    <2>1. SUFFICES ASSUME NEW n \in Model
                   PROVE  Alone(n)
        OBVIOUS
    <2>2. Busy(n) = {}
        BY <1>5 DEF Busy
    <2>3. models[n] = None /\ done[n] = <<>> /\ serial[n] = NewTable
        BY <1>3
    <2>4. Started(n)
        <3>1. IsSeq(data) /\ Len(data) = 1 /\ data[1] = DefaultData
            BY <1>2, SeqSingle
        <3>2. QED
            BY <1>2, <2>3, <3>1 DEF NewTable, Started
    <2>5. QED
        BY <2>2, <2>3, <2>4 DEF Alone
<1>9. QED
    BY <1>5, <1>6, <1>7, <1>8 DEF StatsInv, TablesApart, MeansInv, CallerMeans

\* One caller's step leaves alone what only others record.
LEMMA OthersAlone ==
    ASSUME NEW c \in Caller, \A d \in Caller : d # c => call'[d] = call[d],
           NEW n \in Model, Alone(n), c \notin Busy(n), c \notin Busy(n)',
           useMovingAverage' = useMovingAverage, models'[n] = models[n],
           done'[n] = done[n], serial'[n] = serial[n],
           models[n] # None => heap'[models[n]] = heap[models[n]]
    PROVE  Alone(n)'
<1>1. \A d : d \in Busy(n)' => d \in Busy(n) /\ call'[d] = call[d]
    BY DEF Busy
<1>2. \A d : d \in Busy(n) => d \in Busy(n)'
    BY DEF Busy
<1>3. NewTable' = NewTable
    BY DEF NewTable, NewModelTTFT, Units
<1>4. /\ \A d, e \in Busy(n)' : d = e
      /\ Busy(n)' = {} => Busy(n) = {}
    BY <1>1, <1>2 DEF Alone
<1>5. /\ models'[n] = None => done'[n] = <<>> /\ serial'[n] = NewTable'
      /\ models'[n] # None => heap'[models'[n]] = serial'[n]
      /\ Busy(n)' = {} /\ models'[n] # None => done'[n] # <<>>
      /\ Started(n)'
    BY <1>3, <1>4 DEF Alone, Started
<1>6. ASSUME NEW d \in Busy(n)'
      PROVE  /\ call'[d].at = "create" => models'[n] = None
             /\ call'[d].at # "create" => models'[n] # None /\ call'[d].table = models'[n]
             /\ call'[d].at = "write" /\ useMovingAverage' =>
                   call'[d].seen = serial'[n][calcKB(call'[d].sample.length)]
    BY <1>1 DEF Alone
<1>7. QED
    BY <1>4, <1>5, <1>6 DEF Alone

\* What RecordTTFT does: a new call, and nothing else.
LEMMA RecordStep ==
    ASSUME StatsInv, NEW c \in Caller, NEW n \in Name, NEW s \in Sample, RecordTTFT(c, n, s)
    PROVE  /\ StatsInv'
           /\ \A m \in Model : \A t \in 2 .. Len(heap) : Owns(m, t)' => Owns(m, t)
<1>1. n \in Model /\ call[c].at = "idle"
    BY DEF RecordTTFT, Valid, Model
<1>2. PICK stage : stage = IF models[n] = None THEN "create" ELSE "read"
    OBVIOUS
<1>3. PICK table : table = models[n]
    OBVIOUS
<1>4. PICK k : k = [at |-> stage, name |-> n, sample |-> s, table |-> table, seen |-> 0]
    OBVIOUS
<1>5. /\ call' = [call EXCEPT ![c] = k]
      /\ overlapped' = IF Busy(n) # {} THEN overlapped \cup {n} ELSE overlapped
      /\ UNCHANGED <<useMovingAverage, models, heap, done, serial>>
    BY <1>2, <1>3, <1>4 DEF RecordTTFT
<1>6. /\ DOMAIN call' = Caller /\ call'[c] = k
      /\ \A d \in Caller : d # c => call'[d] = call[d]
    BY <1>5 DEF StatsInv, StatsType
<1>7. /\ DOMAIN k = {"at", "name", "sample", "table", "seen"}
      /\ k.at = stage /\ k.name = n /\ k.sample = s /\ k.table = table /\ k.seen = 0
    BY <1>4
<1>8. IsCall(k, Len(heap))
    <2>1. models[n] = None \/ table \in 2 .. Len(heap)
        BY <1>1, <1>3 DEF StatsInv, StatsType
    <2>2. QED
        BY <1>1, <1>2, <1>7, <2>1 DEF IsCall
<1>9. StatsType'
    BY <1>5, <1>6, <1>8 DEF StatsInv, StatsType
<1>10. ASSUME NEW m \in Model, NEW t \in 2 .. Len(heap), Owns(m, t)'
       PROVE  Owns(m, t)
    <2>1. CASE models'[m] = t
        BY <1>5, <2>1 DEF Owns
    <2>2. ASSUME NEW d \in Caller, Uses(d, t)', call'[d].name = m
          PROVE  Owns(m, t)
        <3>1. CASE d = c
            BY <1>3, <1>6, <1>7, <2>2, <3>1 DEF Owns, Uses
        <3>2. CASE d # c
            BY <1>6, <2>2, <3>2 DEF Owns, Uses
        <3>3. QED
            BY <3>1, <3>2
    <2>3. QED
        BY <1>10, <2>1, <2>2 DEF Owns
<1>11. TablesApart'
    BY <1>5, <1>10 DEF StatsInv, TablesApart
<1>12. ASSUME NEW m \in Model \ overlapped'
       PROVE  Alone(m)'
    <2>1. m \notin overlapped /\ Alone(m)
        BY <1>5 DEF StatsInv
    <2>2. c \notin Busy(m)
        BY <1>1 DEF Busy
    <2>3. CASE m # n
        <3>1. c \notin Busy(m)'
            BY <1>6, <1>7, <2>3 DEF Busy
        <3>2. QED
            BY <1>5, <1>6, <2>1, <2>2, <3>1, OthersAlone
    <2>4. CASE m = n
        <3>1. Busy(n) = {}
            BY <1>5, <2>4
        <3>2. \A d : d \in Busy(n)' => d = c
            BY <1>6, <3>1 DEF Busy
        <3>3. c \in Busy(n)'
            BY <1>2, <1>6, <1>7 DEF Busy
        <3>4. NewTable' = NewTable
            BY <1>5 DEF NewTable, NewModelTTFT, Units
        <3>5. /\ call'[c].at = "create" => models'[n] = None
              /\ call'[c].at # "create" => models'[n] # None /\ call'[c].table = models'[n]
              /\ call'[c].at # "write"
            BY <1>2, <1>3, <1>5, <1>6, <1>7
        <3>6. /\ models'[n] = None => done'[n] = <<>> /\ serial'[n] = NewTable'
              /\ models'[n] # None => heap'[models'[n]] = serial'[n]
              /\ Started(n)'
            BY <1>5, <2>1, <2>4, <3>4 DEF Alone, Started
        <3>7. Alone(n)'
            BY <3>2, <3>3, <3>5, <3>6 DEF Alone
        <3>8. QED
            BY <2>4, <3>7
    <2>5. QED
        BY <2>3, <2>4
<1>13. QED
    BY <1>9, <1>10, <1>11, <1>12 DEF StatsInv

\* Create: a new table, which is the name's alone.
LEMMA CreateStep ==
    ASSUME StatsInv, NEW c \in Caller, Create(c)
    PROVE  /\ StatsInv'
           /\ call[c].name \in Model /\ Len(heap) \in Nat /\ Len(heap') = Len(heap) + 1
           /\ heap'[Len(heap) + 1] = NewTable
           /\ \A t \in 1 .. Len(heap) : heap'[t] = heap[t]
           /\ \A m \in Model : \A t \in 2 .. Len(heap') : Owns(m, t)' =>
                 \/ t \in 2 .. Len(heap) /\ Owns(m, t)
                 \/ t = Len(heap) + 1 /\ m = call[c].name
<1>1. PICK k : k = call[c]
    OBVIOUS
<1>2. /\ k.at = "create" /\ DOMAIN k = {"at", "name", "sample", "table", "seen"}
      /\ k.name \in Model /\ k.sample \in Sample
    <2>1. k.at = "create" /\ IsCall(k, Len(heap))
        BY <1>1 DEF Create, StatsInv, StatsType
    <2>2. QED
        BY <2>1 DEF IsCall, Idle
<1>3. PICK n : n = k.name
    OBVIOUS
<1>4. PICK count \in Nat : count = Len(heap) /\ count >= 1
    BY SeqFacts DEF StatsInv, StatsType
<1>5. PICK new \in Nat : new = count + 1
    OBVIOUS
<1>6. PICK table : table = NewTable
    OBVIOUS
<1>7. /\ heap' = Append(heap, table)
      /\ models' = [models EXCEPT ![n] = new]
      /\ call' = [call EXCEPT ![c].at = "read", ![c].table = new]
      /\ UNCHANGED <<useMovingAverage, done, serial, overlapped>>
    BY <1>1, <1>3, <1>4, <1>5, <1>6 DEF Create, CloneDefault, NewTable, StatsInv, StatsType
<1>8. /\ IsSeq(heap') /\ Len(heap') = new /\ heap'[new] = table
      /\ \A t \in 1 .. count : heap'[t] = heap[t]
    <2>1. IsSeq(heap)
        BY DEF StatsInv, StatsType
    <2>2. /\ IsSeq(Append(heap, table)) /\ Len(Append(heap, table)) = Len(heap) + 1
          /\ Append(heap, table)[Len(heap) + 1] = table
          /\ \A i \in 1 .. Len(heap) : Append(heap, table)[i] = heap[i]
        BY <2>1, SeqAppend
    <2>3. QED
        BY <1>4, <1>5, <1>7, <2>2
<1>9. PICK l : l = call'[c]
    OBVIOUS
<1>10. /\ DOMAIN call' = Caller /\ \A d \in Caller : d # c => call'[d] = call[d]
       /\ DOMAIN l = {"at", "name", "sample", "table", "seen"}
       /\ l.at = "read" /\ l.table = new /\ l.name = n /\ l.sample = k.sample
    <2>1. DOMAIN call = Caller
        BY DEF StatsInv, StatsType
    <2>2. l = [[k EXCEPT !.at = "read"] EXCEPT !.table = new]
        BY <1>1, <1>7, <1>9, <2>1
    <2>3. /\ DOMAIN l = {"at", "name", "sample", "table", "seen"}
          /\ l.at = "read" /\ l.table = new /\ l.name = n /\ l.sample = k.sample
        BY <1>2, <1>3, <2>2
    <2>4. QED
        BY <1>7, <2>1, <2>3
<1>11. /\ DOMAIN models' = Model /\ models'[n] = new
       /\ \A m \in Model : m # n => models'[m] = models[m]
    BY <1>2, <1>3, <1>7 DEF StatsInv, StatsType
<1>12. \A d \in Caller : IsCall(call'[d], new)
    <2>1. IsCall(l, new)
        BY <1>2, <1>3, <1>4, <1>5, <1>10 DEF IsCall
    <2>2. ASSUME NEW d \in Caller, d # c
          PROVE  IsCall(call'[d], new)
        <3>1. IsCall(call[d], count)
            BY <1>4 DEF StatsInv, StatsType
        <3>2. QED
            BY <1>5, <1>10, <2>2, <3>1 DEF IsCall
    <2>3. QED
        BY <1>9, <2>1, <2>2
<1>13. StatsType'
    <2>1. heap'[1] = <<DefaultData>>
        BY <1>4, <1>8 DEF StatsInv, StatsType
    <2>2. \A m \in Model : models'[m] = None \/ models'[m] \in 2 .. new
        BY <1>4, <1>5, <1>11 DEF StatsInv, StatsType
    <2>3. QED
        BY <1>5, <1>7, <1>8, <1>10, <1>11, <1>12, <2>1, <2>2 DEF StatsInv, StatsType
<1>14. ASSUME NEW m \in Model, NEW t \in 2 .. new, Owns(m, t)'
       PROVE  \/ t \in 2 .. count /\ Owns(m, t)
              \/ t = new /\ m = n
    <2>1. CASE models'[m] = t
        <3>1. CASE m = n
            BY <1>11, <2>1, <3>1
        <3>2. CASE m # n
            <4>1. models[m] = t
                BY <1>11, <2>1, <3>2
            <4>2. t \in 2 .. count
                BY <1>4, <4>1, StatsConstants DEF StatsInv, StatsType, StatsConstants
            <4>3. QED
                BY <4>1, <4>2 DEF Owns
        <3>3. QED
            BY <3>1, <3>2
    <2>2. ASSUME NEW d \in Caller, Uses(d, t)', call'[d].name = m
          PROVE  \/ t \in 2 .. count /\ Owns(m, t)
                 \/ t = new /\ m = n
        <3>1. CASE d = c
            BY <1>9, <1>10, <2>2, <3>1 DEF Uses
        <3>2. CASE d # c
            <4>1. Uses(d, t) /\ call[d].name = m
                BY <1>10, <2>2, <3>2 DEF Uses
            <4>2. IsCall(call[d], count)
                BY <1>4 DEF StatsInv, StatsType
            <4>3. t \in 2 .. count
                BY <4>1, <4>2 DEF IsCall, Idle, Uses
            <4>4. QED
                BY <4>1, <4>3 DEF Owns
        <3>3. QED
            BY <3>1, <3>2
    <2>3. QED
        BY <1>14, <2>1, <2>2 DEF Owns
<1>15. TablesApart'
    <2>1. SUFFICES ASSUME NEW m \in Model, NEW o \in Model, NEW t \in 2 .. new, Owns(m, t)', Owns(o, t)'
                   PROVE  m = o
        BY <1>8 DEF TablesApart
    <2>2. new \notin 2 .. count
        BY <1>5
    <2>3. QED
        BY <1>4, <1>14, <2>1, <2>2 DEF StatsInv, TablesApart
<1>16. ASSUME NEW m \in Model \ overlapped'
       PROVE  Alone(m)'
    <2>1. m \notin overlapped /\ Alone(m)
        BY <1>7 DEF StatsInv
    <2>2. CASE m # n
        <3>1. c \notin Busy(m) /\ c \notin Busy(m)'
            BY <1>1, <1>3, <1>9, <1>10, <2>2 DEF Busy
        <3>2. models[m] # None => heap'[models[m]] = heap[models[m]]
            BY <1>4, <1>8 DEF StatsInv, StatsType
        <3>3. QED
            BY <1>7, <1>10, <1>11, <2>1, <2>2, <3>1, <3>2, OthersAlone
    <2>3. CASE m = n
        <3>1. c \in Busy(n) /\ models[n] = None
            BY <1>1, <1>2, <1>3, <2>1, <2>3 DEF Busy, Alone
        <3>2. c \in Busy(n)' /\ \A d : d \in Busy(n)' => d = c
            <4>1. \A d : d \in Busy(n) => d = c
                BY <2>1, <2>3, <3>1 DEF Alone
            <4>2. QED
                BY <1>9, <1>10, <4>1 DEF Busy
        <3>3. serial'[n] = table /\ NewTable' = table
            BY <1>6, <1>7, <2>1, <2>3, <3>1 DEF Alone, NewTable, NewModelTTFT, Units
        <3>4. new # None
            BY StatsConstants DEF StatsConstants
        <3>5. Started(n)'
            BY <1>7, <2>1, <2>3 DEF Alone, Started
        <3>6. Alone(n)'
            BY <1>8, <1>9, <1>10, <1>11, <3>2, <3>3, <3>4, <3>5 DEF Alone
        <3>7. QED
            BY <2>3, <3>6
    <2>4. QED
        BY <2>2, <2>3
<1>17. StatsInv'
    BY <1>13, <1>15, <1>16 DEF StatsInv
<1>18. QED
    BY <1>1, <1>2, <1>3, <1>4, <1>5, <1>6, <1>8, <1>14, <1>17

LEMMA ReadStep ==
    ASSUME StatsInv, NEW c \in Caller, Read(c)
    PROVE  /\ StatsInv'
           /\ call'[c].at = "write" /\ call'[c].name = call[c].name
           /\ call'[c].sample = call[c].sample
           /\ useMovingAverage =>
                call'[c].seen = heap[call[c].table][calcKB(call[c].sample.length)]
           /\ \A m \in Model : \A t \in 2 .. Len(heap) : Owns(m, t)' => Owns(m, t)
<1>1. PICK k : k = call[c]
    OBVIOUS
<1>2. /\ k.at = "read" /\ DOMAIN k = {"at", "name", "sample", "table", "seen"}
      /\ k.name \in Model /\ k.sample \in Sample /\ k.table \in 2 .. Len(heap)
    <2>1. k.at = "read" /\ IsCall(k, Len(heap))
        BY <1>1 DEF Read, StatsInv, StatsType
    <2>2. QED
        BY <2>1 DEF IsCall, Idle
<1>3. PICK n : n = k.name
    OBVIOUS
<1>4. PICK x : x = IF useMovingAverage THEN heap[k.table][calcKB(k.sample.length)] ELSE 0
    OBVIOUS
<1>5. /\ call' = [call EXCEPT ![c].at = "write", ![c].seen = x]
      /\ UNCHANGED <<useMovingAverage, models, heap, done, serial, overlapped>>
    BY <1>1, <1>4 DEF Read
<1>6. PICK l : l = call'[c]
    OBVIOUS
<1>7. /\ DOMAIN call' = Caller /\ \A d \in Caller : d # c => call'[d] = call[d]
      /\ DOMAIN l = {"at", "name", "sample", "table", "seen"}
      /\ l.at = "write" /\ l.table = k.table /\ l.name = n /\ l.sample = k.sample /\ l.seen = x
    <2>1. DOMAIN call = Caller
        BY DEF StatsInv, StatsType
    <2>2. l = [[k EXCEPT !.at = "write"] EXCEPT !.seen = x]
        BY <1>1, <1>5, <1>6, <2>1
    <2>3. /\ DOMAIN l = {"at", "name", "sample", "table", "seen"}
          /\ l.at = "write" /\ l.table = k.table /\ l.name = n /\ l.sample = k.sample /\ l.seen = x
        BY <1>2, <1>3, <2>2
    <2>4. QED
        BY <1>5, <2>1, <2>3
<1>8. StatsType'
    <2>1. IsCall(l, Len(heap))
        BY <1>2, <1>3, <1>7 DEF IsCall
    <2>2. QED
        BY <1>5, <1>6, <1>7, <2>1 DEF StatsInv, StatsType
<1>9. ASSUME NEW m \in Model, NEW t \in 2 .. Len(heap), Owns(m, t)'
      PROVE  Owns(m, t)
    <2>1. CASE models'[m] = t
        BY <1>5, <2>1 DEF Owns
    <2>2. ASSUME NEW d \in Caller, Uses(d, t)', call'[d].name = m
          PROVE  Owns(m, t)
        BY <1>1, <1>2, <1>3, <1>6, <1>7, <2>2 DEF Owns, Uses
    <2>3. QED
        BY <1>9, <2>1, <2>2 DEF Owns
<1>10. TablesApart'
    BY <1>5, <1>9 DEF StatsInv, TablesApart
<1>11. ASSUME NEW m \in Model \ overlapped'
       PROVE  Alone(m)'
    <2>1. m \notin overlapped /\ Alone(m)
        BY <1>5 DEF StatsInv
    <2>2. CASE m # n
        <3>1. c \notin Busy(m) /\ c \notin Busy(m)'
            BY <1>1, <1>3, <1>6, <1>7, <2>2 DEF Busy
        <3>2. QED
            BY <1>5, <1>7, <2>1, <3>1, OthersAlone
    <2>3. CASE m = n
        <3>1. c \in Busy(n) /\ models[n] # None /\ k.table = models[n]
            BY <1>1, <1>2, <1>3, <2>1, <2>3 DEF Busy, Alone
        <3>2. c \in Busy(n)' /\ \A d : d \in Busy(n)' => d = c
            <4>1. \A d : d \in Busy(n) => d = c
                BY <2>1, <2>3, <3>1 DEF Alone
            <4>2. QED
                BY <1>6, <1>7, <4>1 DEF Busy
        <3>3. heap[models[n]] = serial[n]
            BY <2>1, <2>3, <3>1 DEF Alone
        <3>4. useMovingAverage' => x = serial'[n][calcKB(l.sample.length)]
            BY <1>4, <1>5, <1>7, <3>1, <3>3
        <3>5. Started(n)'
            BY <1>5, <2>1, <2>3 DEF Alone, Started
        <3>6. Alone(n)'
            BY <1>5, <1>6, <1>7, <3>1, <3>2, <3>3, <3>4, <3>5 DEF Alone
        <3>7. QED
            BY <2>3, <3>6
    <2>4. QED
        BY <2>2, <2>3
<1>12. StatsInv'
    BY <1>8, <1>10, <1>11 DEF StatsInv
<1>13. QED
    BY <1>1, <1>3, <1>4, <1>6, <1>7, <1>9, <1>12

\* Write, seen from the table and from the samples.
LEMMA WriteEffect ==
    ASSUME StatsInv, NEW c \in Caller, Write(c)
    PROVE  /\ call[c].at = "write" /\ call[c].name \in Model /\ call[c].sample \in Sample
           /\ call[c].table \in 2 .. Len(heap)
           /\ IsSeq(heap') /\ Len(heap') = Len(heap)
           /\ heap'[call[c].table] = Written(c, heap[call[c].table])
           /\ \A t \in 1 .. Len(heap) : t # call[c].table => heap'[t] = heap[t]
           /\ DOMAIN call' = Caller /\ call'[c] = Idle /\ call'[c].at = "idle"
           /\ \A d \in Caller : d # c => call'[d] = call[d]
           /\ DOMAIN done' = Model /\ DOMAIN serial' = Model
           /\ done'[call[c].name] = Append(done[call[c].name], call[c].sample)
           /\ serial'[call[c].name] = AtOnce(serial[call[c].name], call[c].sample)
           /\ \A m \in Model : m # call[c].name =>
                 done'[m] = done[m] /\ serial'[m] = serial[m]
           /\ UNCHANGED <<useMovingAverage, models, overlapped>>
           /\ \A m \in Model : \A t \in 2 .. Len(heap) : Owns(m, t)' => Owns(m, t)
<1>1. PICK k : k = call[c]
    OBVIOUS
<1>2. k.at = "write" /\ k.name \in Model /\ k.sample \in Sample /\ k.table \in 2 .. Len(heap)
    <2>1. k.at = "write" /\ IsCall(k, Len(heap))
        BY <1>1 DEF Write, StatsInv, StatsType
    <2>2. QED
        BY <2>1 DEF IsCall, Idle
<1>3. PICK written : written = Written(c, heap[k.table])
    OBVIOUS
<1>4. PICK samples : samples = Append(done[k.name], k.sample)
    OBVIOUS
<1>5. PICK next : next = AtOnce(serial[k.name], k.sample)
    OBVIOUS
<1>6. /\ heap' = [heap EXCEPT ![k.table] = written]
      /\ done' = [done EXCEPT ![k.name] = samples]
      /\ serial' = [serial EXCEPT ![k.name] = next]
      /\ call' = [call EXCEPT ![c] = Idle]
      /\ UNCHANGED <<useMovingAverage, models, overlapped>>
    BY <1>1, <1>3, <1>4, <1>5 DEF Write
<1>7. PICK count \in Nat : count = Len(heap) /\ DOMAIN heap = 1 .. count
    BY SeqFacts DEF StatsInv, StatsType
<1>8. /\ IsSeq(heap') /\ Len(heap') = count /\ heap'[k.table] = written
      /\ \A t \in 1 .. count : t # k.table => heap'[t] = heap[t]
    <2>1. heap' = [t \in 1 .. count |-> heap'[t]]
        BY <1>6, <1>7
    <2>2. IsSeq(heap') /\ Len(heap') = count
        BY <2>1, SeqOfFunction
    <2>3. k.table \in 1 .. count
        BY <1>2, <1>7
    <2>4. QED
        BY <1>6, <1>7, <2>2, <2>3
<1>9. /\ DOMAIN call' = Caller /\ call'[c] = Idle /\ \A d \in Caller : d # c => call'[d] = call[d]
    BY <1>6 DEF StatsInv, StatsType
<1>10. Idle.at = "idle"
    BY DEF Idle
<1>11. /\ DOMAIN done' = Model /\ done'[k.name] = samples
       /\ \A m \in Model : m # k.name => done'[m] = done[m]
    BY <1>2, <1>6 DEF StatsInv, StatsType
<1>12. /\ DOMAIN serial' = Model /\ serial'[k.name] = next
       /\ \A m \in Model : m # k.name => serial'[m] = serial[m]
    BY <1>2, <1>6 DEF StatsInv, StatsType
<1>13. ASSUME NEW m \in Model, NEW t \in 2 .. Len(heap), Owns(m, t)'
       PROVE  Owns(m, t)
    <2>1. CASE models'[m] = t
        BY <1>6, <2>1 DEF Owns
    <2>2. ASSUME NEW d \in Caller, Uses(d, t)', call'[d].name = m
          PROVE  Owns(m, t)
        <3>1. d # c
            BY <1>9, <1>10, <2>2 DEF Uses
        <3>2. QED
            BY <1>9, <2>2, <3>1 DEF Owns, Uses
    <2>3. QED
        BY <1>13, <2>1, <2>2 DEF Owns
<1>14. QED
    BY <1>1, <1>2, <1>3, <1>4, <1>5, <1>6, <1>7, <1>8, <1>9, <1>10, <1>11, <1>12, <1>13

LEMMA WriteStep ==
    ASSUME StatsInv, NEW c \in Caller, Write(c)
    PROVE  StatsInv'
<1>1. PICK k : k = call[c]
    OBVIOUS
<1>2. PICK n : n = k.name
    OBVIOUS
<1>3. /\ k.at = "write" /\ n \in Model /\ k.sample \in Sample /\ k.table \in 2 .. Len(heap)
      /\ IsSeq(heap') /\ Len(heap') = Len(heap)
      /\ heap'[k.table] = Written(c, heap[k.table])
      /\ \A t \in 1 .. Len(heap) : t # k.table => heap'[t] = heap[t]
    BY <1>1, <1>2, WriteEffect
<1>4. /\ DOMAIN call' = Caller /\ call'[c] = Idle /\ call'[c].at = "idle"
      /\ \A d \in Caller : d # c => call'[d] = call[d]
    BY WriteEffect
<1>5. /\ DOMAIN done' = Model /\ DOMAIN serial' = Model
      /\ done'[n] = Append(done[n], k.sample) /\ serial'[n] = AtOnce(serial[n], k.sample)
      /\ \A m \in Model : m # n => done'[m] = done[m] /\ serial'[m] = serial[m]
      /\ UNCHANGED <<useMovingAverage, models, overlapped>>
    BY <1>1, <1>2, WriteEffect
<1>6. \A m \in Model : \A t \in 2 .. Len(heap) : Owns(m, t)' => Owns(m, t)
    BY WriteEffect
<1>7. PICK count \in Nat : count = Len(heap) /\ count >= 1
    BY SeqFacts DEF StatsInv, StatsType
<1>8. done[n] \in Seq(Sample) /\ done'[n] \in Seq(Sample) /\ done'[n] # <<>>
    <2>1. done[n] \in Seq(Sample)
        BY <1>3 DEF StatsInv, StatsType
    <2>2. Append(done[n], k.sample) \in Seq(Sample) /\ Append(done[n], k.sample) # <<>>
        BY <1>3, <2>1, AppendProperties
    <2>3. QED
        BY <1>5, <2>1, <2>2
<1>9. StatsType'
    <2>1. heap'[1] = <<DefaultData>>
        <3>1. 1 \in 1 .. Len(heap) /\ 1 # k.table
            BY <1>3, <1>7
        <3>2. QED
            BY <1>3, <3>1 DEF StatsInv, StatsType
    <2>2. \A d \in Caller : IsCall(call'[d], Len(heap'))
        BY <1>3, <1>4 DEF StatsInv, StatsType, IsCall
    <2>3. done' \in [Model -> Seq(Sample)]
        <3>1. \A m \in Model : done'[m] \in Seq(Sample)
            BY <1>5, <1>8 DEF StatsInv, StatsType
        <3>2. done' = [m \in Model |-> done'[m]]
            BY <1>2 DEF Write, StatsInv, StatsType
        <3>3. QED
            BY <3>1, <3>2
    <2>4. QED
        BY <1>3, <1>4, <1>5, <2>1, <2>2, <2>3 DEF StatsInv, StatsType
<1>10. TablesApart'
    BY <1>3, <1>6 DEF StatsInv, TablesApart
<1>11. Owns(n, k.table)
    BY <1>1, <1>2, <1>3 DEF Owns, Uses
<1>12. ASSUME NEW m \in Model \ overlapped'
       PROVE  Alone(m)'
    <2>1. m \notin overlapped /\ Alone(m)
        BY <1>5 DEF StatsInv
    <2>2. c \notin Busy(m)'
        BY <1>4 DEF Busy
    <2>3. CASE m # n
        <3>1. c \notin Busy(m)
            BY <1>1, <1>2, <2>3 DEF Busy
        <3>2. models[m] # None => heap'[models[m]] = heap[models[m]]
            <4>1. SUFFICES ASSUME models[m] # None
                           PROVE  heap'[models[m]] = heap[models[m]]
                OBVIOUS
            <4>2. PICK t \in 2 .. count : t = models[m]
                BY <1>7, <4>1 DEF StatsInv, StatsType
            <4>3. Owns(m, t)
                BY <4>2 DEF Owns
            <4>4. t # k.table
                BY <1>3, <1>7, <1>11, <2>3, <4>3 DEF StatsInv, TablesApart
            <4>5. t \in 1 .. Len(heap)
                BY <1>7, <4>2
            <4>6. QED
                BY <1>3, <4>2, <4>4, <4>5
        <3>3. QED
            BY <1>4, <1>5, <2>1, <2>2, <2>3, <3>1, <3>2, OthersAlone
    <2>4. CASE m = n
        <3>1. c \in Busy(n)
            BY <1>1, <1>2, <1>3 DEF Busy
        <3>2. /\ models[n] # None /\ k.table = models[n] /\ heap[models[n]] = serial[n]
              /\ useMovingAverage => k.seen = serial[n][calcKB(k.sample.length)]
              /\ Started(n)
              /\ \A d \in Busy(n) : d = c
            BY <1>1, <1>3, <2>1, <2>4, <3>1 DEF Alone
        <3>3. PICK table : table = serial[n]
            OBVIOUS
        <3>4. Written(c, table) = AtOnce(table, k.sample)
            <4>1. CASE useMovingAverage
                BY <1>1, <3>2, <3>3, <4>1 DEF Written, AtOnce
            <4>2. CASE ~useMovingAverage
                <5>1. ~Interfering(c)
                    <6>1. SUFFICES ASSUME NEW d \in Caller \ {c}, call[d].at = "write",
                                          call[d].table = k.table
                                   PROVE  FALSE
                        BY <1>1 DEF Interfering
                    <6>2. IsCall(call[d], Len(heap))
                        BY DEF StatsInv, StatsType
                    <6>3. call[d].name \in Model
                        BY <6>1, <6>2 DEF IsCall, Idle
                    <6>4. Owns(call[d].name, k.table)
                        BY <6>1 DEF Owns, Uses
                    <6>5. call[d].name = n
                        BY <1>3, <1>11, <6>3, <6>4 DEF StatsInv, TablesApart
                    <6>6. d \in Busy(n)
                        BY <6>1, <6>5 DEF Busy
                    <6>7. QED
                        BY <3>2, <6>1, <6>6
                <5>2. table # Garbled
                    <6>1. PICK garbled : garbled = "garbled"
                        OBVIOUS
                    <6>2. <<garbled>>[1] = garbled
                        OBVIOUS
                    <6>3. table[1] # garbled
                        BY <3>2, <3>3, <4>2, <6>1, StatsConstants DEF StatsConstants, Started
                    <6>4. QED
                        BY <6>1, <6>2, <6>3 DEF Garbled
                <5>3. QED
                    BY <1>1, <4>2, <5>1, <5>2 DEF Written, AtOnce, TrainTTFT
            <4>3. QED
                BY <4>1, <4>2
        <3>5. heap'[models'[n]] = serial'[n]
            BY <1>3, <1>5, <3>2, <3>3, <3>4
        <3>6. Started(n)'
            <4>1. SUFFICES ASSUME ~useMovingAverage
                           PROVE  IsSeq(serial'[n]) /\ Len(serial'[n]) >= 1 /\ serial'[n][1] = DefaultData
                BY <1>5 DEF Started
            <4>2. PICK sample : sample = k.sample
                OBVIOUS
            <4>3. serial'[n] = Append(table, sample)
                BY <1>5, <3>3, <4>1, <4>2 DEF AtOnce
            <4>4. IsSeq(table) /\ Len(table) >= 1 /\ table[1] = DefaultData
                BY <3>2, <3>3, <4>1 DEF Started
            <4>5. Len(table) \in Nat
                BY <4>4, SeqFacts
            <4>6. /\ IsSeq(Append(table, sample)) /\ Len(Append(table, sample)) = Len(table) + 1
                  /\ \A i \in 1 .. Len(table) : Append(table, sample)[i] = table[i]
                BY <4>4, SeqAppend
            <4>7. QED
                BY <4>3, <4>4, <4>5, <4>6
        <3>7. \A d : d \notin Busy(n)'
            BY <1>4, <3>2 DEF Busy
        <3>8. models'[n] # None /\ done'[n] # <<>>
            BY <1>5, <1>8, <3>2
        <3>9. Alone(n)'
            BY <3>5, <3>6, <3>7, <3>8 DEF Alone
        <3>10. QED
            BY <2>4, <3>9
    <2>5. QED
        BY <2>3, <2>4
<1>13. QED
    BY <1>9, <1>10, <1>12 DEF StatsInv

LEMMA StatsKept == StatsInv /\ [Next]_vars => StatsInv'
<1>1. SUFFICES ASSUME StatsInv, [Next]_vars
               PROVE  StatsInv'
    OBVIOUS
<1>2. CASE UNCHANGED statsVars
    BY <1>1, <1>2 DEF statsVars, StatsInv, StatsType, TablesApart, Owns, Uses, Alone, Started, Busy,
            NewTable, NewModelTTFT
<1>3. CASE NextStats
    BY <1>1, <1>3, RecordStep, CreateStep, ReadStep, WriteStep DEF NextStats
<1>4. QED
    BY <1>1, <1>2, <1>3 DEF Next, vars

\* Without a lock around the lookup, the creation, the read and the write of
\* a table (ttft.go:94, prediction.go:107), what other names' callers do is
\* never seen in the table of a name, and calls of one name spoil its table
\* only if two of them were under way at once.
THEOREM SerialUnlessOverlapped == Spec => []ExactUnlessOverlapped
<1>1. StatsInv => ExactUnlessOverlapped
    <2>1. SUFFICES ASSUME StatsInv, NEW n \in Model \ overlapped, Busy(n) = {}
                   PROVE  IF done[n] = <<>>
                          THEN models[n] = None /\ Predictor(n) = (<<DefaultData>>)
                          ELSE Predictor(n) = serial[n]
        BY DEF ExactUnlessOverlapped
    <2>2. Alone(n) /\ heap[1] = <<DefaultData>>
        BY <2>1 DEF StatsInv, StatsType
    <2>3. CASE models[n] = None
        BY <2>2, <2>3 DEF Alone, Predictor
    <2>4. CASE models[n] # None
        BY <2>1, <2>2, <2>4 DEF Alone, Predictor
    <2>5. QED
        BY <2>3, <2>4
<1>2. Init => StatsInv
    BY StatsStart
<1>3. QED
    BY <1>1, <1>2, StatsKept, PTL DEF Spec

-----------------------------------------------------------------------------
\* The averages.

\* calcKB: the unit a length is in, the last one taking all that is longer.
LEMMA UnitOf ==
    ASSUME NEW length \in Nat
    PROVE  /\ calcKB(length) \in Units
           /\ calcKB(length) <= length \div KB
           /\ calcKB(length) * KB <= length
           /\ length < (calcKB(length) + 1) * KB \/ calcKB(length) = maxPromptLength - 1
<1>1. KB \in Nat /\ KB # 0 /\ maxPromptLength \in Nat /\ maxPromptLength # 0
    BY StatsConstants DEF StatsConstants
<1>2. PICK q \in Nat : q = length \div KB
    BY <1>1
<1>3. q * KB <= length /\ length < (q + 1) * KB
    <2>1. length = KB * (length \div KB) + (length % KB) /\ length % KB \in 0 .. KB - 1
        BY <1>1
    <2>2. PICK r \in 0 .. KB - 1 : length = KB * q + r
        BY <1>2, <2>1
    <2>3. KB * q = q * KB /\ (q + 1) * KB = q * KB + KB /\ q * KB \in Nat
        BY <1>1
    <2>4. QED
        BY <1>1, <2>2, <2>3
<1>4. PICK u : u = calcKB(length)
    OBVIOUS
<1>5. u \in {maxPromptLength - 1, q} /\ u <= maxPromptLength - 1 /\ u <= q
    <2>1. \E x \in {maxPromptLength - 1, q} : \A y \in {maxPromptLength - 1, q} : x <= y
        BY <1>1
    <2>2. u = CHOOSE x \in {maxPromptLength - 1, q} : \A y \in {maxPromptLength - 1, q} : x <= y
        BY <1>2, <1>4 DEF calcKB, Min
    <2>3. QED
        BY <2>1, <2>2
<1>6. u \in Nat /\ u \in Units
    BY <1>1, <1>5 DEF Units
<1>7. u * KB <= q * KB
    <2>1. PICK d \in Nat : q = u + d
        BY <1>5, <1>6
    <2>2. q * KB = u * KB + d * KB /\ d * KB \in Nat /\ u * KB \in Nat
        BY <1>1, <1>6, <2>1
    <2>3. QED
        BY <2>2
<1>8. u * KB <= length
    <2>1. u * KB \in Nat /\ q * KB \in Nat
        BY <1>1, <1>6
    <2>2. QED
        BY <1>3, <1>7, <2>1
<1>9. QED
    BY <1>2, <1>3, <1>4, <1>5, <1>6, <1>8

\* The average moves between the bounds of the old one and the new time.
LEMMA Between ==
    ASSUME NEW avg \in Int, NEW s \in Nat, NEW a \in Nat, NEW b \in Nat,
           Scale * a <= avg, avg <= Scale * b
    PROVE  /\ (9 * avg + Scale * s) \div 10 \in Int
           /\ Scale * a <= (9 * avg + Scale * s) \div 10 \/ Scale * s <= (9 * avg + Scale * s) \div 10
           /\ (9 * avg + Scale * s) \div 10 <= Scale * b \/ (9 * avg + Scale * s) \div 10 <= Scale * s
    BY DEF Scale

\* More samples leave a mean a mean.
LEMMA MeanKept ==
    ASSUME NEW n, NEW i, NEW x, Range(done[n]) \subseteq Range(done[n])', Mean(x, n, i)
    PROVE  Mean(x, n, i)'
<1>1. \A s : s \in OfUnit(n, i) => s \in OfUnit(n, i)'
    BY DEF OfUnit
<1>2. QED
    BY <1>1 DEF Mean

LEMMA TableMeansKept ==
    ASSUME NEW table, NEW n, Range(done[n]) \subseteq Range(done[n])', TableMeans(table, n)
    PROVE  TableMeans(table, n)'
<1>1. SUFFICES ASSUME NEW i \in Units
               PROVE  Mean(table[i], n, i)'
    BY DEF TableMeans, Units
<1>2. PICK x : x = table[i]
    OBVIOUS
<1>3. Mean(x, n, i)
    BY <1>2 DEF TableMeans
<1>4. Mean(x, n, i)'
    BY <1>3, MeanKept
<1>5. QED
    BY <1>2, <1>4

LEMMA CallerMeansKept ==
    ASSUME NEW c, call'[c] = call[c], CallerMeans(c),
           Range(done[call[c].name]) \subseteq Range(done'[call[c].name])
    PROVE  CallerMeans(c)'
<1>1. SUFFICES ASSUME call[c].at = "write"
               PROVE  CallerMeans(c)'
    BY DEF CallerMeans
<1>2. PICK x : x = call[c].seen
    OBVIOUS
<1>3. PICK n : n = call[c].name
    OBVIOUS
<1>4. PICK i : i = calcKB(call[c].sample.length)
    OBVIOUS
<1>5. Mean(x, n, i)
    BY <1>1, <1>2, <1>3, <1>4 DEF CallerMeans
<1>6. Mean(x, n, i)'
    BY <1>3, <1>5, MeanKept
<1>7. x = call'[c].seen /\ n = call'[c].name /\ i = calcKB(call'[c].sample.length)
    BY <1>2, <1>3, <1>4
<1>8. QED
    BY <1>6, <1>7 DEF CallerMeans

\* A step that leaves the tables and the samples alone.
LEMMA MeansOfCall ==
    ASSUME MeansInv, NEW c \in Caller, UNCHANGED <<useMovingAverage, heap, done>>,
           \A m \in Model : \A t \in 2 .. Len(heap) : Owns(m, t)' => Owns(m, t),
           \A d \in Caller : d # c => call'[d] = call[d],
           useMovingAverage => CallerMeans(c)'
    PROVE  MeansInv'
<1>1. SUFFICES ASSUME useMovingAverage
               PROVE  /\ \A n \in Model : \A t \in 2 .. Len(heap') :
                            Owns(n, t)' => TableMeans(heap[t], n)'
                      /\ \A d \in Caller : CallerMeans(d)'
    BY DEF MeansInv
<1>2. \A n : Range(done[n])' = Range(done[n])
    OBVIOUS
<1>3. ASSUME NEW n \in Model, NEW t \in 2 .. Len(heap), Owns(n, t)'
      PROVE  TableMeans(heap[t], n)'
    <2>1. PICK table : table = heap[t]
        OBVIOUS
    <2>2. TableMeans(table, n)
        BY <1>1, <1>3, <2>1 DEF MeansInv
    <2>3. TableMeans(table, n)'
        BY <1>2, <2>2, TableMeansKept
    <2>4. table = heap'[t]
        BY <2>1
    <2>5. QED
        BY <2>3, <2>4
<1>4. ASSUME NEW d \in Caller
      PROVE  CallerMeans(d)'
    <2>1. CASE d = c
        BY <1>1, <2>1
    <2>2. CASE d # c
        <3>1. CallerMeans(d)
            BY <1>1 DEF MeansInv
        <3>2. QED
            BY <2>2, <3>1, CallerMeansKept
    <2>3. QED
        BY <2>1, <2>2
<1>5. QED
    BY <1>3, <1>4

LEMMA RecordMeans ==
    ASSUME StatsInv, MeansInv, NEW c \in Caller, NEW n \in Name, NEW s \in Sample, RecordTTFT(c, n, s)
    PROVE  MeansInv'
<1>1. /\ UNCHANGED <<useMovingAverage, heap, done>>
      /\ \A d \in Caller : d # c => call'[d] = call[d]
      /\ call'[c].at # "write"
    BY DEF RecordTTFT, StatsInv, StatsType
<1>2. CallerMeans(c)'
    BY <1>1 DEF CallerMeans
<1>3. QED
    BY <1>1, <1>2, RecordStep, MeansOfCall

LEMMA ReadMeans ==
    ASSUME StatsInv, MeansInv, NEW c \in Caller, Read(c)
    PROVE  MeansInv'
<1>1. /\ UNCHANGED <<useMovingAverage, heap, done>>
      /\ \A d \in Caller : d # c => call'[d] = call[d]
    BY DEF Read, StatsInv, StatsType
<1>2. ASSUME useMovingAverage
      PROVE  CallerMeans(c)'
    <2>1. PICK k : k = call[c]
        OBVIOUS
    <2>2. k.at = "read" /\ k.name \in Model /\ k.sample \in Sample /\ k.table \in 2 .. Len(heap)
        <3>1. k.at = "read" /\ IsCall(k, Len(heap))
            BY <2>1 DEF Read, StatsInv, StatsType
        <3>2. QED
            BY <3>1 DEF IsCall, Idle
    <2>3. PICK n : n = k.name
        OBVIOUS
    <2>4. PICK i : i = calcKB(k.sample.length)
        OBVIOUS
    <2>5. PICK x : x = heap[k.table][i]
        OBVIOUS
    <2>6. i \in Units
        <3>1. k.sample.length \in Nat
            BY <2>2, StatsConstants DEF Sample, StatsConstants
        <3>2. QED
            BY <2>4, <3>1, UnitOf
    <2>7. Owns(n, k.table)
        BY <2>1, <2>2, <2>3 DEF Owns, Uses
    <2>8. Mean(x, n, i)
        BY <1>2, <2>2, <2>3, <2>5, <2>6, <2>7 DEF MeansInv, TableMeans
    <2>9. Mean(x, n, i)'
        <3>1. Range(done[n])' = Range(done[n])
            BY <1>1
        <3>2. QED
            BY <2>8, <3>1, MeanKept
    <2>10. /\ call'[c].name = n /\ call'[c].sample = k.sample /\ call'[c].seen = x
        BY <1>2, <2>1, <2>3, <2>4, <2>5, ReadStep
    <2>11. i = calcKB(call'[c].sample.length)
        BY <2>4, <2>10
    <2>12. QED
        BY <2>9, <2>10, <2>11 DEF CallerMeans
<1>3. QED
    BY <1>1, <1>2, ReadStep, MeansOfCall

LEMMA CreateMeans ==
    ASSUME StatsInv, MeansInv, NEW c \in Caller, Create(c)
    PROVE  MeansInv'
<1>1. UNCHANGED <<useMovingAverage, done>>
    BY DEF Create
<1>2. SUFFICES ASSUME useMovingAverage
               PROVE  /\ \A n \in Model : \A t \in 2 .. Len(heap') :
                            Owns(n, t)' => TableMeans(heap[t], n)'
                      /\ \A d \in Caller : CallerMeans(d)'
    BY <1>1 DEF MeansInv
<1>3. \A n : Range(done[n])' = Range(done[n])
    BY <1>1
<1>4. PICK new : new = Len(heap) + 1
    OBVIOUS
<1>5. /\ heap'[new] = NewModelTTFT /\ \A t \in 1 .. Len(heap) : heap'[t] = heap[t]
      /\ \A m \in Model : \A t \in 2 .. Len(heap') : Owns(m, t)' =>
            \/ t \in 2 .. Len(heap) /\ Owns(m, t)
            \/ t = new
    BY <1>2, <1>4, CreateStep DEF NewTable
<1>6. ASSUME NEW n \in Model, NEW t \in 2 .. Len(heap'), Owns(n, t)'
      PROVE  TableMeans(heap[t], n)'
    <2>1. PICK table : table = heap'[t]
        OBVIOUS
    <2>2. TableMeans(table, n)
        <3>1. CASE t = new
            <4>1. table = NewModelTTFT
                BY <1>5, <2>1, <3>1
            <4>2. DOMAIN table = Units /\ \A i \in Units : table[i] = 0
                BY <4>1 DEF NewModelTTFT
            <4>3. QED
                BY <4>2 DEF TableMeans, Mean
        <3>2. CASE t # new
            <4>1. t \in 2 .. Len(heap) /\ Owns(n, t)
                BY <1>5, <1>6, <3>2
            <4>2. Len(heap) \in Nat
                BY CreateStep
            <4>3. t \in 1 .. Len(heap)
                BY <4>1, <4>2
            <4>4. table = heap[t]
                BY <1>5, <2>1, <4>3
            <4>5. QED
                BY <1>2, <4>1, <4>4 DEF MeansInv
        <3>3. QED
            BY <3>1, <3>2
    <2>3. TableMeans(table, n)'
        BY <1>3, <2>2, TableMeansKept
    <2>4. QED
        BY <2>1, <2>3
<1>7. ASSUME NEW d \in Caller
      PROVE  CallerMeans(d)'
    <2>1. CASE d = c
        <3>1. IsCall(call[c], Len(heap)) /\ call[c].at = "create" /\ DOMAIN call = Caller
            BY DEF Create, StatsInv, StatsType
        <3>2. PICK k : k = call[c]
            OBVIOUS
        <3>3. DOMAIN k = {"at", "name", "sample", "table", "seen"}
            BY <3>1, <3>2 DEF IsCall, Idle
        <3>4. call' = [call EXCEPT ![c] = [[k EXCEPT !.at = "read"] EXCEPT !.table = new]]
            BY <1>4, <3>2 DEF Create
        <3>5. call'[c].at = "read"
            BY <3>1, <3>3, <3>4
        <3>6. QED
            BY <2>1, <3>5 DEF CallerMeans
    <2>2. CASE d # c
        <3>1. CallerMeans(d)
            BY <1>2 DEF MeansInv
        <3>2. call'[d] = call[d]
            BY <2>2 DEF Create, StatsInv, StatsType
        <3>3. QED
            BY <1>3, <3>1, <3>2, CallerMeansKept
    <2>3. QED
        BY <2>1, <2>2
<1>8. QED
    BY <1>6, <1>7

LEMMA WriteMeans ==
    ASSUME StatsInv, MeansInv, NEW c \in Caller, Write(c)
    PROVE  MeansInv'
<1>1. PICK k : k = call[c]
    OBVIOUS
<1>2. PICK n : n = k.name
    OBVIOUS
<1>3. /\ k.at = "write" /\ n \in Model /\ k.sample \in Sample /\ k.table \in 2 .. Len(heap)
      /\ Len(heap') = Len(heap) /\ heap'[k.table] = Written(c, heap[k.table])
      /\ \A t \in 1 .. Len(heap) : t # k.table => heap'[t] = heap[t]
      /\ call'[c].at = "idle" /\ \A d \in Caller : d # c => call'[d] = call[d]
    BY <1>1, <1>2, WriteEffect
<1>4. /\ done'[n] = Append(done[n], k.sample)
      /\ \A m \in Model : m # n => done'[m] = done[m]
      /\ useMovingAverage' = useMovingAverage
    BY <1>1, <1>2, WriteEffect
<1>5. \A m \in Model : \A t \in 2 .. Len(heap) : Owns(m, t)' => Owns(m, t)
    BY WriteEffect
<1>6. SUFFICES ASSUME useMovingAverage
               PROVE  /\ \A m \in Model : \A t \in 2 .. Len(heap') :
                            Owns(m, t)' => TableMeans(heap[t], m)'
                      /\ \A d \in Caller : CallerMeans(d)'
    BY <1>4 DEF MeansInv
<1>7. k.sample \in Range(done'[n]) /\ \A m \in Model : Range(done[m]) \subseteq Range(done[m])'
    <2>1. PICK s \in Sample : s = k.sample
        BY <1>3
    <2>2. PICK old \in Seq(Sample) : old = done[n]
        BY <1>3 DEF StatsInv, StatsType
    <2>3. /\ DOMAIN Append(old, s) = 1 .. Len(old) + 1 /\ DOMAIN old = 1 .. Len(old) /\ Len(old) \in Nat
          /\ Append(old, s)[Len(old) + 1] = s
          /\ \A i \in 1 .. Len(old) : Append(old, s)[i] = old[i]
        OBVIOUS
    <2>4. s \in Range(Append(old, s)) /\ Range(old) \subseteq Range(Append(old, s))
        BY <2>3 DEF Range
    <2>5. QED
        BY <1>4, <2>1, <2>2, <2>4
<1>8. PICK u : u = calcKB(k.sample.length)
    OBVIOUS
<1>9. StatsType'
    BY WriteStep DEF StatsInv
<1>10. PICK s : s = k.sample
    OBVIOUS
<1>11. s \in OfUnit(n, u)' /\ s.ttft \in Nat /\ u \in Units
    <2>1. s \in Sample /\ s.length \in Nat /\ s.ttft \in Nat
        BY <1>3, <1>10, StatsConstants DEF Sample, StatsConstants
    <2>2. s \in Range(done'[n])
        BY <1>7, <1>10
    <2>3. QED
        BY <1>8, <1>10, <2>1, <2>2, UnitOf DEF OfUnit
<1>12. PICK v : v = MovingAverage(k.seen, s.ttft)
    OBVIOUS
<1>13. Mean(v, n, u)'
    <2>1. PICK x : x = k.seen
        OBVIOUS
    <2>2. Mean(x, n, u)
        BY <1>1, <1>2, <1>3, <1>6, <1>8, <2>1 DEF MeansInv, CallerMeans
    <2>3. Mean(x, n, u)'
        BY <1>3, <1>7, <2>2, MeanKept
    <2>4. CASE x = 0
        <3>1. v = Scale * s.ttft /\ v \in Int /\ v <= v
            BY <1>11, <1>12, <2>1, <2>4 DEF MovingAverage, Scale
        <3>2. QED
            BY <1>11, <3>1 DEF Mean
    <2>5. CASE x # 0
        <3>1. x \in Int /\ \E a, b \in OfUnit(n, u)' : Scale * a.ttft <= x /\ x <= Scale * b.ttft
            BY <2>3, <2>5 DEF Mean
        <3>2. PICK a \in OfUnit(n, u)', b \in OfUnit(n, u)' : Scale * a.ttft <= x /\ x <= Scale * b.ttft
            BY <3>1
        <3>3. \A d \in OfUnit(n, u)' : d.ttft \in Nat
            <4>1. done'[n] \in Seq(Sample)
                BY <1>3, <1>9 DEF StatsType
            <4>2. \A d \in Range(done'[n]) : d \in Sample
                BY <4>1 DEF Range
            <4>3. \A d \in Sample : d.ttft \in Nat
                BY StatsConstants DEF Sample, StatsConstants
            <4>4. QED
                BY <4>2, <4>3 DEF OfUnit
        <3>4. v = (9 * x + Scale * s.ttft) \div 10
            BY <1>12, <2>1, <2>5 DEF MovingAverage
        <3>5. PICK low \in Nat : low = a.ttft
            BY <3>3
        <3>6. PICK high \in Nat : high = b.ttft
            BY <3>3
        <3>7. PICK now \in Nat : now = s.ttft
            BY <1>11
        <3>8. /\ v \in Int
              /\ Scale * low <= v \/ Scale * now <= v
              /\ v <= Scale * high \/ v <= Scale * now
            BY <3>1, <3>2, <3>4, <3>5, <3>6, <3>7, Between
        <3>9. QED
            BY <1>11, <3>2, <3>5, <3>6, <3>7, <3>8 DEF Mean
    <2>6. QED
        BY <2>4, <2>5
<1>14. Owns(n, k.table)
    BY <1>1, <1>2, <1>3 DEF Owns, Uses
<1>15. ASSUME NEW m \in Model, NEW t \in 2 .. Len(heap'), Owns(m, t)'
       PROVE  TableMeans(heap[t], m)'
    <2>1. t \in 2 .. Len(heap) /\ Owns(m, t)
        BY <1>3, <1>5, <1>15
    <2>2. PICK table : table = heap[t]
        OBVIOUS
    <2>3. TableMeans(table, m)'
        BY <1>6, <1>7, <2>1, <2>2, TableMeansKept DEF MeansInv
    <2>4. CASE t # k.table
        <3>1. t \in 1 .. Len(heap)
            <4>1. Len(heap) \in Nat
                BY SeqFacts DEF StatsInv, StatsType
            <4>2. QED
                BY <2>1, <4>1
        <3>2. table = heap'[t]
            BY <1>3, <2>2, <2>4, <3>1
        <3>3. QED
            BY <2>3, <3>2
    <2>5. CASE t = k.table
        <3>1. m = n
            BY <1>3, <1>14, <2>1, <2>5 DEF StatsInv, TablesApart
        <3>2. PICK new : new = [table EXCEPT ![u] = v]
            OBVIOUS
        <3>3. new = heap'[t]
            BY <1>1, <1>3, <1>6, <1>8, <1>10, <1>12, <2>2, <2>5, <3>2 DEF Written
        <3>4. /\ DOMAIN table = Units /\ DOMAIN new = Units /\ new[u] = v
              /\ \A i \in Units : i # u => new[i] = table[i]
            BY <1>11, <2>3, <3>2 DEF TableMeans, Units
        <3>5. ASSUME NEW i \in Units
              PROVE  Mean(new[i], n, i)'
            <4>1. PICK x : x = new[i]
                OBVIOUS
            <4>2. CASE i = u
                BY <1>13, <3>4, <4>2
            <4>3. CASE i # u
                BY <2>3, <3>1, <3>4, <4>3 DEF TableMeans, Units
            <4>4. QED
                BY <4>2, <4>3
        <3>6. TableMeans(new, n)'
            BY <3>4, <3>5 DEF TableMeans, Units
        <3>7. QED
            BY <3>1, <3>3, <3>6
    <2>6. QED
        BY <2>4, <2>5
<1>16. ASSUME NEW d \in Caller
       PROVE  CallerMeans(d)'
    <2>1. CASE d = c
        BY <1>3, <2>1 DEF CallerMeans
    <2>2. CASE d # c
        <3>1. CallerMeans(d)
            BY <1>6 DEF MeansInv
        <3>2. CASE call[d].at = "write"
            <4>1. call[d].name \in Model
                BY <3>2 DEF StatsInv, StatsType, IsCall, Idle
            <4>2. QED
                BY <1>3, <1>7, <2>2, <3>1, <4>1, CallerMeansKept
        <3>3. CASE call[d].at # "write"
            BY <1>3, <2>2, <3>3 DEF CallerMeans
        <3>4. QED
            BY <3>2, <3>3
    <2>3. QED
        BY <2>1, <2>2
<1>17. QED
    BY <1>15, <1>16

LEMMA MeansKept == StatsInv /\ MeansInv /\ [Next]_vars => MeansInv'
<1>1. SUFFICES ASSUME StatsInv, MeansInv, [Next]_vars
               PROVE  MeansInv'
    OBVIOUS
<1>2. CASE UNCHANGED statsVars
    BY <1>1, <1>2 DEF statsVars, MeansInv, TableMeans, CallerMeans, Mean, OfUnit, Owns, Uses
<1>3. CASE NextStats
    BY <1>1, <1>3, RecordMeans, CreateMeans, ReadMeans, WriteMeans DEF NextStats
<1>4. QED
    BY <1>1, <1>2, <1>3 DEF Next, vars

\* A mean in a unit, in milliseconds, is between two times of the unit.
LEMMA Rounded ==
    ASSUME NEW x \in Int, NEW a \in Nat, NEW b \in Nat, Scale * a <= x, x <= Scale * b
    PROVE  a <= x \div Scale /\ x \div Scale <= b
    BY DEF Scale

\* MatchTTFT (ttft.go:83), which reads without a lock tables that lost
\* updates and lost creations may have spoilt, never answers with a time
\* longer or shorter than all those recorded for the model in the unit of
\* prompt length it found.
THEOREM MatchesRecorded == Spec => []MatchWithinRecorded
<1>1. StatsInv /\ MeansInv => MatchWithinRecorded
    <2>1. SUFFICES ASSUME StatsInv, MeansInv, useMovingAverage, NEW n \in Model,
                          NEW length \in Lengths, MatchTTFT(n, length) # defaultTTFT
                   PROVE  \E i \in Units :
                             /\ i <= length \div KB
                             /\ \E a, b \in OfUnit(n, i) : a.ttft <= MatchTTFT(n, length)
                                                           /\ MatchTTFT(n, length) <= b.ttft
        BY DEF MatchWithinRecorded
    <2>2. length \in Nat /\ KB \in Nat \ {0} /\ maxPromptLength \in Nat
        BY StatsConstants DEF StatsConstants
    <2>3. PICK found : found = Known(n, length)
        OBVIOUS
    <2>4. PICK i : i = Max(found)
        OBVIOUS
    <2>5. PICK x : x = heap[models[n]][i]
        OBVIOUS
    <2>6. models[n] # None /\ found # {} /\ MatchTTFT(n, length) = x \div Scale
        BY <2>1, <2>3, <2>4, <2>5 DEF MatchTTFT
    <2>7. PICK u \in Units : u = calcKB(length) /\ u <= length \div KB
        BY <2>2, UnitOf
    <2>8. found \in SUBSET (0 .. u)
        BY <2>3, <2>7 DEF Known
    <2>9. u \in Nat
        BY <2>2, <2>7 DEF Units
    <2>10. i \in found
        BY <2>4, <2>6, <2>8, <2>9, Extremes
    <2>11. i \in Units /\ i <= length \div KB
        <3>1. i \in 0 .. u /\ length \div KB \in Int
            BY <2>2, <2>8, <2>10
        <3>2. QED
            BY <2>2, <2>7, <2>9, <3>1 DEF Units
    <2>12. x > 0
        BY <2>3, <2>5, <2>10 DEF Known
    <2>13. Mean(x, n, i)
        <3>1. models[n] \in 2 .. Len(heap) /\ Owns(n, models[n])
            BY <2>1, <2>6 DEF StatsInv, StatsType, Owns
        <3>2. TableMeans(heap[models[n]], n)
            BY <2>1, <3>1 DEF MeansInv
        <3>3. QED
            BY <2>5, <2>11, <3>2 DEF TableMeans
    <2>14. x \in Int /\ \E a, b \in OfUnit(n, i) : Scale * a.ttft <= x /\ x <= Scale * b.ttft
        <3>1. x # 0
            BY <2>12
        <3>2. QED
            BY <2>13, <3>1 DEF Mean
    <2>15. PICK a \in OfUnit(n, i), b \in OfUnit(n, i) : Scale * a.ttft <= x /\ x <= Scale * b.ttft
        BY <2>14
    <2>16. \A d \in OfUnit(n, i) : d.ttft \in Nat
        <3>1. done[n] \in Seq(Sample)
            BY <2>1 DEF StatsInv, StatsType
        <3>2. \A d \in Range(done[n]) : d \in Sample
            BY <3>1 DEF Range
        <3>3. \A d \in Sample : d.ttft \in Nat
            BY StatsConstants DEF Sample, StatsConstants
        <3>4. QED
            BY <3>2, <3>3 DEF OfUnit
    <2>17. PICK low \in Nat : low = a.ttft
        BY <2>16
    <2>18. PICK high \in Nat : high = b.ttft
        BY <2>16
    <2>19. low <= x \div Scale /\ x \div Scale <= high
        BY <2>14, <2>15, <2>17, <2>18, Rounded
    <2>20. QED
        BY <2>6, <2>11, <2>17, <2>18, <2>19
<1>2. Init => StatsInv /\ MeansInv
    BY StatsStart
<1>3. QED
    BY <1>1, <1>2, StatsKept, MeansKept, PTL DEF Spec
=============================================================================
