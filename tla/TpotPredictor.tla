---------------------------- MODULE TpotPredictor ----------------------------
(***************************************************************************)
(* The predictor of the time per output token (pkg/prediction): one        *)
(* recursive-least-squares estimator for each segment of batch sizes, the  *)
(* segments given by thresholds.  It belongs to its caller, who may build  *)
(* it anew or from known parameters, clone it, train it and ask it.        *)
(*                                                                         *)
(* An estimator is abstracted to what it started from (the zero parameters *)
(* or given ones) and the batch sizes it was trained with: its forgetting  *)
(* factor is 1, so the samples determine its parameters.                   *)
(***************************************************************************)
EXTENDS Integers, Sequences

CONSTANTS
  Batches,     \* batch sizes
  Threshes,    \* lists of thresholds a caller may ask for
  MaxParams,   \* most parameter rows a caller gives
  MaxTrained   \* bound on the samples an estimator is trained with

ASSUME TpotConstants ==
  /\ Batches \subseteq Int
  /\ \A t \in Threshes : t \in Seq(Int)
  /\ MaxParams \in Nat /\ MaxTrained \in Nat

VARIABLES
  predictors,  \* the predictors made so far: thresholds, and segment -> estimator
  estimators,  \* the estimators made so far
  panicked,    \* predictors on which a call has panicked
  trained      \* history: per predictor and segment, the batch sizes that
               \* belong there, in order

tpotVars == <<predictors, estimators, panicked, trained>>

InitTpot ==
  /\ predictors = <<>> /\ estimators = <<>>
  /\ panicked = {} /\ trained = <<>>

\* validateThresh: strictly ascending.
Ascending(thresh) == \A i \in 2 .. Len(thresh) : thresh[i - 1] < thresh[i]

NewRLS == [from |-> 0, samples |-> <<>>]
NewRLSWithParams(i) == [from |-> i, samples |-> <<>>]

\* NewTpotPredictor, and with given > 0 NewTpotPredictorWithParams: a
\* segment for each threshold and one above, the first of them from the
\* given parameters.
NewPredictor(thresh, given) ==
  LET segments == 1 .. Len(thresh) + 1 IN
  /\ predictors = <<>>
  /\ Ascending(thresh)
  /\ predictors' = <<[thresh |-> thresh, rls |-> [i \in segments |-> i]]>>
  /\ estimators' = [i \in segments |->
                      IF i <= given THEN NewRLSWithParams(i) ELSE NewRLS]
  /\ trained' = <<[i \in segments |-> <<>>]>>
  /\ UNCHANGED panicked

\* TpotRecursiveLeastSquares.Clone copies the parameters and the matrix.
CloneRLS(e) == estimators[e]

\* TpotPredictionImpl.Clone: new estimators, equal to the old ones.
Clone ==
  LET old == predictors[1] IN
  /\ Len(predictors) = 1
  /\ predictors' = Append(predictors,
       [old EXCEPT !.rls = [i \in DOMAIN @ |-> Len(estimators) + i]])
  /\ estimators' = estimators \o [i \in DOMAIN old.rls |-> CloneRLS(old.rls[i])]
  /\ trained' = Append(trained, trained[1])
  /\ UNCHANGED panicked

\* Mutant: a batch size equal to a threshold is below it.
SegmentInclusive(thresh, batch) ==
  LET below == {i \in 1 .. Len(thresh) : batch <= thresh[i]} IN
  IF below # {} THEN CHOOSE i \in below : \A j \in below : i <= j
  ELSE IF thresh = <<>> THEN 2 ELSE Len(thresh) + 1

\* segment, counted from 1: the first threshold above the batch size, else
\* the one after the last index of the loop.  Without thresholds the loop
\* never sets the index, and what it returns is not a segment.
segment(thresh, batch) ==
  LET below == {i \in 1 .. Len(thresh) : batch < thresh[i]} IN
  IF below # {} THEN CHOOSE i \in below : \A j \in below : i <= j
  ELSE IF thresh = <<>> THEN 2 ELSE Len(thresh) + 1

Panics(p, batch) ==
  segment(predictors[p].thresh, batch) \notin DOMAIN predictors[p].rls

\* TpotRecursiveLeastSquares.Update.
Update(e, batch) ==
  estimators' = [estimators EXCEPT ![e].samples = Append(@, batch)]

\* The segments as documented: "[0, thresh1), [thresh1, thresh2),
\* [thresh2, inf)".
InSegment(thresh, i, batch) ==
  /\ i > 1 => thresh[i - 1] <= batch
  /\ i <= Len(thresh) => batch < thresh[i]

\* Train: the estimator of the batch size's segment is updated.
Train(p, batch) ==
  LET thresh == predictors[p].thresh
      e == predictors[p].rls[segment(thresh, batch)]
  IN
  /\ p \in DOMAIN predictors
  /\ ~Panics(p, batch)
  /\ Len(estimators[e].samples) < MaxTrained
  /\ Update(e, batch)
  /\ trained' = [trained EXCEPT ![p] =
       [i \in DOMAIN @ |-> IF InSegment(thresh, i, batch)
                           THEN Append(@[i], batch) ELSE @[i]]]
  /\ UNCHANGED <<predictors, panicked>>

\* Train or Predict indexes the estimators beyond their end.
Panic(p, batch) ==
  /\ p \in DOMAIN predictors
  /\ Panics(p, batch)
  /\ panicked' = panicked \union {p}
  /\ UNCHANGED <<predictors, estimators, trained>>

NextTpot ==
  \/ \E t \in Threshes, given \in 0 .. MaxParams : NewPredictor(t, given)
  \/ Clone
  \/ \E p \in 1 .. 2, b \in Batches : Train(p, b) \/ Panic(p, b)
=============================================================================
