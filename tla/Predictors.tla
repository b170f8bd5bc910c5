----------------------------- MODULE Predictors -----------------------------
(***************************************************************************)
(* The two predictors side by side, and what can be relied on: recorded    *)
(* times of a model are kept apart from other models' and averaged as      *)
(* defined, unless two calls record the same model at once; a batch size   *)
(* trains the estimator of its own segment and of its own predictor.       *)
(***************************************************************************)
EXTENDS TTFTStats, TpotPredictor

vars == <<statsVars, tpotVars>>

Init == InitStats /\ InitTpot

\* The two share no state: a behaviour that mixes them shows nothing that
\* its two parts do not, so each behaviour exercises one of them.
Next ==
  \/ NextStats /\ InitTpot /\ UNCHANGED tpotVars
  \/ NextTpot /\ InitStats /\ UNCHANGED statsVars

Spec == Init /\ [][Next]_vars

-----------------------------------------------------------------------------
\* The samples of a name that fall in a unit of prompt length.
OfUnit(n, i) ==
  {s \in Range(done[n]) :
    /\ i * KB <= s.length
    /\ s.length < (i + 1) * KB \/ i = maxPromptLength - 1}

\* RecordTTFT looks up, creates, stores, reads and writes without a lock
\* (ttft.go:94, prediction.go:107).  A name that no two calls recorded at
\* once has, whatever goes on with other names, the table its own records
\* make one after another, each in one step; a name without records is
\* answered by the default estimator as it was trained at start-up.
ExactUnlessOverlapped ==
  \A n \in Model \ overlapped :
    Busy(n) = {} =>
      IF done[n] = <<>>
      THEN models[n] = None /\ Predictor(n) = (<<DefaultData>>)
      ELSE Predictor(n) = serial[n]

\* MatchTTFT (ttft.go:83) scans down from the prompt's own unit.  Even with
\* lost averages and lost tables, an answer other than the default lies
\* between two times recorded for this model in one unit not above the
\* prompt's own.
MatchWithinRecorded ==
  useMovingAverage =>
    \A n \in Model, length \in Lengths :
      LET answer == MatchTTFT(n, length) IN
      \/ answer = defaultTTFT
      \/ \E i \in Units :
           /\ i <= length \div KB
           /\ \E a, b \in OfUnit(n, i) : a.ttft <= answer /\ answer <= b.ttft

\* NewTpotPredictor says of the segments "[0, thresh1), [thresh1, thresh2),
\* [thresh2, inf)" (tpot_prediction.go:65).  Each estimator of a predictor
\* or of its clone holds the samples of its own segment trained on that
\* predictor, and a call panics only if there are no thresholds.
SegmentsApart ==
  \A p \in DOMAIN predictors :
    /\ p \in panicked => predictors[p].thresh = <<>>
    /\ \A i \in DOMAIN predictors[p].rls :
         estimators[predictors[p].rls[i]].samples = trained[p][i]
=============================================================================
