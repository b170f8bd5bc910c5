---- MODULE MCPredictors ----
EXTENDS Predictors, TLC

\* Of three times averaged one after another each newer one weighs a tenth
\* and what was there before nine tenths (ttft.go, alpha).
ASSUME WeighedByAge ==
  \A s, t, u \in Times \ {0} :
    LET second == MovingAverage(MovingAverage(0, s), t) IN
    /\ second = 90 * s + 10 * t
    /\ MovingAverage(second, u) = 81 * s + 9 * t + 10 * u

MCThreshes == {<<>>, <<2>>, <<2, 3>>, <<3, 2>>}
Symmetric == Permutations(Caller) \union Permutations(Model)
====
