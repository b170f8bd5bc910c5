------------------------------ MODULE TTFTStats ------------------------------
(***************************************************************************)
(* The statistics of the time to first token (pkg/metrics_stats), which    *)
(* the filter asks how long the prompt timer has to run.  For every model  *)
(* name there is a table, created by the first record: with                *)
(* AIGW_USE_MOVING_AVERAGE a moving average for each kilobyte of prompt    *)
(* length, without it a recursive-least-squares estimator cloned from a    *)
(* default one.  The map of tables is a sync.Map, the tables themselves    *)
(* are read and written without a lock.                                    *)
(*                                                                         *)
(* An estimator is abstracted to the samples it was trained with, in       *)
(* order: its forgetting factor is 1, so they determine its parameters.    *)
(* Averages are fixed-point numbers of Scale units a millisecond.          *)
(***************************************************************************)
EXTENDS Integers, Sequences, FiniteSetsExt, Functions

CONSTANTS
  Caller,           \* goroutines that record a time
  Name,             \* model names
  NoName,           \* the empty model name, one of Name
  Lengths,          \* prompt lengths in bytes, 0 among them
  Times,            \* times to first token in milliseconds
  KB,               \* bytes in a unit of prompt length
  maxPromptLength,  \* units told apart
  defaultTTFT,      \* the answer when nothing is known
  None,             \* no table
  DefaultData,      \* what the default estimator was trained with
  MaxRecords        \* bound on the times recorded

ASSUME StatsConstants ==
  /\ NoName \in Name
  /\ None \notin Int
  /\ DefaultData # "garbled"
  /\ Lengths \subseteq Nat /\ Times \subseteq Nat
  /\ KB \in Nat \ {0} /\ maxPromptLength \in Nat \ {0}
  /\ MaxRecords \in Nat

VARIABLES
  useMovingAverage, \* the environment's choice
  models,           \* name -> index in heap of its table, or None
  heap,             \* the tables created so far; the first is defaultModel
  call,             \* caller -> the RecordTTFT it is in
  done,             \* history: name -> the samples recorded, in order
  serial,           \* history: name -> the table that its samples make,
                    \* each recorded in one step, in the order of done
  overlapped        \* history: names two calls have recorded at once

statsVars == <<useMovingAverage, models, heap, call, done, serial, overlapped>>

Scale == 100
Model == Name \ {NoName}
Sample == [length : Lengths, ttft : Times]
Idle == [at |-> "idle"]
Garbled == <<"garbled">>

\* math.Min of the last unit and the floor of the length in units.
calcKB(length) == Min({maxPromptLength - 1, length \div KB})

Units == 0 .. maxPromptLength - 1
NewModelTTFT == [i \in Units |-> 0]
NewTable == IF useMovingAverage THEN NewModelTTFT ELSE <<DefaultData>>

InitStats ==
  /\ useMovingAverage \in BOOLEAN
  /\ models = [n \in Model |-> None]
  /\ heap = << <<DefaultData>> >>
  /\ call = [c \in Caller |-> Idle]
  /\ done = [n \in Model |-> <<>>]
  /\ serial = [n \in Model |-> NewTable]
  /\ overlapped = {}

Records == FoldFunction(+, 0, [n \in Model |-> Len(done[n])])
Busy(n) == {c \in Caller : call[c].at # "idle" /\ call[c].name = n}

\* What RecordTTFT accepts.
Valid(n, input, ttft) == input > 0 /\ ttft > 0 /\ n # NoName

\* The name's table is looked up; a name without one is for Create.
RecordTTFT(c, n, s) ==
  /\ call[c].at = "idle"
  /\ Valid(n, s.length, s.ttft)
  /\ Records + Cardinality({d \in Caller : call[d].at # "idle"}) < MaxRecords
  /\ call' = [call EXCEPT ![c] =
       [at |-> IF models[n] = None THEN "create" ELSE "read",
        name |-> n, sample |-> s, table |-> models[n], seen |-> 0]]
  /\ overlapped' = IF Busy(n) # {} THEN overlapped \union {n} ELSE overlapped
  /\ UNCHANGED <<useMovingAverage, models, heap, done, serial>>

\* defaultModel.Clone copies the parameters and the matrix.
CloneDefault == heap[1]

\* Mutant: the clone shares the default's parameters and matrix.
CreateShared(c) ==
  /\ call[c].at = "create"
  /\ heap' = IF useMovingAverage THEN Append(heap, NewModelTTFT) ELSE heap
  /\ models' = [models EXCEPT ![call[c].name] = Len(heap')]
  /\ call' = [call EXCEPT ![c].at = "read", ![c].table = Len(heap')]
  /\ UNCHANGED <<useMovingAverage, done, serial, overlapped>>

\* Whoever missed the table stores a new one, in place of one stored since.
Create(c) ==
  LET new == Len(heap) + 1 IN
  /\ call[c].at = "create"
  /\ heap' = Append(heap, IF useMovingAverage THEN NewModelTTFT ELSE CloneDefault)
  /\ models' = [models EXCEPT ![call[c].name] = new]
  /\ call' = [call EXCEPT ![c].at = "read", ![c].table = new]
  /\ UNCHANGED <<useMovingAverage, done, serial, overlapped>>

\* The average is read, or the estimator's matrix and parameters are.  The
\* code reads an average twice, to test it and to use it: one that is not
\* zero never becomes zero again, so the last of these reads decides.
Read(c) ==
  LET table == heap[call[c].table] IN
  /\ call[c].at = "read"
  /\ call' = [call EXCEPT ![c].at = "write",
       ![c].seen = IF useMovingAverage
                   THEN table[calcKB(call[c].sample.length)] ELSE 0]
  /\ UNCHANGED <<useMovingAverage, models, heap, done, serial, overlapped>>

\* alpha is 0.9; a zero average is one that has no value yet.
MovingAverage(avg, ttft) ==
  IF avg = 0 THEN Scale * ttft ELSE (9 * avg + Scale * ttft) \div 10

\* Somebody else is between reading and writing the same estimator.
Interfering(c) ==
  \E d \in Caller \ {c} : call[d].at = "write" /\ call[d].table = call[c].table

\* RLS.update in place; two at once may leave any parameters behind.
TrainTTFT(c, samples) ==
  IF Interfering(c) \/ samples = Garbled THEN Garbled
  ELSE Append(samples, call[c].sample)

\* The new average, or the estimator trained with one more sample.
Written(c, table) ==
  IF useMovingAverage
  THEN [table EXCEPT ![calcKB(call[c].sample.length)] =
          MovingAverage(call[c].seen, call[c].sample.ttft)]
  ELSE TrainTTFT(c, table)

\* A sample recorded in one step.
AtOnce(table, sample) ==
  IF useMovingAverage
  THEN [table EXCEPT ![calcKB(sample.length)] = MovingAverage(@, sample.ttft)]
  ELSE Append(table, sample)

Write(c) ==
  /\ call[c].at = "write"
  /\ heap' = [heap EXCEPT ![call[c].table] = Written(c, @)]
  /\ done' = [done EXCEPT ![call[c].name] = Append(@, call[c].sample)]
  /\ serial' = [serial EXCEPT ![call[c].name] = AtOnce(@, call[c].sample)]
  /\ call' = [call EXCEPT ![c] = Idle]
  /\ UNCHANGED <<useMovingAverage, models, overlapped>>

NextStats ==
  \E c \in Caller :
    \/ \E n \in Name, s \in Sample : RecordTTFT(c, n, s)
    \/ Create(c)
    \/ Read(c)
    \/ Write(c)

----------------------------------------------------------------------------
(* The questions, which change nothing.                                   *)

\* Mutant: the search starts one unit above the prompt's own.
KnownOffByOne(n, length) ==
  {i \in 0 .. Min({maxPromptLength - 1, calcKB(length) + 1}) :
     heap[models[n]][i] > 0}

\* The units up to the prompt's own that have an average.
Known(n, length) == {i \in 0 .. calcKB(length) : heap[models[n]][i] > 0}

\* ModelTTFT.MatchTTFT: the nearest shorter prompts that have an average.
MatchTTFT(n, length) ==
  IF length <= 0 \/ n = NoName \/ models[n] = None \/ Known(n, length) = {}
  THEN defaultTTFT
  ELSE heap[models[n]][Max(Known(n, length))] \div Scale

\* PredictionModels.PredictTTFT: the estimator that a prediction comes from.
Predictor(n) == IF models[n] = None THEN heap[1] ELSE heap[models[n]]

=============================================================================
