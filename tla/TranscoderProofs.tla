-------------------------- MODULE TranscoderProofs --------------------------
(***************************************************************************)
(* The transcoder's response path, for every response, every line end the  *)
(* SSE format allows, every way to cut the stream and any contents of the  *)
(* messages.                                                               *)
(*                                                                         *)
(* What the transcoder does is folds: over tokens (unifying line ends,     *)
(* splitting events), over messages (handling them) and over choices.  The *)
(* library says nothing of folds and its induction theorems cannot be      *)
(* instantiated, so the module starts with an induction whose hypothesis   *)
(* is a set of numbers and derives from it what a fold returns.  Then, in  *)
(* this order: types; the text and the log of what was passed on; the wire *)
(* and where a cut of it may leave the transcoder (Settled, Placed); one   *)
(* frame; the invariant and the properties that follow from it; reasoning. *)
(***************************************************************************)
EXTENDS Transcoder, SequenceTheorems, FiniteSetTheorems, WellFoundedInduction, TLAPS

\* Induction up to n, with the induction hypothesis given as the set of the
\* numbers it holds for.
LEMMA Induction ==
    ASSUME NEW n \in Nat, NEW T, 0 \in T, \A k \in 0 .. n - 1 : k \in T => k + 1 \in T
    PROVE  \A k \in 0 .. n : k \in T
<1> DEFINE U == {k \in 0 .. n : k \notin T}
<1>1. SUFFICES ASSUME U # {}
               PROVE  FALSE
    OBVIOUS
<1>2. U \subseteq Nat
    OBVIOUS
<1>3. PICK x \in U : \A y \in U : ~(<<y, x>> \in OpToRel(<, Nat))
    <2> HIDE DEF U
    <2>1. QED
        BY <1>1, <1>2, WFMin, NatLessThanWellFounded
<1>4. \A y \in U : ~(y < x)
    <2>1. ASSUME NEW y \in U, y < x
          PROVE  FALSE
        <3>1. <<y, x>> \in OpToRel(<, Nat)
            BY <1>2, <2>1 DEF OpToRel
        <3>2. QED
            BY <1>3, <3>1
    <2>2. QED
        BY <2>1
<1>5. x \in 1 .. n /\ x - 1 \in 0 .. n - 1 /\ x - 1 \notin U
    BY <1>4
<1>6. x - 1 \in T
    BY <1>5
<1>7. (x - 1) + 1 \in T
    BY <1>5, <1>6
<1>8. QED
    BY <1>5, <1>7

\* The largest of a finite set of numbers, and the set without it.
HaveLargest(k) == \A u \in SUBSET (1 .. k) : u # {} => \E x \in u : \A y \in u : x >= y

LEMMA Largest ==
    ASSUME NEW n \in Nat, NEW s \in SUBSET (1 .. n), s # {}
    PROVE  Max(s) \in s /\ \A y \in s : Max(s) >= y
<1> DEFINE T == {k \in 0 .. n : HaveLargest(k)}
<1>1. 0 \in T
    <2>1. 1 .. 0 = {}
        OBVIOUS
    <2>2. \A u \in SUBSET (1 .. 0) : u = {}
        BY <2>1
    <2>3. HaveLargest(0)
        BY <2>2 DEF HaveLargest
    <2>4. QED
        BY <2>3
<1>2. ASSUME NEW k \in 0 .. n - 1, k \in T
      PROVE  k + 1 \in T
    <2>1. SUFFICES ASSUME NEW u \in SUBSET (1 .. k + 1), u # {}
                   PROVE  \E x \in u : \A y \in u : x >= y
        BY DEF HaveLargest
    <2>2. CASE k + 1 \in u
        BY <2>2
    <2>3. CASE k + 1 \notin u
        <3>1. u \in SUBSET (1 .. k)
            BY <2>3
        <3>2. QED
            BY <1>2, <2>1, <3>1 DEF HaveLargest
    <2>4. QED
        BY <2>2, <2>3
<1>3. n \in T
    <2> HIDE DEF T
    <2>1. \A k \in 0 .. n : k \in T
        BY <1>1, <1>2, Induction
    <2>2. QED
        BY <2>1
<1>4. \E x \in s : \A y \in s : x >= y
    BY <1>3 DEF HaveLargest
<1>5. QED
    BY <1>4 DEF Max

\* The least of a set of numbers.
LEMMA Least ==
    ASSUME NEW n \in Nat, NEW s \in SUBSET (1 .. n), s # {}
    PROVE  \E x \in s : \A y \in s : x <= y
<1>1. s \subseteq Nat
    OBVIOUS
<1>2. PICK x \in s : \A y \in s : ~(<<y, x>> \in OpToRel(<, Nat))
    BY <1>1, WFMin, NatLessThanWellFounded
<1>3. ASSUME NEW y \in s, y < x
      PROVE  FALSE
    <2>1. <<y, x>> \in OpToRel(<, Nat)
        BY <1>1, <1>3 DEF OpToRel
    <2>2. QED
        BY <1>2, <2>1
<1>4. QED
    BY <1>1, <1>3

-----------------------------------------------------------------------------
\* Folds.  FoldLeft of the library is the value at 1 .. n of a function g on
\* the subsets of 1 .. n: with the step given as a function op on pairs, g is
\* this one.
Iterates(g, op, base, n, seq) ==
    \A s \in SUBSET (1 .. n) :
        g[s] = IF s = {} THEN base ELSE op[<<g[s \ {Max(s)}], seq[Max(s)]>>]

LEMMA IterateExists ==
    ASSUME NEW S, NEW E, NEW op \in [S \X E -> S], NEW base \in S, NEW seq \in Seq(E)
    PROVE  \E g \in [SUBSET (1 .. Len(seq)) -> S] : Iterates(g, op, base, Len(seq), seq)
<1> DEFINE n == Len(seq)
           T == {k \in 0 .. n : \E g \in [SUBSET (1 .. k) -> S] : Iterates(g, op, base, k, seq)}
<1>1. n \in Nat /\ \A i \in 1 .. n : seq[i] \in E
    OBVIOUS
<1> HIDE DEF n
<1>2. 0 \in T
    <2>1. PICK g : g = [s \in SUBSET (1 .. 0) |-> base]
        OBVIOUS
    <2>2. \A s \in SUBSET (1 .. 0) : s = {}
        <3>1. 1 .. 0 = {}
            OBVIOUS
        <3>2. QED
            BY <3>1
    <2>3. Iterates(g, op, base, 0, seq)
        BY <2>1, <2>2 DEF Iterates
    <2>4. g \in [SUBSET (1 .. 0) -> S]
        BY <2>1
    <2>5. 0 \in 0 .. n
        BY <1>1
    <2>6. \E f \in [SUBSET (1 .. 0) -> S] : Iterates(f, op, base, 0, seq)
        BY <2>3, <2>4
    <2>7. QED
        BY <2>5, <2>6
<1>3. ASSUME NEW k \in 0 .. n - 1, k \in T
      PROVE  k + 1 \in T
    <2>1. PICK g \in [SUBSET (1 .. k) -> S] : Iterates(g, op, base, k, seq)
        BY <1>3
    <2>2. k \in Nat /\ k + 1 \in 1 .. n /\ k + 1 \in 0 .. n
        BY <1>1
    <2>3. PICK h : h = [s \in SUBSET (1 .. k + 1) |->
                          IF k + 1 \in s THEN op[<<g[s \ {k + 1}], seq[k + 1]>>] ELSE g[s]]
        OBVIOUS
    <2>4. ASSUME NEW s \in SUBSET (1 .. k + 1), k + 1 \in s
          PROVE  /\ Max(s) = k + 1 /\ s \ {k + 1} \in SUBSET (1 .. k)
                 /\ h[s] = op[<<g[s \ {k + 1}], seq[k + 1]>>]
                 /\ h[s \ {k + 1}] = g[s \ {k + 1}]
                 /\ h[s] \in S
        <3>1. s # {} /\ k + 1 \in Nat
            BY <2>2, <2>4
        <3>2. Max(s) \in s /\ \A y \in s : Max(s) >= y
            BY <3>1, Largest
        <3>3. PICK m : m = Max(s)
            OBVIOUS
        <3>4. m = k + 1
            <4>1. m \in 1 .. k + 1 /\ m >= k + 1
                BY <2>4, <3>2, <3>3
            <4>2. QED
                BY <2>2, <4>1
        <3>5. s \ {k + 1} \in SUBSET (1 .. k) /\ s \ {k + 1} \in SUBSET (1 .. k + 1)
            BY <2>2
        <3>6. h[s] = op[<<g[s \ {k + 1}], seq[k + 1]>>]
            BY <2>3, <2>4
        <3>7. h[s \ {k + 1}] = g[s \ {k + 1}]
            BY <2>3, <3>5
        <3>8. g[s \ {k + 1}] \in S /\ seq[k + 1] \in E
            BY <1>1, <2>1, <2>2, <3>5
        <3>9. h[s] \in S
            BY <3>6, <3>8
        <3>10. QED
            BY <3>3, <3>4, <3>5, <3>6, <3>7, <3>9
    <2>5. ASSUME NEW s \in SUBSET (1 .. k + 1), k + 1 \notin s
          PROVE  /\ s \in SUBSET (1 .. k) /\ h[s] = g[s] /\ h[s] \in S
                 /\ s # {} => h[s \ {Max(s)}] = g[s \ {Max(s)}]
        <3>1. s \in SUBSET (1 .. k)
            BY <2>2, <2>5
        <3>2. h[s] = g[s]
            BY <2>3, <2>5
        <3>3. s \ {Max(s)} \in SUBSET (1 .. k + 1) /\ k + 1 \notin s \ {Max(s)}
            BY <2>5
        <3>4. h[s \ {Max(s)}] = g[s \ {Max(s)}]
            BY <2>3, <3>3
        <3>5. QED
            BY <2>1, <3>1, <3>2, <3>4
    <2>6. h \in [SUBSET (1 .. k + 1) -> S]
        BY <2>3, <2>4, <2>5
    <2>7. Iterates(h, op, base, k + 1, seq)
        <3>1. SUFFICES ASSUME NEW s \in SUBSET (1 .. k + 1)
                       PROVE  h[s] = IF s = {} THEN base
                                     ELSE op[<<h[s \ {Max(s)}], seq[Max(s)]>>]
            BY DEF Iterates
        <3>2. CASE k + 1 \in s
            BY <2>4, <3>2
        <3>3. CASE k + 1 \notin s
            BY <2>1, <2>5, <3>3 DEF Iterates
        <3>4. QED
            BY <3>2, <3>3
    <2>8. QED
        BY <2>2, <2>6, <2>7
<1>4. n \in T
    <2> HIDE DEF T
    <2>1. \A k \in 0 .. n : k \in T
        BY <1>1, <1>2, <1>3, Induction
    <2>2. QED
        BY <1>1, <2>1
<1>5. QED
    BY <1>4 DEF n

\* Two functions on the subsets of 1 .. n that agree at {} and go on in the
\* same way agree altogether.
Agree(g, h, k) == \A s \in SUBSET (1 .. k) : g[s] = h[s]
AgreeFurther(g, h, n) ==
    \A s \in SUBSET (1 .. n) : s # {} /\ g[s \ {Max(s)}] = h[s \ {Max(s)}] => g[s] = h[s]

LEMMA IterateUnique ==
    ASSUME NEW n \in Nat, NEW g, NEW h, g[{}] = h[{}], AgreeFurther(g, h, n)
    PROVE  Agree(g, h, n)
<1> DEFINE T == {k \in 0 .. n : Agree(g, h, k)}
<1>1. 0 \in T
    <2>1. 1 .. 0 = {}
        OBVIOUS
    <2>2. \A s \in SUBSET (1 .. 0) : s = {}
        BY <2>1
    <2>3. Agree(g, h, 0)
        BY <2>2 DEF Agree
    <2>4. QED
        BY <2>3
<1>2. ASSUME NEW k \in 0 .. n - 1, k \in T
      PROVE  k + 1 \in T
    <2> k + 1 \in 0 .. n
        OBVIOUS
    <2>0. SUFFICES Agree(g, h, k + 1)
        OBVIOUS
    <2>1. SUFFICES ASSUME NEW s \in SUBSET (1 .. k + 1)
                   PROVE  g[s] = h[s]
        BY DEF Agree
    <2>2. CASE s = {}
        BY <2>2
    <2>3. CASE s # {}
        <3>1. k + 1 \in Nat
            OBVIOUS
        <3>2. Max(s) \in s /\ \A y \in s : Max(s) >= y
            BY <2>3, <3>1, Largest
        <3>3. PICK m : m = Max(s)
            OBVIOUS
        <3>4. m \in s /\ \A y \in s : m >= y
            BY <3>2, <3>3
        <3>5. s \ {m} \in SUBSET (1 .. k)
            <4>1. ASSUME NEW y \in s, y # m
                  PROVE  y \in 1 .. k
                <5>1. y \in 1 .. k + 1 /\ m \in 1 .. k + 1 /\ m >= y
                    BY <3>4
                <5>2. QED
                    BY <4>1, <5>1
            <4>2. QED
                BY <4>1
        <3>6. g[s \ {m}] = h[s \ {m}]
            BY <1>2, <3>5 DEF Agree
        <3>7. s \in SUBSET (1 .. n)
            <4>1. 1 .. k + 1 \subseteq 1 .. n
                OBVIOUS
            <4>2. QED
                BY <4>1
        <3>8. QED
            BY <2>3, <3>3, <3>6, <3>7 DEF AgreeFurther
    <2>4. QED
        BY <2>2, <2>3
<1>3. n \in T
    <2> HIDE DEF T
    <2>1. \A k \in 0 .. n : k \in T
        BY <1>1, <1>2, Induction
    <2>2. QED
        BY <2>1
<1>4. QED
    BY <1>3

\* v is the fold of op over seq, from base.
Folds(S, op, base, seq, v) ==
    \E g \in [SUBSET (1 .. Len(seq)) -> S] :
        Iterates(g, op, base, Len(seq), seq) /\ v = g[1 .. Len(seq)]

LEMMA FoldEmpty ==
    ASSUME NEW S, NEW op, NEW base, NEW v, Folds(S, op, base, <<>>, v)
    PROVE  v = base
<1>1. PICK g : Iterates(g, op, base, 0, <<>>) /\ v = g[1 .. 0]
    BY DEF Folds
<1>2. 1 .. 0 = {} /\ {} \in SUBSET (1 .. 0)
    OBVIOUS
<1>3. g[{}] = base
    BY <1>1, <1>2 DEF Iterates
<1>4. QED
    BY <1>1, <1>2, <1>3

LEMMA FoldTyped ==
    ASSUME NEW S, NEW op, NEW base, NEW seq, NEW v, Folds(S, op, base, seq, v)
    PROVE  v \in S
<1>1. PICK g \in [SUBSET (1 .. Len(seq)) -> S] : v = g[1 .. Len(seq)]
    BY DEF Folds
<1>2. 1 .. Len(seq) \in SUBSET (1 .. Len(seq))
    OBVIOUS
<1>3. QED
    BY <1>1, <1>2

LEMMA FoldAppend ==
    ASSUME NEW S, NEW E, NEW op \in [S \X E -> S], NEW base \in S, NEW seq \in Seq(E),
           NEW e \in E, NEW v, NEW w,
           Folds(S, op, base, seq, v), Folds(S, op, base, Append(seq, e), w)
    PROVE  w = op[<<v, e>>]
<1>1. PICK n \in Nat : n = Len(seq)
    OBVIOUS
<1>2. Len(Append(seq, e)) = n + 1 /\ Append(seq, e)[n + 1] = e
      /\ \A i \in 1 .. n : Append(seq, e)[i] = seq[i]
    BY <1>1
<1>3. PICK g : Iterates(g, op, base, n, seq) /\ v = g[1 .. n]
    BY <1>1 DEF Folds
<1>4. PICK h : Iterates(h, op, base, n + 1, Append(seq, e)) /\ w = h[1 .. n + 1]
    BY <1>2 DEF Folds
<1>5. g[{}] = h[{}]
    <2>1. {} \in SUBSET (1 .. n) /\ {} \in SUBSET (1 .. n + 1)
        OBVIOUS
    <2>2. QED
        BY <1>3, <1>4, <2>1 DEF Iterates
<1>6. AgreeFurther(g, h, n)
    <2>1. SUFFICES ASSUME NEW s \in SUBSET (1 .. n), s # {},
                          g[s \ {Max(s)}] = h[s \ {Max(s)}]
                   PROVE  g[s] = h[s]
        BY DEF AgreeFurther
    <2>2. s \in SUBSET (1 .. n + 1)
        OBVIOUS
    <2>3. Max(s) \in s
        BY <2>1, Largest
    <2>4. PICK m : m = Max(s)
        OBVIOUS
    <2>5. Append(seq, e)[m] = seq[m]
        BY <1>2, <2>3, <2>4
    <2>6. g[s] = op[<<g[s \ {m}], seq[m]>>]
        BY <1>3, <2>1, <2>4 DEF Iterates
    <2>7. h[s] = op[<<h[s \ {m}], Append(seq, e)[m]>>]
        BY <1>4, <2>1, <2>2, <2>4 DEF Iterates
    <2>8. QED
        BY <2>1, <2>4, <2>5, <2>6, <2>7
<1>7. h[1 .. n] = v
    <2>1. Agree(g, h, n)
        BY <1>5, <1>6, IterateUnique
    <2>2. 1 .. n \in SUBSET (1 .. n)
        OBVIOUS
    <2>3. QED
        BY <1>3, <2>1, <2>2 DEF Agree
<1>8. PICK s : s = 1 .. n + 1
    OBVIOUS
<1>9. s \in SUBSET (1 .. n + 1) /\ s # {} /\ n + 1 \in Nat
    <2>1. n + 1 \in s /\ n + 1 \in Nat
        BY <1>8
    <2>2. QED
        BY <1>8, <2>1
<1>10. Max(s) = n + 1
    <2>1. Max(s) \in s /\ \A y \in s : Max(s) >= y
        BY <1>9, Largest
    <2>2. PICK m : m = Max(s)
        OBVIOUS
    <2>3. m \in 1 .. n + 1 /\ m >= n + 1
        BY <1>8, <2>1, <2>2
    <2>4. QED
        BY <2>2, <2>3
<1>11. s \ {n + 1} = 1 .. n
    BY <1>8
<1>12. h[s] = op[<<h[s \ {n + 1}], Append(seq, e)[n + 1]>>]
    <2>1. h[s] = IF s = {} THEN base ELSE op[<<h[s \ {Max(s)}], Append(seq, e)[Max(s)]>>]
        BY <1>4, <1>9 DEF Iterates
    <2>2. QED
        BY <1>9, <1>10, <2>1
<1>13. QED
    BY <1>2, <1>4, <1>7, <1>8, <1>11, <1>12

\* What FoldLeft chooses: f is op on S and E, and h is a function that goes on as FoldLeft's does.
LEMMA FoldChosen ==
    ASSUME NEW S, NEW E, NEW op \in [S \X E -> S], NEW base \in S, NEW seq \in Seq(E), NEW h,
           h[{}] = base,
           \A s \in SUBSET (1 .. Len(seq)) : s # {} /\ h[s \ {Max(s)}] \in S =>
              h[s] = op[<<h[s \ {Max(s)}], seq[Max(s)]>>]
    PROVE  Folds(S, op, base, seq, h[1 .. Len(seq)])
<1>1. PICK n \in Nat : n = Len(seq)
    OBVIOUS
<1>2. PICK g \in [SUBSET (1 .. n) -> S] : Iterates(g, op, base, n, seq)
    BY <1>1, IterateExists
<1>3. g[{}] = h[{}]
    <2>1. {} \in SUBSET (1 .. n)
        OBVIOUS
    <2>2. QED
        BY <1>2, <2>1 DEF Iterates
<1>4. AgreeFurther(g, h, n)
    <2>1. SUFFICES ASSUME NEW s \in SUBSET (1 .. n), s # {},
                          g[s \ {Max(s)}] = h[s \ {Max(s)}]
                   PROVE  g[s] = h[s]
        BY DEF AgreeFurther
    <2>2. PICK r : r = s \ {Max(s)}
        OBVIOUS
    <2>3. r \in SUBSET (1 .. n)
        BY <2>2
    <2>4. g[r] \in S
        BY <1>2, <2>3
    <2>5. h[s] = op[<<h[r], seq[Max(s)]>>]
        BY <1>1, <2>1, <2>2, <2>4
    <2>6. g[s] = op[<<g[r], seq[Max(s)]>>]
        BY <1>2, <2>1, <2>2 DEF Iterates
    <2>7. QED
        BY <2>1, <2>2, <2>5, <2>6
<1>5. h[1 .. n] = g[1 .. n]
    <2>1. Agree(g, h, n)
        BY <1>3, <1>4, IterateUnique
    <2>2. 1 .. n \in SUBSET (1 .. n)
        OBVIOUS
    <2>3. QED
        BY <2>1, <2>2 DEF Agree
<1>6. QED
    BY <1>1, <1>2, <1>5 DEF Folds

-----------------------------------------------------------------------------
\* Types.
Messages == DOMAIN Body \cup {Damaged}
OutItem == [msg : Messages, choices : ChoiceLists]
Logs == [content : Words, thinking : Words, total : Nat, cached : Nat,
         err : Messages \cup {None}]
States == [chunkCount : Nat, metFirstChunk : BOOLEAN, isThinking : BOOLEAN,
           out : Seq(OutItem), log : Logs,
           end : {None, "400", "503"}]
SplitStates == [pieces : Seq(Seq(Tokens)), last : Seq(Tokens)]
UnifyStates == [text : Seq(Tokens), cr : BOOLEAN]
ConvertStates == [metFirstChunk : BOOLEAN, isThinking : BOOLEAN, choices : ChoiceLists]

LEMMA SplitTokenType ==
    ASSUME NEW s \in SplitStates, NEW token \in Tokens
    PROVE  SplitToken(s, token) \in SplitStates
  BY DEF SplitToken, SplitStates, Front, Last

LEMMA UnifyTokenType ==
    ASSUME NEW u \in UnifyStates, NEW token \in Tokens
    PROVE  UnifyToken(u, token) \in UnifyStates
  BY DEF UnifyToken, UnifyStates, Tokens

\* The first end tag in a text.
LEMMA EndTagFacts ==
    ASSUME NEW text \in Words
    PROVE  /\ EndTag(text) \in 0 .. Len(text)
           /\ EndTag(text) = 0 => \A i \in 1 .. Len(text) : text[i] # "</think>"
           /\ EndTag(text) # 0 => /\ text[EndTag(text)] = "</think>"
                                  /\ \A i \in 1 .. EndTag(text) - 1 : text[i] # "</think>"
<1> DEFINE I == {i \in 1 .. Len(text) : text[i] = "</think>"}
<1>1. EndTag(text) = IF I # {} THEN Min(I) ELSE 0
    BY DEF EndTag, SelectInSeq
<1>2. PICK n \in Nat : n = Len(text)
    BY DEF Words
<1>3. CASE I = {}
    BY <1>1, <1>2, <1>3
<1>4. CASE I # {}
    <2>1. I \in SUBSET (1 .. n)
        BY <1>2
    <2>2. PICK m \in I : \A y \in I : m <= y
        BY <1>4, <2>1, Least
    <2>3. Min(I) \in I /\ \A y \in I : Min(I) <= y
        BY <2>2 DEF Min
    <2>4. PICK x : x = Min(I)
        OBVIOUS
    <2>5. x \in 1 .. n /\ text[x] = "</think>" /\ \A y \in I : x <= y
        BY <1>2, <2>3, <2>4
    <2>6. EndTag(text) = x /\ x # 0
        BY <1>1, <1>4, <2>4, <2>5
    <2>7. \A i \in 1 .. x - 1 : text[i] # "</think>"
        BY <1>2, <2>5
    <2>8. QED
        BY <1>2, <2>5, <2>6, <2>7
<1>5. QED
    BY <1>3, <1>4

\* What extractReasoningContentFromChunk returns.
LEMMA ChunkType ==
    ASSUME NEW s, s.metFirstChunk \in BOOLEAN, s.isThinking \in BOOLEAN, NEW chunk \in Words
    PROVE  LET e == extractReasoningContentFromChunk(s, chunk)
           IN  /\ e.metFirstChunk \in BOOLEAN /\ e.isThinking \in BOOLEAN
               /\ e.content \in Words /\ e.reasoning \in Words
<1> DEFINE starts   == ~s.metFirstChunk /\ chunk # <<>> /\ chunk[1] = "<think>"
           thinking == starts \/ s.isThinking
           text     == IF starts THEN Tail(chunk) ELSE chunk
           end      == EndTag(text)
<1>1. text \in Words
    <2>1. chunk # <<>> => Tail(chunk) \in Words
        BY HeadTailProperties DEF Words
    <2>2. QED
        BY <2>1
<1>2. end \in 0 .. Len(text)
    BY <1>1, EndTagFacts
<1>3. After(text, end) \in Words /\ SubSeq(text, 1, end - 1) \in Words /\ <<>> \in Words
    <2> HIDE DEF text, end
    <2>1. QED
        BY <1>1, <1>2 DEF Words, After
<1>4. extractReasoningContentFromChunk(s, chunk) =
        [ metFirstChunk |-> MetFirstChunk(s, chunk),
          isThinking    |-> thinking /\ end = 0,
          content       |-> IF ~thinking THEN text
                            ELSE IF end = 0 THEN <<>> ELSE After(text, end),
          reasoning     |-> IF ~thinking THEN <<>>
                            ELSE IF end = 0 THEN text ELSE SubSeq(text, 1, end - 1) ]
    BY DEF extractReasoningContentFromChunk
<1>5. MetFirstChunk(s, chunk) \in BOOLEAN /\ (thinking /\ end = 0) \in BOOLEAN
    BY DEF MetFirstChunk
<1> HIDE DEF thinking, text, end
<1>6. QED
    BY <1>1, <1>3, <1>4, <1>5

LEMMA ConvertChoiceType ==
    ASSUME NEW s \in ConvertStates, NEW choice \in Choice
    PROVE  ConvertChoice(s, choice) \in ConvertStates
<1>1. CASE choice.reasoning # <<>>
    <2>0. s.choices \in Seq(Choice)
        BY DEF ConvertStates, ChoiceLists
    <2>1. PICK c \in ChoiceLists : c = Append(s.choices, choice)
        BY <2>0, AppendProperties DEF ChoiceLists
    <2>2. ConvertChoice(s, choice) = [s EXCEPT !.choices = c]
        BY <1>1, <2>1 DEF ConvertChoice
    <2>3. QED
        BY <2>2 DEF ConvertStates
<1>2. CASE choice.reasoning = <<>>
    <2>1. PICK e : e = extractReasoningContentFromChunk(s, choice.content)
        OBVIOUS
    <2>2. s.metFirstChunk \in BOOLEAN /\ s.isThinking \in BOOLEAN
        BY DEF ConvertStates
    <2>3. choice.content \in Words
        BY DEF Choice
    <2>4. /\ e.metFirstChunk \in BOOLEAN /\ e.isThinking \in BOOLEAN
          /\ e.content \in Words /\ e.reasoning \in Words
        BY <2>1, <2>2, <2>3, ChunkType
    <2>5. ConvertChoice(s, choice) =
            [ metFirstChunk |-> e.metFirstChunk, isThinking |-> e.isThinking,
              choices |-> Append(s.choices, [content |-> e.content, reasoning |-> e.reasoning]) ]
        BY <1>2, <2>1 DEF ConvertChoice
    <2>6. Append(s.choices, [content |-> e.content, reasoning |-> e.reasoning]) \in ChoiceLists
        BY <2>4 DEF ConvertStates, ChoiceLists, Choice
    <2>7. QED
        BY <2>4, <2>5, <2>6 DEF ConvertStates
<1>3. QED
    BY <1>1, <1>2

-----------------------------------------------------------------------------
\* The folds of the model.

\* Each fold follows one rule: nothing changes the base, and one more
\* element is one more step.

SplitOp == [p \in SplitStates \X Tokens |-> SplitToken(p[1], p[2])]

LEMMA SplitFolds ==
    ASSUME NEW base \in SplitStates, NEW seq \in Seq(Tokens)
    PROVE  Folds(SplitStates, SplitOp, base, seq, FoldLeft(SplitToken, base, seq))
<1> DEFINE F(h) == [s \in SUBSET DOMAIN seq |->
                      IF s = {} THEN base ELSE SplitToken(h[s \ {Max(s)}], seq[Max(s)])]
<1>1. PICK n \in Nat : n = Len(seq) /\ DOMAIN seq = 1 .. n /\ \A i \in 1 .. n : seq[i] \in Tokens
    OBVIOUS
<1>2. SplitOp \in [SplitStates \X Tokens -> SplitStates]
    BY SplitTokenType DEF SplitOp
<1>3. PICK g \in [SUBSET (1 .. n) -> SplitStates] : Iterates(g, SplitOp, base, n, seq)
    BY <1>1, <1>2, IterateExists
<1>4. ASSUME NEW s \in SUBSET (1 .. n), s # {}, NEW x \in SplitStates
      PROVE  SplitToken(x, seq[Max(s)]) = SplitOp[<<x, seq[Max(s)]>>]
    <2>1. PICK e : e = seq[Max(s)]
        OBVIOUS
    <2>2. e \in Tokens
        BY <1>1, <1>4, <2>1, Largest
    <2>3. QED
        BY <2>1, <2>2 DEF SplitOp
<1>5. PICK h : h = CHOOSE f : f = F(f)
    OBVIOUS
<1>6. h = F(h)
    <2>1. ASSUME NEW s \in SUBSET (1 .. n)
          PROVE  g[s] = IF s = {} THEN base ELSE SplitToken(g[s \ {Max(s)}], seq[Max(s)])
        <3>1. g[s] = IF s = {} THEN base ELSE SplitOp[<<g[s \ {Max(s)}], seq[Max(s)]>>]
            BY <1>3 DEF Iterates
        <3>2. PICK r : r = s \ {Max(s)}
            OBVIOUS
        <3>3. g[r] \in SplitStates
            BY <1>3, <3>2
        <3>4. QED
            BY <1>4, <3>1, <3>2, <3>3
    <2>2. g = F(g)
        BY <1>1, <1>3, <2>1
    <2>3. QED
        BY <1>5, <2>2
<1>7. FoldLeft(SplitToken, base, seq) = h[1 .. n]
    BY <1>1, <1>5 DEF FoldLeft, MapThenFoldSet
<1>8. h[{}] = base
    BY <1>6
<1>9. ASSUME NEW s \in SUBSET (1 .. n), s # {}, h[s \ {Max(s)}] \in SplitStates
      PROVE  h[s] = SplitOp[<<h[s \ {Max(s)}], seq[Max(s)]>>]
    <2>1. h[s] = SplitToken(h[s \ {Max(s)}], seq[Max(s)])
        BY <1>1, <1>6, <1>9
    <2>2. QED
        BY <1>4, <1>9, <2>1
<1> HIDE DEF F
<1>10. Folds(SplitStates, SplitOp, base, seq, h[1 .. Len(seq)])
    BY <1>1, <1>2, <1>8, <1>9, FoldChosen
<1>11. QED
    BY <1>1, <1>7, <1>10

LEMMA SplitRules ==
    ASSUME NEW base \in SplitStates, NEW seq \in Seq(Tokens)
    PROVE  /\ FoldLeft(SplitToken, base, <<>>) = base
           /\ FoldLeft(SplitToken, base, seq) \in SplitStates
           /\ \A e \in Tokens :
                FoldLeft(SplitToken, base, Append(seq, e)) = SplitToken(FoldLeft(SplitToken, base, seq), e)
<1>1. SplitOp \in [SplitStates \X Tokens -> SplitStates]
    BY SplitTokenType DEF SplitOp
<1>2. PICK v : v = FoldLeft(SplitToken, base, seq)
    OBVIOUS
<1>3. Folds(SplitStates, SplitOp, base, seq, v)
    BY <1>2, SplitFolds
<1>4. FoldLeft(SplitToken, base, <<>>) = base
    <2>1. <<>> \in Seq(Tokens)
        OBVIOUS
    <2>2. PICK w : w = FoldLeft(SplitToken, base, <<>>)
        OBVIOUS
    <2>3. Folds(SplitStates, SplitOp, base, <<>>, w)
        BY <2>1, <2>2, SplitFolds
    <2>4. QED
        BY <2>2, <2>3, FoldEmpty
<1>5. v \in SplitStates
    BY <1>3, FoldTyped
<1>6. ASSUME NEW e \in Tokens
      PROVE  FoldLeft(SplitToken, base, Append(seq, e)) = SplitToken(v, e)
    <2>1. Append(seq, e) \in Seq(Tokens)
        OBVIOUS
    <2>2. PICK w : w = FoldLeft(SplitToken, base, Append(seq, e))
        OBVIOUS
    <2>3. Folds(SplitStates, SplitOp, base, Append(seq, e), w)
        BY <2>1, <2>2, SplitFolds
    <2>4. w = SplitOp[<<v, e>>]
        BY <1>1, <1>3, <2>3, FoldAppend, ZenonT(60)
    <2>5. QED
        BY <1>5, <2>2, <2>4 DEF SplitOp
<1>7. QED
    BY <1>2, <1>4, <1>5, <1>6

UnifyOp == [p \in UnifyStates \X Tokens |-> UnifyToken(p[1], p[2])]

LEMMA UnifyFolds ==
    ASSUME NEW base \in UnifyStates, NEW seq \in Seq(Tokens)
    PROVE  Folds(UnifyStates, UnifyOp, base, seq, FoldLeft(UnifyToken, base, seq))
<1> DEFINE F(h) == [s \in SUBSET DOMAIN seq |->
                      IF s = {} THEN base ELSE UnifyToken(h[s \ {Max(s)}], seq[Max(s)])]
<1>1. PICK n \in Nat : n = Len(seq) /\ DOMAIN seq = 1 .. n /\ \A i \in 1 .. n : seq[i] \in Tokens
    OBVIOUS
<1>2. UnifyOp \in [UnifyStates \X Tokens -> UnifyStates]
    BY UnifyTokenType DEF UnifyOp
<1>3. PICK g \in [SUBSET (1 .. n) -> UnifyStates] : Iterates(g, UnifyOp, base, n, seq)
    BY <1>1, <1>2, IterateExists
<1>4. ASSUME NEW s \in SUBSET (1 .. n), s # {}, NEW x \in UnifyStates
      PROVE  UnifyToken(x, seq[Max(s)]) = UnifyOp[<<x, seq[Max(s)]>>]
    <2>1. PICK e : e = seq[Max(s)]
        OBVIOUS
    <2>2. e \in Tokens
        BY <1>1, <1>4, <2>1, Largest
    <2>3. QED
        BY <2>1, <2>2 DEF UnifyOp
<1>5. PICK h : h = CHOOSE f : f = F(f)
    OBVIOUS
<1>6. h = F(h)
    <2>1. ASSUME NEW s \in SUBSET (1 .. n)
          PROVE  g[s] = IF s = {} THEN base ELSE UnifyToken(g[s \ {Max(s)}], seq[Max(s)])
        <3>1. g[s] = IF s = {} THEN base ELSE UnifyOp[<<g[s \ {Max(s)}], seq[Max(s)]>>]
            BY <1>3 DEF Iterates
        <3>2. PICK r : r = s \ {Max(s)}
            OBVIOUS
        <3>3. g[r] \in UnifyStates
            BY <1>3, <3>2
        <3>4. QED
            BY <1>4, <3>1, <3>2, <3>3
    <2>2. g = F(g)
        BY <1>1, <1>3, <2>1
    <2>3. QED
        BY <1>5, <2>2
<1>7. FoldLeft(UnifyToken, base, seq) = h[1 .. n]
    BY <1>1, <1>5 DEF FoldLeft, MapThenFoldSet
<1>8. h[{}] = base
    BY <1>6
<1>9. ASSUME NEW s \in SUBSET (1 .. n), s # {}, h[s \ {Max(s)}] \in UnifyStates
      PROVE  h[s] = UnifyOp[<<h[s \ {Max(s)}], seq[Max(s)]>>]
    <2>1. h[s] = UnifyToken(h[s \ {Max(s)}], seq[Max(s)])
        BY <1>1, <1>6, <1>9
    <2>2. QED
        BY <1>4, <1>9, <2>1
<1> HIDE DEF F
<1>10. Folds(UnifyStates, UnifyOp, base, seq, h[1 .. Len(seq)])
    BY <1>1, <1>2, <1>8, <1>9, FoldChosen
<1>11. QED
    BY <1>1, <1>7, <1>10

LEMMA UnifyRules ==
    ASSUME NEW base \in UnifyStates, NEW seq \in Seq(Tokens)
    PROVE  /\ FoldLeft(UnifyToken, base, <<>>) = base
           /\ FoldLeft(UnifyToken, base, seq) \in UnifyStates
           /\ \A e \in Tokens :
                FoldLeft(UnifyToken, base, Append(seq, e)) = UnifyToken(FoldLeft(UnifyToken, base, seq), e)
<1>1. UnifyOp \in [UnifyStates \X Tokens -> UnifyStates]
    BY UnifyTokenType DEF UnifyOp
<1>2. PICK v : v = FoldLeft(UnifyToken, base, seq)
    OBVIOUS
<1>3. Folds(UnifyStates, UnifyOp, base, seq, v)
    BY <1>2, UnifyFolds
<1>4. FoldLeft(UnifyToken, base, <<>>) = base
    <2>1. <<>> \in Seq(Tokens)
        OBVIOUS
    <2>2. PICK w : w = FoldLeft(UnifyToken, base, <<>>)
        OBVIOUS
    <2>3. Folds(UnifyStates, UnifyOp, base, <<>>, w)
        BY <2>1, <2>2, UnifyFolds
    <2>4. QED
        BY <2>2, <2>3, FoldEmpty
<1>5. v \in UnifyStates
    BY <1>3, FoldTyped
<1>6. ASSUME NEW e \in Tokens
      PROVE  FoldLeft(UnifyToken, base, Append(seq, e)) = UnifyToken(v, e)
    <2>1. Append(seq, e) \in Seq(Tokens)
        OBVIOUS
    <2>2. PICK w : w = FoldLeft(UnifyToken, base, Append(seq, e))
        OBVIOUS
    <2>3. Folds(UnifyStates, UnifyOp, base, Append(seq, e), w)
        BY <2>1, <2>2, UnifyFolds
    <2>4. w = UnifyOp[<<v, e>>]
        BY <1>1, <1>3, <2>3, FoldAppend, ZenonT(60)
    <2>5. QED
        BY <1>5, <2>2, <2>4 DEF UnifyOp
<1>7. QED
    BY <1>2, <1>4, <1>5, <1>6

ConvertOp == [p \in ConvertStates \X Choice |-> ConvertChoice(p[1], p[2])]

LEMMA ConvertFolds ==
    ASSUME NEW base \in ConvertStates, NEW seq \in Seq(Choice)
    PROVE  Folds(ConvertStates, ConvertOp, base, seq, FoldLeft(ConvertChoice, base, seq))
<1> DEFINE F(h) == [s \in SUBSET DOMAIN seq |->
                      IF s = {} THEN base ELSE ConvertChoice(h[s \ {Max(s)}], seq[Max(s)])]
<1>1. PICK n \in Nat : n = Len(seq) /\ DOMAIN seq = 1 .. n /\ \A i \in 1 .. n : seq[i] \in Choice
    OBVIOUS
<1>2. ConvertOp \in [ConvertStates \X Choice -> ConvertStates]
    BY ConvertChoiceType DEF ConvertOp
<1>3. PICK g \in [SUBSET (1 .. n) -> ConvertStates] : Iterates(g, ConvertOp, base, n, seq)
    BY <1>1, <1>2, IterateExists
<1>4. ASSUME NEW s \in SUBSET (1 .. n), s # {}, NEW x \in ConvertStates
      PROVE  ConvertChoice(x, seq[Max(s)]) = ConvertOp[<<x, seq[Max(s)]>>]
    <2>1. PICK e : e = seq[Max(s)]
        OBVIOUS
    <2>2. e \in Choice
        BY <1>1, <1>4, <2>1, Largest
    <2>3. QED
        BY <2>1, <2>2 DEF ConvertOp
<1>5. PICK h : h = CHOOSE f : f = F(f)
    OBVIOUS
<1>6. h = F(h)
    <2>1. ASSUME NEW s \in SUBSET (1 .. n)
          PROVE  g[s] = IF s = {} THEN base ELSE ConvertChoice(g[s \ {Max(s)}], seq[Max(s)])
        <3>1. g[s] = IF s = {} THEN base ELSE ConvertOp[<<g[s \ {Max(s)}], seq[Max(s)]>>]
            BY <1>3 DEF Iterates
        <3>2. PICK r : r = s \ {Max(s)}
            OBVIOUS
        <3>3. g[r] \in ConvertStates
            BY <1>3, <3>2
        <3>4. QED
            BY <1>4, <3>1, <3>2, <3>3
    <2>2. g = F(g)
        BY <1>1, <1>3, <2>1
    <2>3. QED
        BY <1>5, <2>2
<1>7. FoldLeft(ConvertChoice, base, seq) = h[1 .. n]
    BY <1>1, <1>5 DEF FoldLeft, MapThenFoldSet
<1>8. h[{}] = base
    BY <1>6
<1>9. ASSUME NEW s \in SUBSET (1 .. n), s # {}, h[s \ {Max(s)}] \in ConvertStates
      PROVE  h[s] = ConvertOp[<<h[s \ {Max(s)}], seq[Max(s)]>>]
    <2>1. h[s] = ConvertChoice(h[s \ {Max(s)}], seq[Max(s)])
        BY <1>1, <1>6, <1>9
    <2>2. QED
        BY <1>4, <1>9, <2>1
<1> HIDE DEF F
<1>10. Folds(ConvertStates, ConvertOp, base, seq, h[1 .. Len(seq)])
    BY <1>1, <1>2, <1>8, <1>9, FoldChosen
<1>11. QED
    BY <1>1, <1>7, <1>10

LEMMA ConvertRules ==
    ASSUME NEW base \in ConvertStates, NEW seq \in Seq(Choice)
    PROVE  /\ FoldLeft(ConvertChoice, base, <<>>) = base
           /\ FoldLeft(ConvertChoice, base, seq) \in ConvertStates
           /\ \A e \in Choice :
                FoldLeft(ConvertChoice, base, Append(seq, e)) = ConvertChoice(FoldLeft(ConvertChoice, base, seq), e)
<1>1. ConvertOp \in [ConvertStates \X Choice -> ConvertStates]
    BY ConvertChoiceType DEF ConvertOp
<1>2. PICK v : v = FoldLeft(ConvertChoice, base, seq)
    OBVIOUS
<1>3. Folds(ConvertStates, ConvertOp, base, seq, v)
    BY <1>2, ConvertFolds
<1>4. FoldLeft(ConvertChoice, base, <<>>) = base
    <2>1. <<>> \in Seq(Choice)
        OBVIOUS
    <2>2. PICK w : w = FoldLeft(ConvertChoice, base, <<>>)
        OBVIOUS
    <2>3. Folds(ConvertStates, ConvertOp, base, <<>>, w)
        BY <2>1, <2>2, ConvertFolds
    <2>4. QED
        BY <2>2, <2>3, FoldEmpty
<1>5. v \in ConvertStates
    BY <1>3, FoldTyped
<1>6. ASSUME NEW e \in Choice
      PROVE  FoldLeft(ConvertChoice, base, Append(seq, e)) = ConvertChoice(v, e)
    <2>1. Append(seq, e) \in Seq(Choice)
        OBVIOUS
    <2>2. PICK w : w = FoldLeft(ConvertChoice, base, Append(seq, e))
        OBVIOUS
    <2>3. Folds(ConvertStates, ConvertOp, base, Append(seq, e), w)
        BY <2>1, <2>2, ConvertFolds
    <2>4. w = ConvertOp[<<v, e>>]
        BY <1>1, <1>3, <2>3, FoldAppend
    <2>5. QED
        BY <1>5, <2>2, <2>4 DEF ConvertOp
<1>7. QED
    BY <1>2, <1>4, <1>5, <1>6

\* S is a set of states that handling the messages E does not leave.
Closed(S, E) == \A s \in S, e \in E : HandleMessage(s, e) \in S
HandleOp(S, E) == [p \in S \X E |-> HandleMessage(p[1], p[2])]

LEMMA HandleFolds ==
    ASSUME NEW S, NEW E, Closed(S, E), NEW base \in S, NEW seq \in Seq(E)
    PROVE  Folds(S, HandleOp(S, E), base, seq, FoldLeft(HandleMessage, base, seq))
<1> DEFINE F(h) == [s \in SUBSET DOMAIN seq |->
                      IF s = {} THEN base ELSE HandleMessage(h[s \ {Max(s)}], seq[Max(s)])]
<1>1. PICK n \in Nat : n = Len(seq) /\ DOMAIN seq = 1 .. n /\ \A i \in 1 .. n : seq[i] \in E
    OBVIOUS
<1>2. HandleOp(S, E) \in [S \X E -> S]
    BY DEF HandleOp, Closed
<1>3. PICK g \in [SUBSET (1 .. n) -> S] : Iterates(g, HandleOp(S, E), base, n, seq)
    BY <1>1, <1>2, IterateExists
<1>4. ASSUME NEW s \in SUBSET (1 .. n), s # {}, NEW x \in S
      PROVE  HandleMessage(x, seq[Max(s)]) = HandleOp(S, E)[<<x, seq[Max(s)]>>]
    <2>1. PICK e : e = seq[Max(s)]
        OBVIOUS
    <2>2. e \in E
        BY <1>1, <1>4, <2>1, Largest
    <2>3. QED
        BY <2>1, <2>2 DEF HandleOp
<1>5. PICK h : h = CHOOSE f : f = F(f)
    OBVIOUS
<1>6. h = F(h)
    <2>1. ASSUME NEW s \in SUBSET (1 .. n)
          PROVE  g[s] = IF s = {} THEN base ELSE HandleMessage(g[s \ {Max(s)}], seq[Max(s)])
        <3>1. g[s] = IF s = {} THEN base ELSE HandleOp(S, E)[<<g[s \ {Max(s)}], seq[Max(s)]>>]
            BY <1>3 DEF Iterates
        <3>2. PICK r : r = s \ {Max(s)}
            OBVIOUS
        <3>3. g[r] \in S
            BY <1>3, <3>2
        <3>4. QED
            BY <1>4, <3>1, <3>2, <3>3
    <2>2. g = F(g)
        BY <1>1, <1>3, <2>1
    <2>3. QED
        BY <1>5, <2>2
<1>7. FoldLeft(HandleMessage, base, seq) = h[1 .. n]
    BY <1>1, <1>5 DEF FoldLeft, MapThenFoldSet
<1>8. h[{}] = base
    BY <1>6
<1>9. ASSUME NEW s \in SUBSET (1 .. n), s # {}, h[s \ {Max(s)}] \in S
      PROVE  h[s] = HandleOp(S, E)[<<h[s \ {Max(s)}], seq[Max(s)]>>]
    <2>1. h[s] = HandleMessage(h[s \ {Max(s)}], seq[Max(s)])
        BY <1>1, <1>6, <1>9
    <2>2. QED
        BY <1>4, <1>9, <2>1
<1> HIDE DEF F
<1>10. Folds(S, HandleOp(S, E), base, seq, h[1 .. Len(seq)])
    BY <1>1, <1>2, <1>8, <1>9, FoldChosen
<1>11. QED
    BY <1>1, <1>7, <1>10

\* The state after the messages of seq.
Run(base, seq) == FoldLeft(HandleMessage, base, seq)

LEMMA RunTyped ==
    ASSUME NEW S, NEW E, Closed(S, E), NEW base \in S, NEW seq \in Seq(E)
    PROVE  Run(base, <<>>) = base /\ Run(base, seq) \in S
<1>1. <<>> \in Seq(E)
    OBVIOUS
<1>2. HandleOp(S, E) \in [S \X E -> S]
    BY DEF HandleOp, Closed
<1>3. PICK v : v = FoldLeft(HandleMessage, base, seq)
    OBVIOUS
<1>4. Folds(S, HandleOp(S, E), base, seq, v)
    BY <1>3, HandleFolds
<1>5. PICK w : w = FoldLeft(HandleMessage, base, <<>>)
    OBVIOUS
<1>6. Folds(S, HandleOp(S, E), base, <<>>, w)
    BY <1>1, <1>5, HandleFolds
<1>7. v \in S
    BY <1>2, <1>4, FoldTyped
<1>8. w = base
    BY <1>2, <1>6, FoldEmpty
<1>9. QED
    BY <1>3, <1>5, <1>7, <1>8 DEF Run

LEMMA RunNext ==
    ASSUME NEW S, NEW E, Closed(S, E), NEW base \in S, NEW seq \in Seq(E), NEW e \in E
    PROVE  Run(base, Append(seq, e)) = HandleMessage(Run(base, seq), e)
<1>1. HandleOp(S, E) \in [S \X E -> S]
    BY DEF HandleOp, Closed
<1>2. PICK v : v = FoldLeft(HandleMessage, base, seq)
    OBVIOUS
<1>3. Folds(S, HandleOp(S, E), base, seq, v)
    BY <1>2, HandleFolds
<1>4. Append(seq, e) \in Seq(E)
    OBVIOUS
<1>5. PICK w : w = FoldLeft(HandleMessage, base, Append(seq, e))
    OBVIOUS
<1>6. Folds(S, HandleOp(S, E), base, Append(seq, e), w)
    BY <1>4, <1>5, HandleFolds
<1>7. w = HandleOp(S, E)[<<v, e>>]
    BY <1>1, <1>3, <1>6, FoldAppend, ZenonT(60)
<1>8. v \in S
    BY <1>1, <1>3, FoldTyped
<1>9. w = HandleMessage(v, e)
    BY <1>7, <1>8 DEF HandleOp
<1>10. QED
    BY <1>2, <1>5, <1>9 DEF Run

-----------------------------------------------------------------------------
\* Concatenations.

Flattens(f, k, seqs) ==
    \A i \in 1 .. k : f[i] = IF i = 1 THEN seqs[i] ELSE f[i - 1] \o seqs[i]
FlattensTo(S, k, seqs) == \E f \in [1 .. k -> Seq(S)] : Flattens(f, k, seqs)

LEMMA FlattenExists ==
    ASSUME NEW S, NEW seqs \in Seq(Seq(S))
    PROVE  FlattensTo(S, Len(seqs), seqs)
<1>1. PICK n \in Nat : n = Len(seqs) /\ \A i \in 1 .. n : seqs[i] \in Seq(S)
    OBVIOUS
<1> DEFINE T == {k \in 0 .. n : FlattensTo(S, k, seqs)}
<1>2. 0 \in T
    <2>1. PICK f : f = [i \in 1 .. 0 |-> <<>>]
        OBVIOUS
    <2>2. f \in [1 .. 0 -> Seq(S)] /\ Flattens(f, 0, seqs)
        BY <2>1 DEF Flattens
    <2>3. FlattensTo(S, 0, seqs)
        BY <2>2 DEF FlattensTo
    <2>4. QED
        BY <2>3
<1>3. ASSUME NEW k \in 0 .. n - 1, k \in T
      PROVE  k + 1 \in T
    <2>1. PICK f \in [1 .. k -> Seq(S)] : Flattens(f, k, seqs)
        BY <1>3 DEF FlattensTo
    <2>2. k \in Nat /\ k + 1 \in 1 .. n /\ k + 1 \in 0 .. n /\ seqs[k + 1] \in Seq(S)
        BY <1>1
    <2>3. PICK last \in Seq(S) : last = IF k = 0 THEN seqs[k + 1] ELSE f[k] \o seqs[k + 1]
        <3>1. CASE k = 0
            BY <2>2, <3>1
        <3>2. CASE k # 0
            <4>1. f[k] \in Seq(S)
                BY <2>1, <2>2, <3>2
            <4>2. QED
                BY <2>2, <3>2, <4>1, ConcatProperties
        <3>3. QED
            BY <3>1, <3>2
    <2>4. PICK h : h = [i \in 1 .. k + 1 |-> IF i = k + 1 THEN last ELSE f[i]]
        OBVIOUS
    <2>5. h \in [1 .. k + 1 -> Seq(S)]
        BY <2>1, <2>2, <2>4
    <2>6. ASSUME NEW i \in 1 .. k + 1
          PROVE  h[i] = IF i = 1 THEN seqs[i] ELSE h[i - 1] \o seqs[i]
        <3>1. CASE i = k + 1
            <4>1. h[i] = last
                BY <2>4, <3>1
            <4>2. k # 0 => h[i - 1] = f[k] /\ i # 1
                BY <2>2, <2>4, <3>1
            <4>3. k = 0 => i = 1
                BY <3>1
            <4>4. QED
                BY <2>3, <3>1, <4>1, <4>2, <4>3
        <3>2. CASE i # k + 1
            <4>1. i \in 1 .. k /\ h[i] = f[i]
                BY <2>2, <2>4, <3>2
            <4>2. i # 1 => h[i - 1] = f[i - 1]
                BY <2>2, <2>4, <3>2
            <4>3. QED
                BY <2>1, <4>1, <4>2 DEF Flattens
        <3>3. QED
            BY <3>1, <3>2
    <2>7. FlattensTo(S, k + 1, seqs)
        BY <2>5, <2>6 DEF Flattens, FlattensTo
    <2>8. QED
        BY <2>2, <2>7
<1>4. n \in T
    <2> HIDE DEF T
    <2>1. \A k \in 0 .. n : k \in T
        BY <1>2, <1>3, Induction
    <2>2. QED
        BY <2>1
<1>5. QED
    BY <1>1, <1>4

\* FlattenSeq is the last of these.
LEMMA FlattenFunction ==
    ASSUME NEW S, NEW seqs \in Seq(Seq(S)), Len(seqs) # 0
    PROVE  \E f : /\ f = [i \in 1 .. Len(seqs) |-> f[i]] /\ Flattens(f, Len(seqs), seqs)
                  /\ FlattenSeq(seqs) = f[Len(seqs)]
<1>1. PICK n \in Nat : n = Len(seqs)
    OBVIOUS
<1> DEFINE F(h) == [i \in 1 .. n |-> IF i = 1 THEN seqs[i] ELSE h[i - 1] \o seqs[i]]
<1>2. PICK h : h = CHOOSE f : f = F(f)
    OBVIOUS
<1>3. h = F(h)
    <2>1. PICK g \in [1 .. n -> Seq(S)] : Flattens(g, n, seqs)
        BY <1>1, FlattenExists DEF FlattensTo
    <2>2. g = F(g)
        BY <2>1 DEF Flattens
    <2>3. QED
        BY <1>2, <2>2
<1>4. FlattenSeq(seqs) = h[n]
    BY <1>1, <1>2 DEF FlattenSeq
<1>5. Flattens(h, n, seqs)
    BY <1>3 DEF Flattens
<1>6. h = [i \in 1 .. n |-> h[i]]
    BY <1>3
<1>7. QED
    BY <1>1, <1>4, <1>5, <1>6

SameUpTo(f, g, k) == \A i \in 1 .. k : f[i] = g[i]
AllIn(f, k, S) == \A i \in 1 .. k : f[i] \in S

LEMMA FlattenTyped ==
    ASSUME NEW S, NEW seqs \in Seq(Seq(S))
    PROVE  FlattenSeq(seqs) \in Seq(S)
<1>1. PICK n \in Nat : n = Len(seqs) /\ \A i \in 1 .. n : seqs[i] \in Seq(S)
    OBVIOUS
<1>2. CASE n = 0
    <2>1. seqs = <<>>
        BY <1>1, <1>2, EmptySeq
    <2>2. FlattenSeq(seqs) = <<>>
        BY <1>1, <1>2, <2>1 DEF FlattenSeq
    <2>3. QED
        BY <2>2
<1>3. CASE n # 0
    <2>1. PICK f : Flattens(f, n, seqs) /\ FlattenSeq(seqs) = f[n]
        BY <1>1, <1>3, FlattenFunction
    <2> DEFINE T == {k \in 0 .. n : AllIn(f, k, Seq(S))}
    <2>2. 0 \in T
        BY DEF AllIn
    <2>3. ASSUME NEW k \in 0 .. n - 1, k \in T
          PROVE  k + 1 \in T
        <3>1. k + 1 \in 0 .. n /\ k + 1 \in 1 .. n /\ seqs[k + 1] \in Seq(S)
            BY <1>1
        <3>2. AllIn(f, k, Seq(S))
            BY <2>3
        <3>3. f[k + 1] \in Seq(S)
            <4>1. CASE k = 0
                BY <2>1, <3>1, <4>1 DEF Flattens
            <4>2. CASE k # 0
                <5>0. k + 1 # 1 /\ (k + 1) - 1 = k
                    BY <4>2
                <5>1. f[k + 1] = f[k] \o seqs[k + 1]
                    BY <2>1, <3>1, <5>0 DEF Flattens
                <5>2. f[k] \in Seq(S)
                    BY <3>2, <4>2 DEF AllIn
                <5>3. QED
                    BY <3>1, <5>1, <5>2, ConcatProperties
            <4>3. QED
                BY <4>1, <4>2
        <3>4. \A i \in 1 .. k + 1 : i = k + 1 \/ i \in 1 .. k
            OBVIOUS
        <3>5. AllIn(f, k + 1, Seq(S))
            BY <3>2, <3>3, <3>4 DEF AllIn
        <3>6. QED
            BY <3>1, <3>5
    <2>4. n \in T
        <3> HIDE DEF T
        <3>1. \A k \in 0 .. n : k \in T
            BY <2>2, <2>3, Induction
        <3>2. QED
            BY <3>1
    <2>5. f[n] \in Seq(S)
        BY <1>3, <2>4 DEF AllIn
    <2>6. QED
        BY <2>1, <2>5
<1>4. QED
    BY <1>2, <1>3

LEMMA FlattenRules ==
    ASSUME NEW S, NEW seqs \in Seq(Seq(S)), NEW x \in Seq(S)
    PROVE  /\ FlattenSeq(<<>>) = <<>>
           /\ FlattenSeq(seqs) \in Seq(S)
           /\ FlattenSeq(Append(seqs, x)) = FlattenSeq(seqs) \o x
<1>1. FlattenSeq(<<>>) = <<>>
    BY DEF FlattenSeq
<1>2. FlattenSeq(seqs) \in Seq(S)
    BY FlattenTyped
<1>3. PICK n \in Nat : n = Len(seqs)
    OBVIOUS
<1>4. PICK more \in Seq(Seq(S)) : /\ more = Append(seqs, x) /\ Len(more) = n + 1
                                  /\ more[n + 1] = x /\ \A i \in 1 .. n : more[i] = seqs[i]
    <2>1. PICK Q : Q = Seq(S)
        OBVIOUS
    <2>2. seqs \in Seq(Q) /\ x \in Q
        BY <2>1
    <2>3. /\ Append(seqs, x) \in Seq(Q) /\ Len(Append(seqs, x)) = n + 1
          /\ Append(seqs, x)[n + 1] = x /\ \A i \in 1 .. n : Append(seqs, x)[i] = seqs[i]
        BY <1>3, <2>2, AppendProperties
    <2>4. QED
        BY <2>1, <2>3
<1>5. PICK g : Flattens(g, n + 1, more) /\ FlattenSeq(more) = g[n + 1]
    <2>1. Len(more) # 0
        BY <1>3, <1>4
    <2>2. QED
        BY <1>4, <2>1, FlattenFunction
<1>6. CASE n = 0
    <2>1. FlattenSeq(more) = x
        BY <1>4, <1>5, <1>6 DEF Flattens
    <2>2. seqs = <<>>
        BY <1>3, <1>6, EmptySeq
    <2>3. <<>> \o x = x
        BY ConcatEmptySeq
    <2>4. QED
        BY <1>1, <1>2, <1>4, <2>1, <2>2, <2>3
<1>7. CASE n # 0
    <2>1. PICK f : Flattens(f, n, seqs) /\ FlattenSeq(seqs) = f[n]
        BY <1>3, <1>7, FlattenFunction
    <2> DEFINE T == {k \in 0 .. n : SameUpTo(f, g, k)}
    <2>2. 0 \in T
        BY DEF SameUpTo
    <2>3. ASSUME NEW k \in 0 .. n - 1, k \in T
          PROVE  k + 1 \in T
        <3>1. k + 1 \in 0 .. n /\ k + 1 \in 1 .. n /\ k + 1 \in 1 .. n + 1
            OBVIOUS
        <3>2. SameUpTo(f, g, k)
            BY <2>3
        <3>3. more[k + 1] = seqs[k + 1]
            BY <1>4, <3>1
        <3>4. f[k + 1] = IF k + 1 = 1 THEN seqs[k + 1] ELSE f[(k + 1) - 1] \o seqs[k + 1]
            BY <2>1, <3>1 DEF Flattens
        <3>5. g[k + 1] = IF k + 1 = 1 THEN more[k + 1] ELSE g[(k + 1) - 1] \o more[k + 1]
            BY <1>5, <3>1 DEF Flattens
        <3>6. k # 0 => f[(k + 1) - 1] = g[(k + 1) - 1]
            BY <3>2 DEF SameUpTo
        <3>7. f[k + 1] = g[k + 1]
            BY <3>3, <3>4, <3>5, <3>6
        <3>8. \A i \in 1 .. k + 1 : i = k + 1 \/ i \in 1 .. k
            OBVIOUS
        <3>9. SameUpTo(f, g, k + 1)
            BY <3>2, <3>7, <3>8 DEF SameUpTo
        <3>10. QED
            BY <3>1, <3>9
    <2>4. n \in T
        <3> HIDE DEF T
        <3>1. \A k \in 0 .. n : k \in T
            BY <2>2, <2>3, Induction
        <3>2. QED
            BY <3>1
    <2>5. f[n] = g[n]
        BY <1>7, <2>4 DEF SameUpTo
    <2>6. n + 1 \in 1 .. n + 1 /\ n + 1 # 1 /\ (n + 1) - 1 = n
        BY <1>7
    <2>7. g[n + 1] = g[n] \o x
        BY <1>4, <1>5, <2>6 DEF Flattens
    <2>8. QED
        BY <1>2, <1>1, <1>4, <1>5, <2>1, <2>5, <2>7
<1>8. QED
    BY <1>6, <1>7

-----------------------------------------------------------------------------
\* The text of a list of choices, and of everything passed on.

TextOf(out) == FlattenSeq([i \in DOMAIN out |-> Contents(out[i].choices)])
ThoughtOf(out) == FlattenSeq([i \in DOMAIN out |-> Reasonings(out[i].choices)])

LEMMA ContentsType ==
    ASSUME NEW choices \in ChoiceLists
    PROVE  Contents(choices) \in Words /\ Reasonings(choices) \in Words
<1>1. PICK n \in Nat : n = Len(choices) /\ DOMAIN choices = 1 .. n
                       /\ \A i \in 1 .. n : choices[i] \in Choice
    BY LenProperties, ElementOfSeq DEF ChoiceLists
<1>2. \A i \in 1 .. n : choices[i].content \in Words /\ choices[i].reasoning \in Words
    BY <1>1 DEF Choice
<1>3. PICK cs : cs = [i \in DOMAIN choices |-> choices[i].content]
    OBVIOUS
<1>4. PICK rs : rs = [i \in DOMAIN choices |-> choices[i].reasoning]
    OBVIOUS
<1>5. cs \in [1 .. n -> Words] /\ rs \in [1 .. n -> Words]
    BY <1>1, <1>2, <1>3, <1>4
<1>6. cs \in Seq(Words) /\ rs \in Seq(Words)
    BY <1>5
<1>7. FlattenSeq(cs) \in Words /\ FlattenSeq(rs) \in Words
    BY <1>6, FlattenTyped DEF Words
<1>8. QED
    BY <1>3, <1>4, <1>7 DEF Contents, Reasonings

LEMMA NoContents == Contents(<<>>) = <<>> /\ Reasonings(<<>>) = <<>>
<1>1. [i \in DOMAIN <<>> |-> <<>>[i].content] = <<>>
      /\ [i \in DOMAIN <<>> |-> <<>>[i].reasoning] = <<>>
    OBVIOUS
<1>2. FlattenSeq(<<>>) = <<>>
    BY SMTT(30) DEF FlattenSeq
<1>3. QED
    BY <1>1, <1>2 DEF Contents, Reasonings

LEMMA OutText ==
    ASSUME NEW out \in Seq(OutItem), NEW o \in OutItem
    PROVE  /\ TextOf(out) \in Words /\ ThoughtOf(out) \in Words
           /\ TextOf(Append(out, o)) = TextOf(out) \o Contents(o.choices)
           /\ ThoughtOf(Append(out, o)) = ThoughtOf(out) \o Reasonings(o.choices)
<1>1. PICK n \in Nat : n = Len(out) /\ DOMAIN out = 1 .. n
                       /\ \A i \in 1 .. n : out[i] \in OutItem
    BY LenProperties, ElementOfSeq
<1>2. PICK more : more = Append(out, o)
    OBVIOUS
<1>3. /\ DOMAIN more = 1 .. n + 1 /\ more[n + 1] = o
      /\ \A i \in 1 .. n : more[i] = out[i]
    <2>1. /\ more \in Seq(OutItem) /\ Len(more) = n + 1 /\ more[n + 1] = o
          /\ \A i \in 1 .. n : more[i] = out[i]
        BY <1>1, <1>2, AppendProperties
    <2>2. QED
        BY <2>1, LenProperties
<1>4. ASSUME NEW x \in OutItem
      PROVE  Contents(x.choices) \in Words /\ Reasonings(x.choices) \in Words
    <2>1. x.choices \in ChoiceLists
        BY DEF OutItem
    <2>2. QED
        BY <2>1, ContentsType
<1>5. PICK cs : cs = [i \in DOMAIN out |-> Contents(out[i].choices)]
    OBVIOUS
<1>6. PICK rs : rs = [i \in DOMAIN out |-> Reasonings(out[i].choices)]
    OBVIOUS
<1>7. /\ cs \in [1 .. n -> Words] /\ rs \in [1 .. n -> Words]
    BY <1>1, <1>4, <1>5, <1>6
<1>8. cs \in Seq(Words) /\ rs \in Seq(Words) /\ Len(cs) = n /\ Len(rs) = n
    BY <1>7
<1>9. PICK c \in Words : c = Contents(o.choices)
    BY <1>4
<1>10. PICK r \in Words : r = Reasonings(o.choices)
    BY <1>4
<1>11. [i \in DOMAIN more |-> Contents(more[i].choices)] = Append(cs, c)
    <2>1. PICK f : f = [i \in DOMAIN more |-> Contents(more[i].choices)]
        OBVIOUS
    <2>2. f \in [1 .. n + 1 -> Words]
        <3>1. \A i \in 1 .. n + 1 : more[i] \in OutItem
            BY <1>1, <1>3
        <3>2. QED
            BY <1>3, <1>4, <2>1, <3>1
    <2>3. f \in Seq(Words) /\ Len(f) = n + 1
        BY <2>2
    <2>4. \A i \in 1 .. n : f[i] = cs[i]
        BY <1>1, <1>3, <1>5, <2>1
    <2>5. f[n + 1] = c
        BY <1>3, <1>9, <2>1
    <2>6. /\ Append(cs, c) \in Seq(Words) /\ Len(Append(cs, c)) = n + 1
          /\ \A i \in 1 .. n : Append(cs, c)[i] = cs[i]
          /\ Append(cs, c)[n + 1] = c
        BY <1>8, AppendProperties
    <2>7. \A i \in 1 .. Len(f) : f[i] = Append(cs, c)[i]
        BY <2>3, <2>4, <2>5, <2>6
    <2>8. QED
        BY <2>1, <2>3, <2>6, <2>7, SeqEqual
<1>12. [i \in DOMAIN more |-> Reasonings(more[i].choices)] = Append(rs, r)
    <2>1. PICK f : f = [i \in DOMAIN more |-> Reasonings(more[i].choices)]
        OBVIOUS
    <2>2. f \in [1 .. n + 1 -> Words]
        <3>1. \A i \in 1 .. n + 1 : more[i] \in OutItem
            BY <1>1, <1>3
        <3>2. QED
            BY <1>3, <1>4, <2>1, <3>1
    <2>3. f \in Seq(Words) /\ Len(f) = n + 1
        BY <2>2
    <2>4. \A i \in 1 .. n : f[i] = rs[i]
        BY <1>1, <1>3, <1>6, <2>1
    <2>5. f[n + 1] = r
        BY <1>3, <1>10, <2>1
    <2>6. /\ Append(rs, r) \in Seq(Words) /\ Len(Append(rs, r)) = n + 1
          /\ \A i \in 1 .. n : Append(rs, r)[i] = rs[i]
          /\ Append(rs, r)[n + 1] = r
        BY <1>8, AppendProperties
    <2>7. \A i \in 1 .. Len(f) : f[i] = Append(rs, r)[i]
        BY <2>3, <2>4, <2>5, <2>6
    <2>8. QED
        BY <2>1, <2>3, <2>6, <2>7, SeqEqual
<1>13. /\ FlattenSeq(cs) \in Words /\ FlattenSeq(Append(cs, c)) = FlattenSeq(cs) \o c
       /\ FlattenSeq(rs) \in Words /\ FlattenSeq(Append(rs, r)) = FlattenSeq(rs) \o r
    BY <1>8, FlattenRules DEF Words
<1>14. QED
    BY <1>2, <1>5, <1>6, <1>9, <1>10, <1>11, <1>12, <1>13 DEF TextOf, ThoughtOf

LEMMA NoText == TextOf(<<>>) = <<>> /\ ThoughtOf(<<>>) = <<>>
<1>1. [i \in DOMAIN <<>> |-> Contents(<<>>[i].choices)] = <<>>
      /\ [i \in DOMAIN <<>> |-> Reasonings(<<>>[i].choices)] = <<>>
    OBVIOUS
<1>2. FlattenSeq(<<>>) = <<>>
    BY DEF FlattenSeq
<1>3. QED
    BY <1>1, <1>2 DEF TextOf, ThoughtOf

-----------------------------------------------------------------------------
\* One message.

\* What AppendResponse makes of the log.
LEMMA AppendResponseFacts ==
    ASSUME NEW log \in Logs, NEW choices \in ChoiceLists, NEW body,
           body.total \in Nat, body.cached \in Nat
    PROVE  /\ AppendResponse(log, choices, body) \in Logs
           /\ AppendResponse(log, choices, body).content = log.content \o Contents(choices)
           /\ AppendResponse(log, choices, body).thinking = log.thinking \o Reasonings(choices)
           /\ AppendResponse(log, choices, body).total =
                 IF body.total > log.total THEN body.total ELSE log.total
<1>1. Contents(choices) \in Words /\ Reasonings(choices) \in Words
    BY ContentsType
<1>2. log.content \in Words /\ log.thinking \in Words
    BY DEF Logs
<1>3. PICK c \in Words : c = log.content \o Contents(choices)
    BY <1>1, <1>2, ConcatProperties DEF Words
<1>4. PICK r \in Words : r = log.thinking \o Reasonings(choices)
    BY <1>1, <1>2, ConcatProperties DEF Words
<1>5. PICK l : l = [log EXCEPT !.content = c, !.thinking = r]
    OBVIOUS
<1>6. /\ l \in Logs /\ l.content = c /\ l.thinking = r /\ l.total = log.total
      /\ l.cached = log.cached
    BY <1>5 DEF Logs
<1>7. AppendResponse(log, choices, body) = appendUsage(l, body)
    BY <1>3, <1>4, <1>5 DEF AppendResponse
<1>8. CASE body.total > log.total
    <2>1. PICK d \in Nat : d = IF body.cached # 0 THEN body.cached ELSE l.cached
        BY <1>6 DEF Logs
    <2>2. appendUsage(l, body) = [l EXCEPT !.total = body.total, !.cached = d]
        BY <1>6, <1>8, <2>1 DEF appendUsage
    <2>3. QED
        BY <1>3, <1>4, <1>6, <1>7, <1>8, <2>2, ZenonT(30) DEF Logs
<1>9. CASE ~(body.total > log.total)
    <2>1. appendUsage(l, body) = l
        BY <1>6, <1>9 DEF appendUsage
    <2>2. QED
        BY <1>3, <1>4, <1>6, <1>7, <1>9, <2>1
<1>10. QED
    BY <1>8, <1>9

\* A chunk's choices, as they are passed on.
Converted(s, choices) ==
    convertOpenAIChatCompletionChunk(s, choices)

LEMMA ConvertedType ==
    ASSUME NEW s, s.metFirstChunk \in BOOLEAN, s.isThinking \in BOOLEAN,
           NEW choices \in ChoiceLists
    PROVE  Converted(s, choices) \in ConvertStates
<1>1. PICK base : base = [metFirstChunk |-> s.metFirstChunk, isThinking |-> s.isThinking,
                          choices |-> <<>>]
    OBVIOUS
<1>2. <<>> \in ChoiceLists
    BY DEF ChoiceLists
<1>3. base \in ConvertStates
    BY <1>1, <1>2 DEF ConvertStates
<1>4. choices \in Seq(Choice)
    BY DEF ChoiceLists
<1>5. FoldLeft(ConvertChoice, base, choices) \in ConvertStates
    BY <1>3, <1>4, ConvertRules
<1>6. QED
    BY <1>1, <1>5 DEF Converted, convertOpenAIChatCompletionChunk

Plain(msg) == msg = Damaged \/ Body[msg].kind \in {"done", "other"}

\* HandleMessage, field by field: choices are what is passed on.
Handled(s, msg, r, choices) ==
    /\ choices \in ChoiceLists
    /\ r.chunkCount = s.chunkCount + 1
    /\ r.out = Append(s.out, [msg |-> msg, choices |-> choices])
    /\ Plain(msg) \/ Body[msg].kind = "error" =>
          /\ choices = <<>>
          /\ r.log.content = s.log.content /\ r.log.thinking = s.log.thinking
          /\ r.log.total = s.log.total
          /\ r.metFirstChunk = s.metFirstChunk /\ r.isThinking = s.isThinking
    /\ ~Plain(msg) /\ Body[msg].kind = "chunk" =>
          /\ r.log = AppendResponse(s.log, choices, Body[msg])
          /\ r.end = None
          /\ IF splitReasoning
             THEN /\ choices = Converted(s, Body[msg].choices).choices
                  /\ r.metFirstChunk = Converted(s, Body[msg].choices).metFirstChunk
                  /\ r.isThinking = Converted(s, Body[msg].choices).isThinking
             ELSE /\ choices = Body[msg].choices
                  /\ r.metFirstChunk = s.metFirstChunk /\ r.isThinking = s.isThinking

LEMMA MessageKinds ==
    ASSUME NEW msg \in Messages
    PROVE  \/ Plain(msg)
           \/ /\ ~Plain(msg) /\ msg \in DOMAIN Body /\ msg # Damaged /\ Body[msg].kind = "chunk"
              /\ Body[msg].choices \in ChoiceLists
              /\ Body[msg].total \in Nat /\ Body[msg].cached \in Nat
           \/ ~Plain(msg) /\ msg \in DOMAIN Body /\ msg # Damaged /\ Body[msg].kind = "error"
    BY BodyAssumption DEF Messages, Plain

LEMMA HandleFacts ==
    ASSUME NEW s \in States, s.end = None, NEW msg \in Messages
    PROVE  /\ HandleMessage(s, msg) \in States
           /\ HandleMessage(s, msg).end # "503"
           /\ \E choices : Handled(s, msg, HandleMessage(s, msg), choices)
<1>1. PICK c : c = [s EXCEPT !.chunkCount = @ + 1]
    OBVIOUS
<1>2. /\ c \in States /\ c.chunkCount = s.chunkCount + 1 /\ c.out = s.out /\ c.log = s.log
      /\ c.end = None /\ c.metFirstChunk = s.metFirstChunk /\ c.isThinking = s.isThinking
    BY <1>1 DEF States
<1>3. /\ s.log \in Logs /\ s.out \in Seq(OutItem)
      /\ s.metFirstChunk \in BOOLEAN /\ s.isThinking \in BOOLEAN
    BY DEF States
<1>4. <<>> \in ChoiceLists
    BY DEF ChoiceLists
<1>5. ASSUME NEW cs \in ChoiceLists
      PROVE  /\ Deliver(c, msg, cs) \in States
             /\ Deliver(c, msg, cs) = [c EXCEPT !.out = Append(s.out, [msg |-> msg, choices |-> cs])]
    <2>1. PICK o \in OutItem : o = [msg |-> msg, choices |-> cs]
        BY DEF OutItem
    <2>2. PICK out \in Seq(OutItem) : out = Append(s.out, o)
        BY <1>3, AppendProperties
    <2>3. Deliver(c, msg, cs) = [c EXCEPT !.out = out]
        BY <1>2, <2>1, <2>2 DEF Deliver
    <2>4. [c EXCEPT !.out = out] \in States
        BY <1>2 DEF States
    <2>5. QED
        BY <2>1, <2>2, <2>3, <2>4
<1>6. CASE Plain(msg)
    <2>1. HandleMessage(s, msg) = Deliver(c, msg, <<>>)
        BY <1>1, <1>6 DEF HandleMessage, Plain
    <2>2. PICK r : r = HandleMessage(s, msg)
        OBVIOUS
    <2>3. r \in States /\ r = [c EXCEPT !.out = Append(s.out, [msg |-> msg, choices |-> <<>>])]
        BY <1>4, <1>5, <2>1, <2>2
    <2>4. /\ r.chunkCount = c.chunkCount /\ r.log = c.log /\ r.end = c.end
          /\ r.metFirstChunk = c.metFirstChunk /\ r.isThinking = c.isThinking
          /\ r.out = Append(s.out, [msg |-> msg, choices |-> <<>>])
        BY <1>2, <2>3 DEF States
    <2>5. Handled(s, msg, r, <<>>)
        BY <1>2, <1>4, <1>6, <2>4 DEF Handled
    <2>6. QED
        BY <1>2, <2>2, <2>3, <2>4, <2>5 DEF None
<1>7. CASE ~Plain(msg) /\ msg \in DOMAIN Body /\ msg # Damaged /\ Body[msg].kind = "error"
    <2>1. HandleMessage(s, msg) = ConvertError(c, msg)
        BY <1>1, <1>7 DEF HandleMessage, Plain
    <2>2. PICK d : d = Deliver(c, msg, <<>>)
        OBVIOUS
    <2>3. d \in States /\ d = [c EXCEPT !.out = Append(s.out, [msg |-> msg, choices |-> <<>>])]
        BY <1>4, <1>5, <2>2
    <2>4. /\ d.chunkCount = c.chunkCount /\ d.log = c.log
          /\ d.metFirstChunk = c.metFirstChunk /\ d.isThinking = c.isThinking
          /\ d.out = Append(s.out, [msg |-> msg, choices |-> <<>>])
        BY <1>2, <2>3 DEF States
    <2>5. PICK end \in {None, "400"} : end = IF c.chunkCount = 1 THEN "400" ELSE None
        OBVIOUS
    <2>6. PICK l : l = [d.log EXCEPT !.err = msg]
        OBVIOUS
    <2>7. /\ l \in Logs /\ l.content = s.log.content /\ l.thinking = s.log.thinking
          /\ l.total = s.log.total
        BY <1>2, <1>3, <2>4, <2>6 DEF Logs
    <2>8. PICK r : r = HandleMessage(s, msg)
        OBVIOUS
    <2>9. r = [d EXCEPT !.log = l, !.end = end]
        BY <2>1, <2>2, <2>3, <2>5, <2>6, <2>8 DEF ConvertError, States, None
    <2>10. /\ r \in States /\ r.log = l /\ r.end = end /\ r.chunkCount = d.chunkCount
           /\ r.metFirstChunk = d.metFirstChunk /\ r.isThinking = d.isThinking
           /\ r.out = d.out
        BY <2>3, <2>5, <2>7, <2>9 DEF States
    <2>11. Handled(s, msg, r, <<>>)
        BY <1>2, <1>4, <1>7, <2>4, <2>7, <2>10 DEF Handled
    <2>12. QED
        BY <2>5, <2>8, <2>10, <2>11 DEF None
<1>8. CASE /\ ~Plain(msg) /\ msg \in DOMAIN Body /\ msg # Damaged /\ Body[msg].kind = "chunk"
           /\ Body[msg].choices \in ChoiceLists
           /\ Body[msg].total \in Nat /\ Body[msg].cached \in Nat
    <2>1. HandleMessage(s, msg) = ConvertChunk(c, msg)
        BY <1>1, <1>8 DEF HandleMessage, Plain
    <2>2. PICK v : v = Converted(s, Body[msg].choices)
        OBVIOUS
    <2>3. v = convertOpenAIChatCompletionChunk(c, Body[msg].choices)
        BY <1>2, <2>2 DEF Converted, convertOpenAIChatCompletionChunk
    <2>4. /\ v.metFirstChunk \in BOOLEAN /\ v.isThinking \in BOOLEAN /\ v.choices \in ChoiceLists
        <3>1. v \in ConvertStates
            BY <1>3, <1>8, <2>2, ConvertedType
        <3>2. QED
            BY <3>1 DEF ConvertStates
    <2>5. PICK cs \in ChoiceLists : cs = IF splitReasoning THEN v.choices ELSE Body[msg].choices
        BY <1>8, <2>4
    <2>6. PICK d : d = Deliver(c, msg, cs)
        OBVIOUS
    <2>7. d \in States /\ d = [c EXCEPT !.out = Append(s.out, [msg |-> msg, choices |-> cs])]
        BY <1>5, <2>6
    <2>8. /\ d.chunkCount = c.chunkCount /\ d.log = c.log /\ d.end = None
          /\ d.metFirstChunk = c.metFirstChunk /\ d.isThinking = c.isThinking
          /\ d.out = Append(s.out, [msg |-> msg, choices |-> cs])
        BY <1>2, <2>7 DEF States
    <2>9. PICK l \in Logs : l = AppendResponse(s.log, cs, Body[msg])
        BY <1>3, <1>8, AppendResponseFacts
    <2>10. PICK r : r = HandleMessage(s, msg)
        OBVIOUS
    <2>11. CASE splitReasoning
        <3>1. cs = v.choices
            BY <2>5, <2>11
        <3>2. r = [d EXCEPT !.metFirstChunk = v.metFirstChunk, !.isThinking = v.isThinking, !.log = l]
            <4>1. PICK d1 : d1 = [d EXCEPT !.metFirstChunk = v.metFirstChunk,
                                           !.isThinking = v.isThinking]
                OBVIOUS
            <4>2. d1.log = s.log
                BY <1>2, <2>7, <2>8, <4>1 DEF States
            <4>3. r = [d1 EXCEPT !.log = AppendResponse(d1.log, v.choices, Body[msg])]
                BY <2>1, <2>3, <2>6, <2>10, <2>11, <3>1, <4>1 DEF ConvertChunk
            <4>4. QED
                BY <2>9, <3>1, <4>1, <4>2, <4>3
        <3>3. /\ r \in States /\ r.log = l /\ r.end = d.end /\ r.chunkCount = d.chunkCount
              /\ r.metFirstChunk = v.metFirstChunk /\ r.isThinking = v.isThinking
              /\ r.out = d.out
            BY <2>4, <2>7, <2>9, <3>2 DEF States
        <3>4. Handled(s, msg, r, cs)
            BY <1>2, <1>8, <2>2, <2>8, <2>9, <2>11, <3>1, <3>3 DEF Handled
        <3>5. QED
            BY <2>8, <2>10, <3>3, <3>4 DEF None
    <2>12. CASE ~splitReasoning
        <3>1. cs = Body[msg].choices
            BY <2>5, <2>12
        <3>2. r = [d EXCEPT !.log = l]
            BY <1>2, <2>1, <2>3, <2>6, <2>7, <2>8, <2>9, <2>10, <2>12, <3>1, ZenonT(30) DEF ConvertChunk, States
        <3>3. /\ r \in States /\ r.log = l /\ r.end = d.end /\ r.chunkCount = d.chunkCount
              /\ r.metFirstChunk = d.metFirstChunk /\ r.isThinking = d.isThinking
              /\ r.out = d.out
            BY <2>4, <2>7, <2>9, <3>2 DEF States
        <3>4. Handled(s, msg, r, cs)
            BY <1>2, <1>8, <2>2, <2>8, <2>9, <2>12, <3>1, <3>3 DEF Handled
        <3>5. QED
            BY <2>8, <2>10, <3>3, <3>4 DEF None
    <2>13. QED
        BY <2>11, <2>12
<1>9. QED
    BY <1>6, <1>7, <1>8, MessageKinds

-----------------------------------------------------------------------------
\* The log.

Reports(out, i) == out[i].msg # Damaged /\ Body[out[i].msg].kind = "chunk"
Totals(out) == {Body[out[i].msg].total : i \in {j \in DOMAIN out : Reports(out, j)}}
Greatest(n, totals) ==
    IF totals = {} THEN n = 0 ELSE n \in totals /\ \A m \in totals : m <= n

LogKept(s) ==
    /\ s.log.content = TextOf(s.out)
    /\ s.log.thinking = ThoughtOf(s.out)
    /\ Greatest(s.log.total, Totals(s.out))

LoggedStates == {s \in States : LogKept(s)}

\* One more message reports its total, if it is a chunk.
LEMMA TotalsAppend ==
    ASSUME NEW out \in Seq(OutItem), NEW o \in OutItem
    PROVE  Totals(Append(out, o)) =
              Totals(out) \cup (IF o.msg # Damaged /\ Body[o.msg].kind = "chunk"
                                THEN {Body[o.msg].total} ELSE {})
<1>1. PICK n \in Nat : n = Len(out) /\ DOMAIN out = 1 .. n
    BY LenProperties
<1>2. PICK more : more = Append(out, o)
    OBVIOUS
<1>3. /\ DOMAIN more = 1 .. n + 1 /\ more[n + 1] = o
      /\ \A i \in 1 .. n : more[i] = out[i]
    <2>1. /\ more \in Seq(OutItem) /\ Len(more) = n + 1 /\ more[n + 1] = o
          /\ \A i \in 1 .. n : more[i] = out[i]
        BY <1>1, <1>2, AppendProperties
    <2>2. QED
        BY <2>1, LenProperties
<1>4. ASSUME NEW x
      PROVE  x \in Totals(more) <=>
                \/ x \in Totals(out)
                \/ o.msg # Damaged /\ Body[o.msg].kind = "chunk" /\ x = Body[o.msg].total
    <2>1. x \in Totals(more) <=> \E i \in 1 .. n + 1 : Reports(more, i) /\ x = Body[more[i].msg].total
        BY <1>3 DEF Totals
    <2>2. x \in Totals(out) <=> \E i \in 1 .. n : Reports(out, i) /\ x = Body[out[i].msg].total
        BY <1>1 DEF Totals
    <2>3. \A i \in 1 .. n : more[i] = out[i] /\ i \in 1 .. n + 1
        BY <1>3
    <2>4. \A i \in 1 .. n + 1 : i \in 1 .. n \/ i = n + 1
        OBVIOUS
    <2>5. n + 1 \in 1 .. n + 1
        OBVIOUS
    <2>6. ASSUME x \in Totals(more)
          PROVE  \/ x \in Totals(out)
                 \/ o.msg # Damaged /\ Body[o.msg].kind = "chunk" /\ x = Body[o.msg].total
        <3>1. PICK i \in 1 .. n + 1 : Reports(more, i) /\ x = Body[more[i].msg].total
            BY <2>1, <2>6
        <3>2. QED
            BY <1>3, <2>2, <2>3, <2>4, <3>1 DEF Reports
    <2>7. ASSUME x \in Totals(out)
          PROVE  x \in Totals(more)
        <3>1. PICK i \in 1 .. n : Reports(out, i) /\ x = Body[out[i].msg].total
            BY <2>2, <2>7
        <3>2. QED
            BY <2>1, <2>3, <3>1 DEF Reports
    <2>8. ASSUME o.msg # Damaged, Body[o.msg].kind = "chunk", x = Body[o.msg].total
          PROVE  x \in Totals(more)
        BY <1>3, <2>1, <2>5, <2>8 DEF Reports
    <2>9. QED
        BY <2>6, <2>7, <2>8
<1>5. QED
    BY <1>2, <1>4

LEMMA TotalsType ==
    ASSUME NEW out \in Seq(OutItem)
    PROVE  Totals(out) \subseteq Nat
<1>1. SUFFICES ASSUME NEW i \in DOMAIN out, Reports(out, i)
               PROVE  Body[out[i].msg].total \in Nat
    BY DEF Totals
<1>2. out[i] \in OutItem
    BY LenProperties, ElementOfSeq
<1>3. out[i].msg \in DOMAIN Body
    BY <1>1, <1>2 DEF OutItem, Messages, Reports
<1>4. QED
    BY <1>1, <1>3, BodyAssumption DEF Reports

\* What a message does to the output and the log.
LogTaken(s, msg, r, choices) ==
    /\ choices \in ChoiceLists
    /\ r.out = Append(s.out, [msg |-> msg, choices |-> choices])
    /\ Plain(msg) \/ Body[msg].kind = "error" =>
          /\ choices = <<>>
          /\ r.log.content = s.log.content /\ r.log.thinking = s.log.thinking
          /\ r.log.total = s.log.total
    /\ ~Plain(msg) /\ Body[msg].kind = "chunk" =>
          r.log = AppendResponse(s.log, choices, Body[msg])

LEMMA LogTakes ==
    ASSUME NEW s \in LoggedStates, NEW msg \in Messages, NEW r \in States, NEW choices,
           LogTaken(s, msg, r, choices)
    PROVE  r \in LoggedStates
<1>1. s \in States /\ LogKept(s)
    BY DEF LoggedStates
<1>2. LogTaken(s, msg, r, choices)
    OBVIOUS
<1>3. PICK o : o = [msg |-> msg, choices |-> choices]
    OBVIOUS
<1>4. o \in OutItem /\ r.out = Append(s.out, o) /\ o.msg = msg /\ o.choices = choices
    BY <1>3 DEF LogTaken, OutItem
<1>5. s.out \in Seq(OutItem) /\ s.log \in Logs
    BY <1>1 DEF States
<1>6. /\ TextOf(s.out) \in Words /\ ThoughtOf(s.out) \in Words
      /\ TextOf(r.out) = TextOf(s.out) \o Contents(choices)
      /\ ThoughtOf(r.out) = ThoughtOf(s.out) \o Reasonings(choices)
    BY <1>4, <1>5, OutText
<1>7. Totals(r.out) = Totals(s.out) \cup (IF msg # Damaged /\ Body[msg].kind = "chunk"
                                          THEN {Body[msg].total} ELSE {})
    BY <1>4, <1>5, TotalsAppend
<1>8. CASE Plain(msg) \/ Body[msg].kind = "error"
    <2>1. /\ choices = <<>> /\ r.log.content = s.log.content
          /\ r.log.thinking = s.log.thinking /\ r.log.total = s.log.total
        BY <1>2, <1>8 DEF LogTaken
    <2>2. TextOf(r.out) = TextOf(s.out) /\ ThoughtOf(r.out) = ThoughtOf(s.out)
        BY <1>6, <2>1, NoContents, ConcatEmptySeq DEF Words
    <2>3. Totals(r.out) = Totals(s.out)
        <3>1. ~(msg # Damaged /\ Body[msg].kind = "chunk")
            BY <1>8 DEF Plain
        <3>2. QED
            BY <1>7, <3>1
    <2>4. LogKept(r)
        BY <1>1, <2>1, <2>2, <2>3 DEF LogKept
    <2>5. QED
        BY <1>1, <2>4 DEF LoggedStates
<1>9. CASE /\ ~Plain(msg) /\ msg \in DOMAIN Body /\ msg # Damaged /\ Body[msg].kind = "chunk"
           /\ Body[msg].choices \in ChoiceLists
           /\ Body[msg].total \in Nat /\ Body[msg].cached \in Nat
    <2>1. r.log = AppendResponse(s.log, choices, Body[msg]) /\ choices \in ChoiceLists
        BY <1>2, <1>9 DEF LogTaken
    <2>2. /\ r.log.content = s.log.content \o Contents(choices)
          /\ r.log.thinking = s.log.thinking \o Reasonings(choices)
          /\ r.log.total = IF Body[msg].total > s.log.total THEN Body[msg].total
                           ELSE s.log.total
        <3>1. PICK body : body = Body[msg]
            OBVIOUS
        <3>2. PICK log \in Logs : log = s.log
            BY <1>5
        <3>3. body.total \in Nat /\ body.cached \in Nat /\ choices \in ChoiceLists
            BY <1>9, <2>1, <3>1
        <3>4. /\ AppendResponse(log, choices, body).content = log.content \o Contents(choices)
              /\ AppendResponse(log, choices, body).thinking = log.thinking \o Reasonings(choices)
              /\ AppendResponse(log, choices, body).total =
                    IF body.total > log.total THEN body.total ELSE log.total
            BY <3>3, AppendResponseFacts
        <3>5. QED
            BY <2>1, <3>1, <3>2, <3>4
    <2>3. /\ r.log.content = TextOf(r.out) /\ r.log.thinking = ThoughtOf(r.out)
        BY <1>1, <1>6, <2>2 DEF LogKept
    <2>4. Totals(r.out) = Totals(s.out) \cup {Body[msg].total}
        BY <1>7, <1>9
    <2>5. Greatest(r.log.total, Totals(r.out))
        <3>1. PICK a \in Nat : a = s.log.total
            BY <1>5 DEF Logs
        <3>2. PICK b \in Nat : b = Body[msg].total
            BY <1>9
        <3>3. PICK T : T = Totals(s.out)
            OBVIOUS
        <3>4. T \subseteq Nat /\ Greatest(a, T)
            BY <1>1, <1>5, <3>1, <3>3, TotalsType DEF LogKept
        <3>5. Greatest(IF b > a THEN b ELSE a, T \cup {b})
            BY <3>4 DEF Greatest
        <3>6. QED
            BY <2>2, <2>4, <3>1, <3>2, <3>3, <3>5
    <2>6. LogKept(r)
        BY <2>3, <2>5 DEF LogKept
    <2>7. QED
        BY <1>1, <2>6 DEF LoggedStates
<1>10. QED
    BY <1>8, <1>9, MessageKinds

\* Every message keeps the log in step with what is passed on.
LEMMA LogClosed == Closed(LoggedStates, Messages)
<1>1. SUFFICES ASSUME NEW s \in LoggedStates, NEW msg \in Messages
               PROVE  HandleMessage(s, msg) \in LoggedStates
    BY DEF Closed
<1>2. s \in States
    BY DEF LoggedStates
<1>3. CASE s.end # None
    BY <1>3 DEF HandleMessage
<1>4. CASE s.end = None
    <2>1. PICK r \in States : r = HandleMessage(s, msg)
        BY <1>2, <1>4, HandleFacts
    <2>2. PICK choices : Handled(s, msg, r, choices)
        BY <1>2, <1>4, <2>1, HandleFacts
    <2>3. LogTaken(s, msg, r, choices)
        BY <2>2 DEF Handled, LogTaken
    <2>4. QED
        BY <2>1, <2>3, LogTakes
<1>5. QED
    BY <1>3, <1>4

LEMMA FreshLogged == Fresh \in LoggedStates
<1>1. <<>> \in Words /\ <<>> \in Seq(OutItem)
    BY DEF Words
<1>2. NoLog \in Logs
    BY <1>1 DEF NoLog, Logs
<1>3. Fresh \in States /\ Fresh.out = <<>> /\ Fresh.log = NoLog
    BY <1>1, <1>2 DEF Fresh, States
<1>4. Totals(<<>>) = {}
    BY DEF Totals
<1>5. LogKept(Fresh)
    BY <1>3, <1>4, NoText DEF LogKept, NoLog, Greatest
<1>6. QED
    BY <1>3, <1>5 DEF LoggedStates

-----------------------------------------------------------------------------
\* What the upstream sends.

LineEndings == {<<"LF">>, <<"CR">>, <<"CR", "LF">>}
FixedOK == msgs \in Seq(DOMAIN Body) /\ eol \in LineEndings
EventLen == 3 + 2 * Len(eol)

\* The tokens of one event.
EventIs(e, m) ==
    /\ e \in Seq(Tokens) /\ Len(e) = EventLen
    /\ e[1] = "data" /\ e[2] = ":" /\ e[3] = m
    /\ \/ EventLen = 5 /\ e[4] = "LF" /\ e[5] = "LF"
       \/ EventLen = 5 /\ e[4] = "CR" /\ e[5] = "CR"
       \/ EventLen = 7 /\ e[4] = "CR" /\ e[5] = "LF" /\ e[6] = "CR" /\ e[7] = "LF"

LEMMA LineEndFacts ==
    ASSUME FixedOK
    PROVE  /\ eol \in Seq(Tokens)
           /\ \/ Len(eol) = 1 /\ eol[1] \in {"LF", "CR"}
              \/ Len(eol) = 2 /\ eol[1] = "CR" /\ eol[2] = "LF"
<1>1. eol = <<"LF">> \/ eol = <<"CR">> \/ eol = <<"CR", "LF">>
    BY Zenon DEF FixedOK, LineEndings
<1>2. "LF" \in Tokens /\ "CR" \in Tokens
    BY DEF Tokens
<1>3. CASE eol = <<"LF">>
    BY <1>2, <1>3
<1>4. CASE eol = <<"CR">>
    BY <1>2, <1>4
<1>5. CASE eol = <<"CR", "LF">>
    BY <1>2, <1>5
<1>6. QED
    BY <1>1, <1>3, <1>4, <1>5

LEMMA EventFacts ==
    ASSUME FixedOK, NEW m \in DOMAIN Body
    PROVE  EventIs(Event(m), m)
<1>1. /\ "data" \in Tokens /\ ":" \in Tokens /\ "CR" \in Tokens /\ "LF" \in Tokens
      /\ m \in Tokens
    BY DEF Tokens
<1>2. PICK h : h = <<"data", ":", m>>
    OBVIOUS
<1>3. h \in Seq(Tokens) /\ Len(h) = 3 /\ h[1] = "data" /\ h[2] = ":" /\ h[3] = m
    BY <1>1, <1>2
<1>4. Event(m) = h \o eol \o eol
    BY <1>2 DEF Event
<1>5. eol \in Seq(Tokens) /\ Len(eol) \in {1, 2}
    BY LineEndFacts
<1>6. PICK g : g = h \o eol
    OBVIOUS
<1>7. /\ g \in Seq(Tokens) /\ Len(g) = 3 + Len(eol)
      /\ \A i \in 1 .. 3 + Len(eol) : g[i] = IF i <= 3 THEN h[i] ELSE eol[i - 3]
    <2>1. PICK c \in {1, 2} : c = Len(eol)
        BY <1>5
    <2>2. /\ g \in Seq(Tokens) /\ Len(g) = Len(h) + Len(eol)
          /\ \A i \in 1 .. Len(h) + Len(eol) : g[i] = IF i <= Len(h) THEN h[i] ELSE eol[i - Len(h)]
        BY <1>3, <1>5, <1>6, ConcatProperties
    <2>3. QED
        BY <1>3, <2>1, <2>2
<1>8. PICK e : e = g \o eol
    OBVIOUS
<1>9. /\ e \in Seq(Tokens) /\ Len(e) = 3 + 2 * Len(eol)
      /\ \A i \in 1 .. 3 + 2 * Len(eol) :
            e[i] = IF i <= 3 + Len(eol) THEN g[i] ELSE eol[i - (3 + Len(eol))]
    <2>1. /\ e \in Seq(Tokens) /\ Len(e) = Len(g) + Len(eol)
          /\ \A i \in 1 .. Len(g) + Len(eol) :
                e[i] = IF i <= Len(g) THEN g[i] ELSE eol[i - Len(g)]
        BY <1>5, <1>7, <1>8, ConcatProperties
    <2>2. Len(g) + Len(eol) = 3 + 2 * Len(eol)
        BY <1>5, <1>7
    <2>3. QED
        BY <1>7, <2>1, <2>2
<1>10. e[1] = "data" /\ e[2] = ":" /\ e[3] = m
    BY <1>3, <1>5, <1>7, <1>9
<1>11. CASE Len(eol) = 1
    <2>1. e[4] = eol[1] /\ e[5] = eol[1]
        BY <1>7, <1>9, <1>11
    <2>2. eol[1] \in {"LF", "CR"}
        BY <1>11, LineEndFacts
    <2>3. QED
        BY <1>4, <1>6, <1>8, <1>9, <1>10, <1>11, <2>1, <2>2 DEF EventIs, EventLen
<1>12. CASE Len(eol) = 2
    <2>1. e[4] = eol[1] /\ e[5] = eol[2] /\ e[6] = eol[1] /\ e[7] = eol[2]
        BY <1>7, <1>9, <1>12
    <2>2. eol[1] = "CR" /\ eol[2] = "LF"
        BY <1>12, LineEndFacts
    <2>3. QED
        BY <1>4, <1>6, <1>8, <1>9, <1>10, <1>12, <2>1, <2>2 DEF EventIs, EventLen
<1>13. QED
    BY <1>5, <1>11, <1>12

LEMMA EventLength ==
    ASSUME FixedOK
    PROVE  EventLen = 5 \/ EventLen = 7
<1>1. PICK c \in {1, 2} : c = Len(eol)
    BY LineEndFacts
<1>2. EventLen = 3 + 2 * c
    BY <1>1 DEF EventLen
<1>3. QED
    BY <1>2

\* The events of the first k messages, one after the other.
WireOf(w, k) ==
    /\ w \in Seq(Tokens) /\ Len(w) = k * EventLen
    /\ \A i \in 0 .. k - 1 : \A o \in 1 .. EventLen : w[i * EventLen + o] = Event(msgs[i + 1])[o]

LEMMA WireFacts ==
    ASSUME FixedOK
    PROVE  WireOf(Wire, Len(msgs))
<1>1. PICK n \in Nat : n = Len(msgs) /\ DOMAIN msgs = 1 .. n
                       /\ \A i \in 1 .. n : msgs[i] \in DOMAIN Body
    BY LenProperties, ElementOfSeq DEF FixedOK
<1>2. EventLen = 5 \/ EventLen = 7
    BY EventLength
<1>3. \A i \in 1 .. n : Event(msgs[i]) \in Seq(Tokens) /\ Len(Event(msgs[i])) = EventLen
    BY <1>1, EventFacts DEF EventIs
<1> DEFINE ev(k) == [i \in 1 .. k |-> Event(msgs[i])]
           T == {k \in 0 .. n : WireOf(FlattenSeq(ev(k)), k)}
<1>4. ASSUME NEW k \in 0 .. n
      PROVE  ev(k) \in Seq(Seq(Tokens)) /\ Len(ev(k)) = k
    <2>1. k \in Nat /\ \A i \in 1 .. k : Event(msgs[i]) \in Seq(Tokens)
        BY <1>3
    <2>2. ev(k) \in [1 .. k -> Seq(Tokens)]
        BY <2>1
    <2> HIDE DEF ev
    <2>3. QED
        BY <2>1, <2>2
<1>5. 0 \in T
    <2>1. ev(0) = <<>>
        OBVIOUS
    <2>2. FlattenSeq(ev(0)) = <<>>
        BY <2>1 DEF FlattenSeq
    <2>3. <<>> \in Seq(Tokens) /\ Len(<<>>) = 0 /\ 0 * EventLen = 0
        BY <1>2
    <2>4. WireOf(<<>>, 0)
        BY <2>3 DEF WireOf
    <2>5. QED
        BY <2>2, <2>4
<1>6. ASSUME NEW k \in 0 .. n - 1, k \in T
      PROVE  k + 1 \in T
    <2>1. PICK w : w = FlattenSeq(ev(k))
        OBVIOUS
    <2>2. PICK e : e = Event(msgs[k + 1])
        OBVIOUS
    <2>3. k + 1 \in 1 .. n /\ k + 1 \in 0 .. n /\ k \in 0 .. n
        OBVIOUS
    <2>4. e \in Seq(Tokens) /\ Len(e) = EventLen
        BY <1>3, <2>2, <2>3
    <2>5. WireOf(w, k)
        BY <1>6, <2>1
    <2>6. ev(k + 1) = Append(ev(k), e)
        <3>1. PICK f : f = ev(k)
            OBVIOUS
        <3>2. PICK g : g = ev(k + 1)
            OBVIOUS
        <3>3. /\ f \in Seq(Seq(Tokens)) /\ Len(f) = k
              /\ g \in Seq(Seq(Tokens)) /\ Len(g) = k + 1
            BY <1>4, <2>3, <3>1, <3>2
        <3>4. \A i \in 1 .. k : g[i] = f[i]
            BY <3>1, <3>2
        <3>5. g[k + 1] = e
            BY <2>2, <3>2
        <3>6. PICK Q : Q = Seq(Tokens)
            OBVIOUS
        <3>7. f \in Seq(Q) /\ g \in Seq(Q) /\ e \in Q
            BY <2>4, <3>3, <3>6
        <3>8. /\ Append(f, e) \in Seq(Q) /\ Len(Append(f, e)) = k + 1
              /\ \A i \in 1 .. k : Append(f, e)[i] = f[i]
              /\ Append(f, e)[k + 1] = e
            BY <3>3, <3>7, AppendProperties
        <3>9. \A i \in 1 .. Len(g) : g[i] = Append(f, e)[i]
            BY <3>3, <3>4, <3>5, <3>8
        <3>10. g = Append(f, e)
            BY <3>3, <3>7, <3>8, <3>9, SeqEqual
        <3>11. QED
            BY <3>1, <3>2, <3>10
    <2>7. FlattenSeq(ev(k + 1)) = w \o e
        <3> HIDE DEF ev
        <3>1. QED
            BY <1>4, <2>1, <2>3, <2>4, <2>6, FlattenRules
    <2>8. w \in Seq(Tokens) /\ Len(w) = k * EventLen
        BY <2>5 DEF WireOf
    <2>9. PICK v : v = w \o e
        OBVIOUS
    <2>10. /\ v \in Seq(Tokens) /\ Len(v) = Len(w) + Len(e)
           /\ \A i \in 1 .. Len(w) + Len(e) : v[i] = IF i <= Len(w) THEN w[i] ELSE e[i - Len(w)]
        BY <2>4, <2>8, <2>9, ConcatProperties
    <2>11. Len(v) = (k + 1) * EventLen
        BY <1>2, <2>4, <2>8, <2>10
    <2>12. ASSUME NEW i \in 0 .. (k + 1) - 1, NEW o \in 1 .. EventLen
           PROVE  v[i * EventLen + o] = Event(msgs[i + 1])[o]
        <3>1. CASE i = k
            <4>1. PICK j : j = i * EventLen + o
                OBVIOUS
            <4>2. j \in 1 .. Len(w) + Len(e) /\ ~(j <= Len(w)) /\ j - Len(w) = o
                <5>1. CASE EventLen = 5
                    BY <2>4, <2>8, <3>1, <4>1, <5>1
                <5>2. CASE EventLen = 7
                    BY <2>4, <2>8, <3>1, <4>1, <5>2
                <5>3. QED
                    BY <1>2, <5>1, <5>2
            <4>3. QED
                BY <2>2, <2>10, <3>1, <4>1, <4>2
        <3>2. CASE i # k
            <4>1. i \in 0 .. k - 1
                BY <3>2
            <4>2. PICK j : j = i * EventLen + o
                OBVIOUS
            <4>3. j \in 1 .. Len(w) + Len(e) /\ j <= Len(w)
                BY <1>2, <2>4, <2>8, <4>1, <4>2, SMTT(30)
            <4>4. w[j] = Event(msgs[i + 1])[o]
                BY <2>5, <4>1, <4>2 DEF WireOf
            <4>5. QED
                BY <2>10, <4>2, <4>3, <4>4
        <3>3. QED
            BY <3>1, <3>2
    <2>13. WireOf(v, k + 1)
        BY <2>10, <2>11, <2>12 DEF WireOf
    <2> HIDE DEF ev
    <2>14. QED
        BY <2>3, <2>7, <2>9, <2>13
<1>7. n \in T
    <2> HIDE DEF T
    <2>1. \A k \in 0 .. n : k \in T
        BY <1>5, <1>6, Induction
    <2>2. QED
        BY <2>1
<1>8. Wire = FlattenSeq(ev(n))
    BY <1>1 DEF Wire
<1> HIDE DEF ev
<1>9. QED
    BY <1>1, <1>7, <1>8

-----------------------------------------------------------------------------
\* What can be left over between two frames: l line feeds, 0 or 1, and the
\* first j tokens of an event whose line ends have been unified.

Five(m) == <<"LF", "data", ":", m, "LF">>
Lead(l) == IF l = 1 THEN <<"LF">> ELSE <<>>
Pre(l, j, m) == SubSeq(Five(m), 2 - l, 1 + j)

LEMMA FiveFacts ==
    ASSUME NEW m \in DOMAIN Body
    PROVE  /\ Five(m)[1] = "LF" /\ Five(m)[2] = "data" /\ Five(m)[3] = ":"
           /\ Five(m)[4] = m /\ Five(m)[5] = "LF"
           /\ m # "LF" /\ m # "CR" /\ m \in Tokens /\ m # "data" /\ m # ":"
           /\ \A i \in 1 .. 5 : Five(m)[i] \in Tokens
<1>1. /\ Five(m)[1] = "LF" /\ Five(m)[2] = "data" /\ Five(m)[3] = ":"
      /\ Five(m)[4] = m /\ Five(m)[5] = "LF"
    BY DEF Five
<1>2. m # "LF" /\ m # "CR" /\ m # "data" /\ m # ":"
    BY BodyAssumption
<1>3. "LF" \in Tokens /\ "data" \in Tokens /\ ":" \in Tokens /\ m \in Tokens
    BY DEF Tokens
<1>4. \A i \in 1 .. 5 : i = 1 \/ i = 2 \/ i = 3 \/ i = 4 \/ i = 5
    OBVIOUS
<1>5. QED
    BY <1>1, <1>2, <1>3, <1>4

LEMMA PreFacts ==
    ASSUME NEW l \in {0, 1}, NEW j \in 0 .. 4, NEW m \in DOMAIN Body
    PROVE  /\ Pre(l, j, m) \in Seq(Tokens) /\ Len(Pre(l, j, m)) = l + j
           /\ \A i \in 1 .. l + j : Pre(l, j, m)[i] = Five(m)[i + 1 - l]
<1>1. PICK a \in 1 .. 2 : a = 2 - l
    OBVIOUS
<1>2. PICK b \in 1 .. 5 : b = 1 + j
    OBVIOUS
<1>3. PICK f : f = Five(m)
    OBVIOUS
<1>4. \A i \in a .. b : f[i] \in Tokens
    BY <1>3, FiveFacts
<1>5. PICK s : s = SubSeq(f, a, b)
    OBVIOUS
<1>6. /\ s \in Seq(Tokens) /\ Len(s) = IF a <= b THEN b - a + 1 ELSE 0
      /\ \A i \in 1 .. b - a + 1 : s[i] = f[a + i - 1]
    BY <1>4, <1>5, SubSeqProperties
<1>7. s = Pre(l, j, m)
    BY <1>1, <1>2, <1>3, <1>5 DEF Pre
<1>8. Len(s) = l + j /\ b - a + 1 = l + j
    BY <1>1, <1>2, <1>6
<1>9. \A i \in 1 .. l + j : a + i - 1 = i + 1 - l
    BY <1>1
<1>10. QED
    BY <1>3, <1>6, <1>7, <1>8, <1>9

LEMMA LeadFacts ==
    ASSUME NEW l \in {0, 1}, NEW m \in DOMAIN Body
    PROVE  Pre(l, 0, m) = Lead(l)
<1>1. Pre(l, 0, m) \in Seq(Tokens) /\ Len(Pre(l, 0, m)) = l
      /\ \A i \in 1 .. l : Pre(l, 0, m)[i] = Five(m)[i + 1 - l]
    <2>1. 0 \in 0 .. 4 /\ l + 0 = l
        OBVIOUS
    <2>2. Pre(l, 0, m) \in Seq(Tokens) /\ Len(Pre(l, 0, m)) = l + 0
          /\ \A i \in 1 .. l + 0 : Pre(l, 0, m)[i] = Five(m)[i + 1 - l]
        BY <2>1, PreFacts
    <2>3. QED
        BY <2>1, <2>2
<1>2. CASE l = 0
    <2>1. Pre(l, 0, m) = <<>>
        BY <1>1, <1>2, EmptySeq
    <2>2. QED
        BY <1>2, <2>1 DEF Lead
<1>3. CASE l = 1
    <2>1. Pre(l, 0, m)[1] = "LF"
        BY <1>1, <1>3, FiveFacts
    <2>2. <<"LF">> \in Seq(Tokens) /\ Len(<<"LF">>) = 1 /\ <<"LF">>[1] = "LF"
        BY DEF Tokens
    <2>3. \A i \in 1 .. Len(Pre(l, 0, m)) : Pre(l, 0, m)[i] = <<"LF">>[i]
        BY <1>1, <1>3, <2>1, <2>2
    <2>4. Pre(l, 0, m) = <<"LF">>
        BY <1>1, <1>3, <2>2, <2>3, SeqEqual
    <2>5. QED
        BY <1>3, <2>4 DEF Lead
<1>4. QED
    BY <1>2, <1>3

LEMMA PreAppend ==
    ASSUME NEW l \in {0, 1}, NEW j \in 0 .. 3, NEW m \in DOMAIN Body
    PROVE  Append(Pre(l, j, m), Five(m)[j + 2]) = Pre(l, j + 1, m)
<1>1. PICK p : p = Pre(l, j, m)
    OBVIOUS
<1>2. PICK r : r = Pre(l, j + 1, m)
    OBVIOUS
<1>3. PICK f : f = Five(m)
    OBVIOUS
<1>4. /\ p \in Seq(Tokens) /\ Len(p) = l + j
      /\ \A i \in 1 .. l + j : p[i] = f[i + 1 - l]
    <2>1. j \in 0 .. 4
        OBVIOUS
    <2>2. QED
        BY <1>1, <1>3, <2>1, PreFacts
<1>5. /\ r \in Seq(Tokens) /\ Len(r) = l + (j + 1)
      /\ \A i \in 1 .. l + (j + 1) : r[i] = f[i + 1 - l]
    <2>1. j + 1 \in 0 .. 4
        OBVIOUS
    <2>2. QED
        BY <1>2, <1>3, <2>1, PreFacts, ZenonT(30)
<1>6. PICK x \in Tokens : x = f[j + 2]
    <2>1. j + 2 \in 1 .. 5
        OBVIOUS
    <2>2. QED
        BY <1>3, <2>1, FiveFacts
<1>7. /\ Append(p, x) \in Seq(Tokens) /\ Len(Append(p, x)) = Len(p) + 1
      /\ \A i \in 1 .. Len(p) : Append(p, x)[i] = p[i]
      /\ Append(p, x)[Len(p) + 1] = x
    BY <1>4, AppendProperties
<1>8. Len(Append(p, x)) = Len(r)
    BY <1>4, <1>5, <1>7
<1>9. ASSUME NEW i \in 1 .. Len(Append(p, x))
      PROVE  Append(p, x)[i] = r[i]
    <2>1. CASE i = Len(p) + 1
        <3>1. i = l + (j + 1) /\ i + 1 - l = j + 2 /\ i \in 1 .. l + (j + 1)
            BY <1>4, <2>1
        <3>2. QED
            BY <1>5, <1>6, <1>7, <2>1, <3>1
    <2>2. CASE i # Len(p) + 1
        <3>1. i \in 1 .. Len(p) /\ i \in 1 .. l + j /\ i \in 1 .. l + (j + 1)
            BY <1>4, <1>7, <2>2
        <3>2. QED
            BY <1>4, <1>5, <1>7, <3>1
    <2>3. QED
        BY <2>1, <2>2
<1>10. Append(p, x) = r
    BY <1>5, <1>7, <1>8, <1>9, SeqEqual
<1>11. QED
    BY <1>1, <1>2, <1>3, <1>6, <1>10

\* A whole event ends with a line feed; another one completes it.
LEMMA PreLast ==
    ASSUME NEW l \in {0, 1}, NEW j \in 1 .. 4, NEW m \in DOMAIN Body
    PROVE  /\ Pre(l, j, m) # <<>>
           /\ Last(Pre(l, j, m)) = Five(m)[j + 1]
           /\ Front(Pre(l, 4, m)) = Pre(l, 3, m)
<1>1. PICK p : p = Pre(l, j, m)
    OBVIOUS
<1>2. /\ p \in Seq(Tokens) /\ Len(p) = l + j
      /\ \A i \in 1 .. l + j : p[i] = Five(m)[i + 1 - l]
    <2>1. j \in 0 .. 4
        OBVIOUS
    <2>2. QED
        BY <2>1, <1>1, PreFacts
<1>3. p # <<>> /\ p[l + j] = Five(m)[j + 1]
    <2>1. l + j \in 1 .. l + j /\ (l + j) + 1 - l = j + 1 /\ l + j # 0
        OBVIOUS
    <2>2. QED
        BY <1>2, <2>1
<1>4. PICK w : w = Pre(l, 4, m)
    OBVIOUS
<1>5. /\ w \in Seq(Tokens) /\ Len(w) = l + 4
      /\ \A i \in 1 .. l + 4 : w[i] = Five(m)[i + 1 - l]
    <2>1. 4 \in 0 .. 4
        OBVIOUS
    <2>2. QED
        BY <2>1, <1>4, PreFacts, ZenonT(30)
<1>6. PICK r : r = Pre(l, 3, m)
    OBVIOUS
<1>7. /\ r \in Seq(Tokens) /\ Len(r) = l + 3
      /\ \A i \in 1 .. l + 3 : r[i] = Five(m)[i + 1 - l]
    <2>1. 3 \in 0 .. 4
        OBVIOUS
    <2>2. QED
        BY <2>1, <1>6, PreFacts, ZenonT(30)
<1>8. PICK c \in Nat : c = l + 3 /\ c >= 1
    OBVIOUS
<1>9. \A i \in 1 .. c : w[i] \in Tokens
    BY <1>5, <1>8
<1>10. PICK s : s = SubSeq(w, 1, c)
    OBVIOUS
<1>11. /\ s \in Seq(Tokens) /\ Len(s) = IF 1 <= c THEN c - 1 + 1 ELSE 0
       /\ \A i \in 1 .. c - 1 + 1 : s[i] = w[1 + i - 1]
    BY <1>9, <1>10, SubSeqProperties
<1>12. Len(s) = c /\ \A i \in 1 .. c : s[i] = w[i]
    BY <1>8, <1>11
<1>13. \A i \in 1 .. c : s[i] = r[i]
    BY <1>5, <1>7, <1>8, <1>12, SMTT(30)
<1>14. s = r
    BY <1>7, <1>8, <1>11, <1>12, <1>13, SeqEqual
<1>15. Front(w) = s
    <2>1. Len(w) - 1 = c
        BY <1>5, <1>8
    <2>2. QED
        BY <1>10, <2>1 DEF Front
<1>16. Last(p) = p[l + j]
    BY <1>2 DEF Last
<1>17. QED
    BY <1>1, <1>3, <1>4, <1>6, <1>14, <1>15, <1>16

\* The message in a whole event, or what is left of it.
LEMMA PreMessage ==
    ASSUME NEW l \in {0, 1}, NEW m \in DOMAIN Body
    PROVE  /\ ~TooShort(Pre(l, 3, m))
           /\ Message(Pre(l, 3, m)) = IF l = 0 THEN m ELSE Damaged
<1>1. PICK p : p = Pre(l, 3, m)
    OBVIOUS
<1>2. /\ p \in Seq(Tokens) /\ Len(p) = l + 3
      /\ \A i \in 1 .. l + 3 : p[i] = Five(m)[i + 1 - l]
    <2>1. 3 \in 0 .. 4
        OBVIOUS
    <2>2. QED
        BY <2>1, <1>1, PreFacts, ZenonT(30)
<1>3. ~TooShort(p)
    <2>1. Len(p) = 3 \/ Len(p) = 4
        BY <1>2
    <2>2. Len(<<>>) = 0 /\ Len(<<"LF">>) = 1 /\ Len(<<":">>) = 1 /\ Len(<<"data">>) = 1
        OBVIOUS
    <2>3. PICK a : a = <<"LF">>
        OBVIOUS
    <2>4. PICK b : b = <<":">>
        OBVIOUS
    <2>5. PICK c : c = <<"data">>
        OBVIOUS
    <2>6. Len(a) = 1 /\ Len(b) = 1 /\ Len(c) = 1
        BY <2>2, <2>3, <2>4, <2>5
    <2>7. p # <<>> /\ p # a /\ p # b /\ p # c
        <3>1. PICK n \in {3, 4} : Len(p) = n
            BY <2>1
        <3>2. p # <<>>
            BY <3>1
        <3>3. p # a /\ p # b /\ p # c
            <4>1. n # 1
                OBVIOUS
            <4>2. QED
                BY <2>6, <3>1, <4>1, Zenon
        <3>4. QED
            BY <3>2, <3>3
    <2>8. QED
        BY <2>3, <2>4, <2>5, <2>7, Zenon DEF TooShort
<1>4. CASE l = 0
    <2>1. /\ Len(p) = 3 /\ p[1] = "data" /\ p[2] = ":" /\ p[3] = m
        BY <1>2, <1>4, FiveFacts
    <2>2. PICK I : I = {i \in 3 .. Len(p) : p[i] # "LF"}
        OBVIOUS
    <2>3. I = {3}
        BY <2>1, <2>2, FiveFacts
    <2>4. Min(I) = 3
        BY <2>3 DEF Min
    <2>5. Message(p) = p[Min(I)]
        BY <2>1, <2>2 DEF Message
    <2>6. QED
        BY <1>1, <1>3, <1>4, <2>1, <2>4, <2>5
<1>5. CASE l = 1
    <2>1. p[1] = "LF"
        BY <1>2, <1>5, FiveFacts
    <2>2. Message(p) = Damaged
        BY <2>1 DEF Message
    <2>3. QED
        BY <1>1, <1>3, <1>5, <2>2
<1>6. QED
    BY <1>4, <1>5

-----------------------------------------------------------------------------
\* Framing.

U0 == [text |-> <<>>, cr |-> FALSE]

\* What is left over when a frame has been split is not changed when it is
\* unified and split once more with the next one.
Settled(s) ==
    /\ s \in Seq(Tokens)
    /\ FoldLeft(UnifyToken, U0, s) = [text |-> s, cr |-> FALSE]
    /\ Split(s) = [pieces |-> <<>>, last |-> s]

LEMMA Bases ==
    /\ U0 \in UnifyStates
    /\ [pieces |-> <<>>, last |-> <<>>] \in SplitStates
<1>1. <<>> \in Seq(Tokens)
    OBVIOUS
<1>2. PICK e \in Seq(Seq(Tokens)) : e = <<>>
    BY EmptySeq
<1>3. U0 \in UnifyStates
    BY <1>1 DEF U0, UnifyStates
<1>4. [pieces |-> e, last |-> <<>>] \in SplitStates
    BY <1>1 DEF SplitStates
<1>5. QED
    BY <1>2, <1>3, <1>4

LEMMA SplitAppend ==
    ASSUME NEW s \in Seq(Tokens), NEW x \in Tokens
    PROVE  /\ Split(<<>>) = [pieces |-> <<>>, last |-> <<>>]
           /\ Split(s) \in SplitStates
           /\ Split(Append(s, x)) = SplitToken(Split(s), x)
    BY Bases, SplitRules DEF Split

LEMMA UnifyAppend ==
    ASSUME NEW s \in Seq(Tokens), NEW x \in Tokens
    PROVE  /\ FoldLeft(UnifyToken, U0, <<>>) = U0
           /\ FoldLeft(UnifyToken, U0, s) \in UnifyStates
           /\ FoldLeft(UnifyToken, U0, Append(s, x)) = UnifyToken(FoldLeft(UnifyToken, U0, s), x)
    BY Bases, UnifyRules

LEMMA SettledEmpty == Settled(<<>>)
<1>1. <<>> \in Seq(Tokens) /\ "LF" \in Tokens
    BY DEF Tokens
<1>2. FoldLeft(UnifyToken, U0, <<>>) = U0
    BY <1>1, UnifyAppend
<1>3. Split(<<>>) = [pieces |-> <<>>, last |-> <<>>]
    BY <1>1, SplitAppend
<1>4. QED
    BY <1>1, <1>2, <1>3 DEF Settled, U0

LEMMA SettledAppend ==
    ASSUME NEW s, Settled(s), NEW x \in Tokens, x # "CR",
           ~(x = "LF" /\ s # <<>> /\ Last(s) = "LF")
    PROVE  Settled(Append(s, x))
<1>1. s \in Seq(Tokens) /\ Append(s, x) \in Seq(Tokens)
    BY AppendProperties DEF Settled
<1>2. PICK u : u = FoldLeft(UnifyToken, U0, s)
    OBVIOUS
<1>3. u.text = s /\ u.cr = FALSE
    BY <1>2 DEF Settled
<1>4. FoldLeft(UnifyToken, U0, Append(s, x)) = UnifyToken(u, x)
    BY <1>1, <1>2, UnifyAppend
<1>5. UnifyToken(u, x) = [text |-> Append(s, x), cr |-> FALSE]
    BY <1>3 DEF UnifyToken
<1>6. PICK v : v = Split(s)
    OBVIOUS
<1>7. v.pieces = <<>> /\ v.last = s
    BY <1>6 DEF Settled
<1>8. Split(Append(s, x)) = SplitToken(v, x)
    BY <1>1, <1>6, SplitAppend
<1>9. SplitToken(v, x) = [pieces |-> <<>>, last |-> Append(s, x)]
    BY <1>7 DEF SplitToken
<1>10. QED
    BY <1>1, <1>4, <1>5, <1>8, <1>9 DEF Settled

\* What a token does to a split: it ends a piece or makes the last one longer.
Ends(s, y) == y = "LF" /\ s.last # <<>> /\ Last(s.last) = "LF"

LEMMA SplitGrows ==
    ASSUME NEW s \in SplitStates, NEW y \in Tokens, ~Ends(s, y)
    PROVE  /\ SplitToken(s, y).pieces = s.pieces
           /\ SplitToken(s, y).last = Append(s.last, y)
    BY DEF SplitToken, Ends

LEMMA SplitEnds ==
    ASSUME NEW s \in SplitStates, NEW y \in Tokens, Ends(s, y)
    PROVE  /\ SplitToken(s, y).pieces = Append(s.pieces, Front(s.last))
           /\ SplitToken(s, y).last = <<>>
    BY DEF SplitToken, Ends

\* Where a frame can end: o tokens into event i + 1, n messages complete and
\* l line feeds too many before the next.  Only a CR parted from its LF makes
\* a line feed too many.
Spot(i, o, n, l, last) ==
    /\ l = 1 => parted /\ n >= 1
    /\ o # 0 => i < Len(msgs)
    /\ \/ o = 0 /\ n = i /\ last = Lead(l)
       \/ o \in 1 .. 4 /\ n = i /\ last = Pre(l, o, msgs[i + 1])
       \/ o = 5 /\ n = i /\ last = Pre(l, 4, msgs[i + 1])
       \/ o = 5 /\ n = i + 1 /\ l = 0 /\ last = Lead(l) /\ parted
       \/ o = 6 /\ n = i + 1 /\ last = Lead(l)

Placed(q, n, last) ==
    \E i \in 0 .. Len(msgs), o \in 0 .. EventLen - 1, l \in {0, 1} :
        q = i * EventLen + o /\ Spot(i, o, n, l, last)

\* Piece k is message n + k, or what a line feed too many left of it.
GoodPiece(piece, i) ==
    /\ i \in 1 .. Len(msgs) /\ ~TooShort(piece)
    /\ Message(piece) \in {msgs[i], Damaged}
    /\ ~parted \/ i = 1 => Message(piece) = msgs[i]
GoodPieces(pieces, n) == \A k \in 1 .. Len(pieces) : GoodPiece(pieces[k], n + k)

BadPiece(pieces) == \E k \in 1 .. Len(pieces) : TooShort(pieces[k])

\* A frame of which the tokens up to number q have been unified, as u, and
\* split, as s; n messages had been passed on before it.
FrameAt(q, u, s, n) ==
    /\ u \in UnifyStates /\ s \in SplitStates
    /\ u.cr <=> (q > pos /\ Wire[q] = "CR")
    /\ Settled(s.last)
    /\ \/ parted /\ BadPiece(s.pieces)
       \/ GoodPieces(s.pieces, n) /\ Placed(q, n + Len(s.pieces), s.last)

PartedKnown ==
    pos \in 1 .. Len(Wire) - 1 /\ Wire[pos] = "CR" /\ Wire[pos + 1] = "LF" => parted

\* One more token.
Unified(x) == IF x = "CR" THEN "LF" ELSE x
Fed(u, s, x) == IF x = "LF" /\ u.cr THEN s ELSE SplitToken(s, Unified(x))

LEMMA GoodAppend ==
    ASSUME NEW pieces \in Seq(Seq(Tokens)), NEW n \in Nat, GoodPieces(pieces, n),
           NEW piece \in Seq(Tokens), GoodPiece(piece, n + Len(pieces) + 1)
    PROVE  GoodPieces(Append(pieces, piece), n)
<1>1. PICK Q : Q = Seq(Tokens)
    OBVIOUS
<1>2. PICK c \in Nat : c = Len(pieces)
    BY LenProperties
<1>3. PICK a : a = Append(pieces, piece)
    OBVIOUS
<1>4. Len(a) = c + 1 /\ a[c + 1] = piece /\ \A k \in 1 .. c : a[k] = pieces[k]
    BY <1>1, <1>2, <1>3, AppendProperties
<1>5. \A k \in 1 .. c + 1 : k \in 1 .. c \/ k = c + 1
    OBVIOUS
<1>6. n + (c + 1) = n + c + 1
    OBVIOUS
<1>7. QED
    BY <1>2, <1>3, <1>4, <1>5, <1>6 DEF GoodPieces

LEMMA BadStays ==
    ASSUME NEW s \in SplitStates, NEW y \in Tokens, BadPiece(s.pieces)
    PROVE  BadPiece(SplitToken(s, y).pieces)
<1>1. CASE ~Ends(s, y)
    BY <1>1, SplitGrows
<1>2. CASE Ends(s, y)
    <2>1. PICK Q : Q = Seq(Tokens)
        OBVIOUS
    <2>2. PICK p \in Seq(Q) : p = s.pieces
        BY <2>1 DEF SplitStates
    <2>3. PICK f : f = Front(s.last)
        OBVIOUS
    <2>4. SplitToken(s, y).pieces = Append(p, f)
        BY <1>2, <2>2, <2>3, SplitEnds
    <2>5. f \in Q
        BY <1>2, <2>1, <2>3 DEF SplitStates, Front
    <2>6. PICK c \in Nat : c = Len(p)
        BY LenProperties
    <2>7. Len(Append(p, f)) = c + 1 /\ \A k \in 1 .. c : Append(p, f)[k] = p[k]
        BY <2>2, <2>5, <2>6, AppendProperties
    <2>8. PICK k \in 1 .. c : TooShort(p[k])
        BY <2>2, <2>6 DEF BadPiece
    <2>9. k \in 1 .. c + 1 /\ Append(p, f)[k] = p[k]
        BY <2>7
    <2>10. QED
        BY <2>4, <2>7, <2>8, <2>9 DEF BadPiece
<1>3. QED
    BY <1>1, <1>2

LEMMA WireAt ==
    ASSUME FixedOK, NEW i \in 0 .. Len(msgs), NEW o \in 0 .. EventLen - 1,
           NEW q, q = i * EventLen + o, q < Len(Wire)
    PROVE  /\ i \in 0 .. Len(msgs) - 1 /\ q \in Nat
           /\ msgs[i + 1] \in DOMAIN Body
           /\ Wire[q + 1] = Event(msgs[i + 1])[o + 1]
           /\ Wire[q + 1] \in Tokens
           /\ o # 0 => Wire[q] = Event(msgs[i + 1])[o]
           /\ EventIs(Event(msgs[i + 1]), msgs[i + 1])
<1>1. PICK n \in Nat : n = Len(msgs) /\ \A k \in 1 .. n : msgs[k] \in DOMAIN Body
    BY LenProperties, ElementOfSeq DEF FixedOK
<1>2. PICK w : w = Wire
    OBVIOUS
<1>3. w \in Seq(Tokens) /\ Len(w) = n * EventLen
      /\ \A k \in 0 .. n - 1 : \A r \in 1 .. EventLen : w[k * EventLen + r] = Event(msgs[k + 1])[r]
    BY <1>1, <1>2, WireFacts DEF WireOf
<1>4. EventLen = 5 \/ EventLen = 7
    BY EventLength
<1>5. i \in 0 .. n - 1 /\ q \in Nat
    <2>1. CASE EventLen = 5
        BY <1>1, <1>2, <1>3, <2>1
    <2>2. CASE EventLen = 7
        BY <1>1, <1>2, <1>3, <2>2
    <2>3. QED
        BY <1>4, <2>1, <2>2
<1>6. msgs[i + 1] \in DOMAIN Body
    BY <1>1, <1>5
<1>7. EventIs(Event(msgs[i + 1]), msgs[i + 1])
    BY <1>6, EventFacts
<1>8. o + 1 \in 1 .. EventLen /\ i * EventLen + (o + 1) = q + 1
    <2>1. CASE EventLen = 5
        BY <1>5, <2>1
    <2>2. CASE EventLen = 7
        BY <1>5, <2>2
    <2>3. QED
        BY <1>4, <2>1, <2>2
<1>9. w[q + 1] = Event(msgs[i + 1])[o + 1]
    BY <1>3, <1>5, <1>8
<1>10. w[q + 1] \in Tokens
    <2>1. PICK c \in Nat : c = Len(w)
        BY <1>3, LenProperties
    <2>2. q + 1 \in 1 .. c
        BY <1>2, <1>5, <2>1
    <2>3. QED
        BY <1>3, <2>1, <2>2, ElementOfSeq
<1>11. ASSUME o # 0
       PROVE  w[q] = Event(msgs[i + 1])[o]
    <2>1. o \in 1 .. EventLen
        BY <1>4, <1>11
    <2>2. QED
        BY <1>3, <1>5, <2>1
<1>12. QED
    BY <1>1, <1>2, <1>5, <1>6, <1>7, <1>9, <1>10, <1>11

LEMMA Onward ==
    ASSUME FixedOK, NEW i \in 0 .. Len(msgs) - 1, NEW o \in 0 .. EventLen - 1,
           NEW n, NEW l \in {0, 1}, NEW last, NEW q, q = i * EventLen + o,
           \/ o + 1 < EventLen /\ Spot(i, o + 1, n, l, last)
           \/ o + 1 = EventLen /\ Spot(i + 1, 0, n, l, last)
    PROVE  Placed(q + 1, n, last)
<1>1. PICK c \in Nat : c = Len(msgs)
    BY LenProperties DEF FixedOK
<1>2. PICK L \in {5, 7} : L = EventLen
    BY EventLength
<1>3. CASE o + 1 < L /\ Spot(i, o + 1, n, l, last)
    <2>1. /\ i \in 0 .. c /\ o + 1 \in 0 .. L - 1 /\ q + 1 = i * L + (o + 1)
        <3>1. CASE L = 5
            BY <1>1, <1>2, <1>3, <3>1
        <3>2. CASE L = 7
            BY <1>1, <1>2, <1>3, <3>2
        <3>3. QED
            BY <3>1, <3>2
    <2>2. QED
        BY <1>1, <1>2, <1>3, <2>1, Zenon DEF Placed
<1>4. CASE o + 1 = L /\ Spot(i + 1, 0, n, l, last)
    <2>1. /\ i + 1 \in 0 .. c /\ 0 \in 0 .. L - 1 /\ q + 1 = (i + 1) * L + 0
        <3>1. CASE L = 5
            BY <1>1, <1>2, <1>4, <3>1
        <3>2. CASE L = 7
            BY <1>1, <1>2, <1>4, <3>2
        <3>3. QED
            BY <3>1, <3>2
    <2>2. QED
        BY <1>1, <1>2, <1>4, <2>1, Zenon DEF Placed
<1>5. QED
    BY <1>2, <1>3, <1>4

LEMMA WholePiece ==
    ASSUME FixedOK, NEW i \in 0 .. Len(msgs) - 1, NEW l \in {0, 1}, l = 1 => parted /\ i >= 1
    PROVE  /\ GoodPiece(Pre(l, 3, msgs[i + 1]), i + 1)
           /\ Pre(l, 4, msgs[i + 1]) # <<>> /\ Last(Pre(l, 4, msgs[i + 1])) = "LF"
           /\ Front(Pre(l, 4, msgs[i + 1])) = Pre(l, 3, msgs[i + 1])
<1>1. PICK c \in Nat : c = Len(msgs) /\ \A k \in 1 .. c : msgs[k] \in DOMAIN Body
    BY LenProperties, ElementOfSeq DEF FixedOK
<1>2. i + 1 \in 1 .. c
    BY <1>1
<1>3. PICK m \in DOMAIN Body : m = msgs[i + 1]
    BY <1>1, <1>2
<1>4. ~TooShort(Pre(l, 3, m)) /\ Message(Pre(l, 3, m)) = IF l = 0 THEN m ELSE Damaged
    BY PreMessage
<1>5. ~parted \/ i + 1 = 1 => l = 0
    BY <1>1
<1>6. GoodPiece(Pre(l, 3, m), i + 1)
    BY <1>1, <1>2, <1>3, <1>4, <1>5 DEF GoodPiece
<1>7. 4 \in 1 .. 4
    OBVIOUS
<1>8. /\ Pre(l, 4, m) # <<>> /\ Last(Pre(l, 4, m)) = Five(m)[4 + 1]
      /\ Front(Pre(l, 4, m)) = Pre(l, 3, m)
    BY <1>7, PreLast
<1>9. Five(m)[4 + 1] = "LF"
    BY FiveFacts
<1>10. QED
    BY <1>3, <1>6, <1>8, <1>9

\* What one token makes of a spot.
Outcome(q, n, s, cr, x) ==
    \/ x = "LF" /\ cr /\ Placed(q + 1, n, s.last)
    \/ /\ ~(x = "LF" /\ cr) /\ ~Ends(s, Unified(x))
       /\ Placed(q + 1, n, Append(s.last, Unified(x)))
    \/ /\ ~(x = "LF" /\ cr) /\ Ends(s, Unified(x))
       /\ GoodPiece(Front(s.last), n + 1) /\ Placed(q + 1, n + 1, <<>>)
    \/ /\ ~(x = "LF" /\ cr) /\ Ends(s, Unified(x))
       /\ parted /\ TooShort(Front(s.last))

\* The first four tokens of an event make the last piece longer.
LEMMA EarlyToken ==
    ASSUME FixedOK, NEW i \in 0 .. Len(msgs) - 1, NEW o \in 0 .. 3, NEW l \in {0, 1},
           NEW s \in SplitStates, NEW cr, NEW q, q = i * EventLen + o, q < Len(Wire),
           l = 1 => parted /\ i >= 1, s.last = Pre(l, o, msgs[i + 1]),
           cr => q \in Nat /\ q # 0 /\ Wire[q] = "CR"
    PROVE  Outcome(q, i, s, cr, Wire[q + 1])
<1>1. PICK c \in Nat : c = Len(msgs)
    BY LenProperties DEF FixedOK
<1>2. EventLen = 5 \/ EventLen = 7
    BY EventLength
<1>3. i \in 0 .. c /\ o \in 0 .. EventLen - 1 /\ i < c /\ o + 1 < EventLen
    BY <1>1, <1>2, SMTT(30)
<1>4. PICK m : m = msgs[i + 1]
    OBVIOUS
<1>5. PICK e : e = Event(m)
    OBVIOUS
<1>6. PICK x : x = Wire[q + 1]
    OBVIOUS
<1>7. /\ m \in DOMAIN Body /\ x = e[o + 1] /\ (o # 0 => Wire[q] = e[o])
      /\ EventIs(e, m)
    BY <1>1, <1>3, <1>4, <1>5, <1>6, WireAt
<1>8. /\ m # "LF" /\ m # "CR"
      /\ Five(m)[2] = "data" /\ Five(m)[3] = ":" /\ Five(m)[4] = m /\ Five(m)[5] = "LF"
    BY <1>7, FiveFacts
<1>9. Unified(x) = Five(m)[o + 2]
    <2>1. CASE o = 0
        BY <1>7, <1>8, <2>1, SMTT(30) DEF EventIs, Unified
    <2>2. CASE o = 1
        BY <1>7, <1>8, <2>2, SMTT(30) DEF EventIs, Unified
    <2>3. CASE o = 2
        BY <1>7, <1>8, <2>3 DEF EventIs, Unified
    <2>4. CASE o = 3
        BY <1>7, <1>8, <2>4, SMTT(30) DEF EventIs, Unified
    <2>5. QED
        BY <2>1, <2>2, <2>3, <2>4
<1>10. ~(x = "LF" /\ cr)
    <2>1. CASE o = 0
        BY <1>7, <1>8, <2>1 DEF EventIs
    <2>2. CASE o = 1
        BY <1>7, <1>8, <2>2 DEF EventIs
    <2>3. CASE o = 2
        BY <1>7, <1>8, <2>3 DEF EventIs
    <2>4. CASE o = 3
        BY <1>7, <1>8, <2>4 DEF EventIs
    <2>5. QED
        BY <2>1, <2>2, <2>3, <2>4
<1>11. ~Ends(s, Unified(x))
    <2>1. CASE o = 3
        <3>1. 3 \in 1 .. 4
            OBVIOUS
        <3>2. Last(Pre(l, 3, m)) = Five(m)[3 + 1]
            BY <1>7, <3>1, PreLast
        <3>3. Last(s.last) = m
            BY <1>4, <1>8, <2>1, <3>2
        <3>4. QED
            BY <1>8, <3>3 DEF Ends
    <2>2. CASE o # 3
        <3>1. Unified(x) # "LF"
            BY <1>8, <1>9, <2>2, SMTT(30)
        <3>2. QED
            BY <3>1 DEF Ends
    <2>3. QED
        BY <2>1, <2>2
<1>12. PICK last : last = Append(s.last, Unified(x))
    OBVIOUS
<1>13. last = Pre(l, o + 1, m)
    BY <1>4, <1>7, <1>9, <1>12, PreAppend
<1>14. Spot(i, o + 1, i, l, last)
    <2>1. o + 1 \in 1 .. 4 /\ o + 1 # 0
        OBVIOUS
    <2>2. QED
        BY <1>1, <1>3, <1>4, <1>13, <2>1 DEF Spot
<1>15. Placed(q + 1, i, last)
    BY <1>3, <1>14, Onward
<1>16. QED
    BY <1>6, <1>10, <1>11, <1>12, <1>15 DEF Outcome

LEMMA LeadValues ==
    /\ Lead(0) = <<>> /\ Lead(1) = <<"LF">> /\ Append(<<>>, "LF") = Lead(1)
    /\ Lead(1) # <<>> /\ Last(Lead(1)) = "LF" /\ Front(Lead(1)) = <<>>
<1>1. PICK f \in Seq(Tokens) : f = <<"LF">>
    <2>1. "LF" \in Tokens
        BY DEF Tokens
    <2>2. <<"LF">> \in Seq(Tokens)
        BY <2>1
    <2>3. QED
        BY <2>2
<1>2. Len(f) = 1 /\ f[1] = "LF"
    BY <1>1
<1>3. f # <<>> /\ Last(f) = "LF"
    BY <1>2 DEF Last
<1>4. Front(f) = <<>>
    <2>1. Front(f) = SubSeq(f, 1, 0)
        BY <1>2 DEF Front
    <2>2. QED
        BY <1>1, <2>1, EmptySeq
<1>5. Append(<<>>, "LF") = <<"LF">>
    OBVIOUS
<1>6. QED
    BY <1>1, <1>3, <1>4, <1>5 DEF Lead

\* A line feed after a whole event completes it.
LEMMA EventEnds ==
    ASSUME FixedOK, NEW i \in 0 .. Len(msgs) - 1, NEW o \in 0 .. EventLen - 1,
           NEW l \in {0, 1}, NEW s \in SplitStates, NEW cr, NEW q, q = i * EventLen + o,
           l = 1 => parted /\ i >= 1, s.last = Pre(l, 4, msgs[i + 1]),
           NEW x, ~(x = "LF" /\ cr), Unified(x) = "LF",
           \/ o = 4 /\ EventLen = 5
           \/ o = 4 /\ EventLen = 7 /\ parted
           \/ o = 5 /\ EventLen = 7
    PROVE  Outcome(q, i, s, cr, x)
<1>1. PICK c \in Nat : c = Len(msgs)
    BY LenProperties DEF FixedOK
<1>2. Ends(s, Unified(x)) /\ GoodPiece(Front(s.last), i + 1)
    BY WholePiece DEF Ends
<1>3. Lead(0) = <<>>
    BY LeadValues
<1>4. \/ o + 1 < EventLen /\ Spot(i, o + 1, i + 1, 0, <<>>)
      \/ o + 1 = EventLen /\ Spot(i + 1, 0, i + 1, 0, <<>>)
    <2>1. CASE o = 4 /\ EventLen = 5
        BY <1>3, <2>1 DEF Spot
    <2>2. CASE o = 4 /\ EventLen = 7 /\ parted
        BY <1>1, <1>3, <2>2 DEF Spot
    <2>3. CASE o = 5 /\ EventLen = 7
        BY <1>1, <1>3, <2>3 DEF Spot
    <2>4. QED
        BY <2>1, <2>2, <2>3
<1>5. Placed(q + 1, i + 1, <<>>)
    <2>1. 0 \in {0, 1}
        OBVIOUS
    <2>2. QED
        BY <1>4, <2>1, Onward
<1>6. QED
    BY <1>2, <1>5 DEF Outcome

LEMMA LateToken ==
    ASSUME FixedOK, NEW i \in 0 .. Len(msgs) - 1, NEW o \in 4 .. EventLen - 1,
           NEW l \in {0, 1}, NEW n, NEW s \in SplitStates, NEW cr, NEW q,
           q = i * EventLen + o, q < Len(Wire),
           Spot(i, o, n, l, s.last),
           cr => Wire[q] = "CR",
           Wire[q] = "CR" /\ Wire[q + 1] = "LF" => cr \/ parted
    PROVE  Outcome(q, n, s, cr, Wire[q + 1])
<1>1. PICK c \in Nat : c = Len(msgs)
    BY LenProperties DEF FixedOK
<1>2. EventLen = 5 \/ EventLen = 7
    BY EventLength
<1>3. i \in 0 .. c /\ o \in 0 .. EventLen - 1 /\ i < c /\ o # 0 /\ o \in {4, 5, 6}
    BY <1>1, <1>2, SMTT(30)
<1>4. PICK m : m = msgs[i + 1]
    OBVIOUS
<1>5. PICK e : e = Event(m)
    OBVIOUS
<1>6. PICK x : x = Wire[q + 1]
    OBVIOUS
<1>7. /\ m \in DOMAIN Body /\ x = e[o + 1] /\ Wire[q] = e[o] /\ EventIs(e, m)
    BY <1>1, <1>3, <1>4, <1>5, <1>6, WireAt
<1>8. CASE o = 4 /\ EventLen = 5
    <2>1. n = i /\ s.last = Pre(l, 4, m) /\ (l = 1 => parted /\ i >= 1)
        BY <1>4, <1>8 DEF Spot
    <2>2. ~(x = "LF" /\ cr) /\ Unified(x) = "LF"
        BY <1>7, <1>8 DEF EventIs, Unified
    <2>3. QED
        BY <1>3, <1>4, <1>6, <1>8, <2>1, <2>2, EventEnds
<1>9. CASE o = 4 /\ EventLen = 7
    <2>1. n = i /\ s.last = Pre(l, 4, m) /\ (l = 1 => parted /\ i >= 1)
        BY <1>4, <1>9 DEF Spot
    <2>2. x = "LF" /\ Wire[q] = "CR"
        BY <1>7, <1>9 DEF EventIs
    <2>3. CASE cr
        <3>1. Spot(i, o + 1, i, l, s.last) /\ o + 1 < EventLen
            BY <1>1, <1>3, <1>4, <1>9, <2>1 DEF Spot
        <3>2. Placed(q + 1, i, s.last)
            BY <1>3, <3>1, Onward
        <3>3. QED
            BY <1>6, <2>1, <2>2, <2>3, <3>2 DEF Outcome
    <2>4. CASE ~cr
        <3>1. parted /\ Unified(x) = "LF"
            BY <1>6, <2>2, <2>4 DEF Unified
        <3>2. QED
            BY <1>3, <1>4, <1>6, <1>9, <2>1, <2>4, <3>1, EventEnds
    <2>5. QED
        BY <2>3, <2>4
<1>10. CASE o = 5
    <2>1. EventLen = 7 /\ x = "CR" /\ Unified(x) = "LF" /\ o + 1 < EventLen
        BY <1>2, <1>7, <1>10, SMTT(30) DEF EventIs, Unified
    <2>2. CASE n = i /\ s.last = Pre(l, 4, m)
        <3>1. l = 1 => parted /\ i >= 1
            BY <2>2 DEF Spot
        <3>2. x # "LF"
            BY <2>1
        <3>3. QED
            BY <1>3, <1>4, <1>6, <1>10, <2>1, <2>2, <3>1, <3>2, EventEnds
    <2>3. CASE n = i + 1 /\ l = 0 /\ s.last = Lead(l) /\ parted
        <3>1. s.last = <<>> /\ Append(s.last, "LF") = Lead(1)
            BY <2>3, LeadValues
        <3>2. ~Ends(s, Unified(x))
            BY <3>1 DEF Ends
        <3>3. Spot(i, o + 1, n, 1, Lead(1))
            <4>1. o + 1 = 6 /\ n >= 1
                BY <1>10, <2>3
            <4>2. QED
                BY <1>1, <1>3, <2>3, <4>1 DEF Spot
        <3>4. Placed(q + 1, n, Lead(1))
            <4>1. 1 \in {0, 1}
                OBVIOUS
            <4>2. QED
                BY <1>3, <2>1, <3>3, <4>1, Onward
        <3>5. ~(x = "LF" /\ cr)
            BY <2>1
        <3>6. QED
            BY <1>6, <2>1, <3>1, <3>2, <3>4, <3>5 DEF Outcome
    <2>4. QED
        BY <1>4, <1>10, <2>2, <2>3 DEF Spot
<1>11. CASE o = 6
    <2>1. EventLen = 7 /\ x = "LF" /\ Wire[q] = "CR" /\ Unified(x) = "LF" /\ o + 1 = EventLen
        BY <1>2, <1>7, <1>11, SMTT(30) DEF EventIs, Unified
    <2>2. n = i + 1 /\ s.last = Lead(l) /\ (l = 1 => parted)
        BY <1>11 DEF Spot
    <2>3. CASE cr
        <3>1. Spot(i + 1, 0, n, l, s.last)
            BY <2>2 DEF Spot
        <3>2. Placed(q + 1, n, s.last)
            BY <1>3, <2>1, <3>1, Onward
        <3>3. QED
            BY <1>6, <2>1, <2>3, <3>2 DEF Outcome
    <2>4. CASE ~cr /\ l = 0
        <3>1. parted
            BY <1>6, <2>1, <2>4
        <3>2. s.last = <<>> /\ Append(s.last, "LF") = Lead(1)
            BY <2>2, <2>4, LeadValues
        <3>3. ~Ends(s, Unified(x))
            BY <3>2 DEF Ends
        <3>4. Spot(i + 1, 0, n, 1, Lead(1))
            BY <2>2, <3>1 DEF Spot
        <3>5. Placed(q + 1, n, Lead(1))
            <4>1. 1 \in {0, 1}
                OBVIOUS
            <4>2. QED
                BY <1>3, <2>1, <3>4, <4>1, Onward
        <3>6. QED
            BY <1>6, <2>1, <2>4, <3>2, <3>3, <3>5 DEF Outcome
    <2>5. CASE ~cr /\ l = 1
        <3>1. Ends(s, Unified(x)) /\ Front(s.last) = <<>>
            BY <2>1, <2>2, <2>5, LeadValues DEF Ends
        <3>2. TooShort(Front(s.last))
            BY <3>1, Zenon DEF TooShort
        <3>3. QED
            BY <1>6, <2>2, <2>5, <3>1, <3>2 DEF Outcome
    <2>6. QED
        BY <2>3, <2>4, <2>5
<1>12. QED
    BY <1>2, <1>3, <1>8, <1>9, <1>10, <1>11

LEMMA FrameStep ==
    ASSUME FixedOK, PartedKnown, pos \in Nat, NEW n \in Nat, NEW q \in Nat,
           pos <= q, q < Len(Wire), NEW u, NEW s, FrameAt(q, u, s, n)
    PROVE  FrameAt(q + 1, UnifyToken(u, Wire[q + 1]), Fed(u, s, Wire[q + 1]), n)
<1>1. u \in UnifyStates /\ s \in SplitStates /\ Settled(s.last)
    BY DEF FrameAt
<1>2. PICK x : x = Wire[q + 1]
    OBVIOUS
<1>3. x \in Tokens
    <2>1. PICK w \in Seq(Tokens) : w = Wire
        BY WireFacts DEF WireOf
    <2>2. PICK c \in Nat : c = Len(w)
        BY LenProperties
    <2>3. q + 1 \in 1 .. c
        BY <2>1, <2>2
    <2>4. QED
        BY <1>2, <2>1, <2>2, <2>3, ElementOfSeq
<1>4. PICK y : y = Unified(x)
    OBVIOUS
<1>5. y \in Tokens /\ y # "CR"
    BY <1>3, <1>4 DEF Unified, Tokens
<1>6. PICK v : v = UnifyToken(u, x)
    OBVIOUS
<1>7. v \in UnifyStates /\ (v.cr <=> x = "CR")
    BY <1>1, <1>3, <1>6, UnifyTokenType DEF UnifyToken
<1>8. q + 1 > pos
    OBVIOUS
<1>9. PICK r : r = Fed(u, s, x)
    OBVIOUS
<1>10. r \in SplitStates
    BY <1>1, <1>4, <1>5, <1>9, SplitTokenType DEF Fed
<1>11. Settled(r.last)
    <2>1. CASE x = "LF" /\ u.cr
        BY <1>1, <1>9, <2>1 DEF Fed
    <2>2. CASE ~(x = "LF" /\ u.cr) /\ ~Ends(s, y)
        <3>1. r.last = Append(s.last, y)
            BY <1>1, <1>4, <1>5, <1>9, <2>2, SplitGrows DEF Fed
        <3>2. PICK l : l = s.last
            OBVIOUS
        <3>3. Settled(Append(l, y))
            BY <1>1, <1>5, <2>2, <3>2, SettledAppend DEF Ends
        <3>4. QED
            BY <3>1, <3>2, <3>3
    <2>3. CASE ~(x = "LF" /\ u.cr) /\ Ends(s, y)
        BY <1>1, <1>4, <1>5, <1>9, <2>3, SplitEnds, SettledEmpty DEF Fed
    <2>4. QED
        BY <2>1, <2>2, <2>3
<1>12. \/ parted /\ BadPiece(r.pieces)
       \/ GoodPieces(r.pieces, n) /\ Placed(q + 1, n + Len(r.pieces), r.last)
    <2>1. CASE parted /\ BadPiece(s.pieces)
        BY <1>1, <1>4, <1>5, <1>9, <2>1, BadStays DEF Fed
    <2>2. CASE GoodPieces(s.pieces, n) /\ Placed(q, n + Len(s.pieces), s.last)
        <3>1. PICK Q : Q = Seq(Tokens)
            OBVIOUS
        <3>2. PICK ps \in Seq(Q) : ps = s.pieces
            BY <1>1, <3>1 DEF SplitStates
        <3>3. PICK c \in Nat : c = Len(ps)
            BY LenProperties
        <3>4. PICK N \in Nat : N = n + c
            OBVIOUS
        <3>5. PICK i \in 0 .. Len(msgs), o \in 0 .. EventLen - 1, l \in {0, 1} :
                 q = i * EventLen + o /\ Spot(i, o, N, l, s.last)
            BY <2>2, <3>2, <3>3, <3>4 DEF Placed
        <3>6. i \in 0 .. Len(msgs) - 1 /\ msgs[i + 1] \in DOMAIN Body
            BY <3>5, WireAt
        <3>7. /\ u.cr => q # 0 /\ Wire[q] = "CR"
              /\ Wire[q] = "CR" /\ Wire[q + 1] = "LF" /\ q # 0 => u.cr \/ parted
            <4>1. u.cr <=> (q > pos /\ Wire[q] = "CR")
                BY DEF FrameAt
            <4>2. u.cr => q # 0 /\ Wire[q] = "CR"
                BY <4>1
            <4>3. ASSUME Wire[q] = "CR", Wire[q + 1] = "LF", q # 0, ~u.cr
                  PROVE  parted
                <5>1. q = pos
                    BY <4>1, <4>3
                <5>2. pos \in 1 .. Len(Wire) - 1
                    <6>1. PICK w \in Nat : w = Len(Wire)
                        BY WireFacts, LenProperties DEF WireOf
                    <6>2. QED
                        BY <4>3, <5>1, <6>1
                <5>3. QED
                    BY <4>3, <5>1, <5>2 DEF PartedKnown
            <4>4. QED
                BY <4>2, <4>3
        <3>8. Outcome(q, N, s, u.cr, x)
            <4>1. PICK L \in {5, 7} : L = EventLen
                BY EventLength
            <4>2. CASE o \in 0 .. 3
                <5>1. N = i /\ (l = 1 => parted /\ i >= 1)
                    BY <3>5, <4>2 DEF Spot
                <5>2. s.last = Pre(l, o, msgs[i + 1])
                    <6>1. CASE o = 0
                        BY <3>5, <3>6, <6>1, LeadFacts DEF Spot
                    <6>2. CASE o # 0
                        BY <3>5, <4>2, <6>2 DEF Spot
                    <6>3. QED
                        BY <6>1, <6>2
                <5>3. QED
                    BY <1>1, <1>2, <3>5, <3>6, <3>7, <4>2, <5>1, <5>2, EarlyToken
            <4>3. CASE ~(o \in 0 .. 3)
                <5>1. o \in 4 .. EventLen - 1
                    BY <3>5, <4>1, <4>3
                <5>2. q # 0
                    <6>1. i \in Nat /\ o \in 4 .. L - 1
                        BY <3>5, <4>1, <5>1
                    <6>2. CASE L = 5
                        BY <3>5, <4>1, <6>1, <6>2
                    <6>3. CASE L = 7
                        BY <3>5, <4>1, <6>1, <6>3
                    <6>4. QED
                        BY <6>2, <6>3
                <5>3. QED
                    BY <1>1, <1>2, <3>5, <3>6, <3>7, <5>1, <5>2, LateToken
            <4>4. QED
                BY <4>2, <4>3
        <3>9. CASE x = "LF" /\ u.cr /\ Placed(q + 1, N, s.last)
            <4>1. r = s
                BY <1>9, <3>9 DEF Fed
            <4>2. QED
                BY <2>2, <3>2, <3>3, <3>4, <3>9, <4>1
        <3>10. CASE /\ ~(x = "LF" /\ u.cr) /\ ~Ends(s, y)
                    /\ Placed(q + 1, N, Append(s.last, y))
            <4>1. r.pieces = ps /\ r.last = Append(s.last, y)
                BY <1>1, <1>4, <1>5, <1>9, <3>2, <3>10, SplitGrows DEF Fed
            <4>2. QED
                BY <2>2, <3>2, <3>3, <3>4, <3>10, <4>1
        <3>11. CASE /\ ~(x = "LF" /\ u.cr) /\ Ends(s, y)
                    /\ \/ GoodPiece(Front(s.last), N + 1) /\ Placed(q + 1, N + 1, <<>>)
                       \/ parted /\ TooShort(Front(s.last))
            <4>1. PICK f : f = Front(s.last)
                OBVIOUS
            <4>2. f \in Q
                BY <1>1, <3>1, <3>11, <4>1 DEF SplitStates, Front, Ends
            <4>3. PICK a : a = Append(ps, f)
                OBVIOUS
            <4>4. r.pieces = a /\ r.last = <<>>
                BY <1>1, <1>4, <1>5, <1>9, <3>2, <3>11, <4>1, <4>3, SplitEnds DEF Fed
            <4>5. Len(a) = c + 1 /\ a[c + 1] = f
                BY <3>2, <3>3, <4>2, <4>3, AppendProperties
            <4>6. CASE GoodPiece(f, N + 1) /\ Placed(q + 1, N + 1, <<>>)
                <5>1. N + 1 = n + Len(ps) + 1 /\ N + 1 = n + Len(a)
                    BY <3>3, <3>4, <4>5
                <5>2. GoodPieces(a, n)
                    BY <2>2, <3>1, <3>2, <4>2, <4>3, <4>6, <5>1, GoodAppend
                <5>3. QED
                    BY <4>4, <4>6, <5>1, <5>2
            <4>7. CASE parted /\ TooShort(f)
                <5>1. c + 1 \in 1 .. Len(a)
                    BY <4>5
                <5>2. BadPiece(a)
                    BY <4>5, <4>7, <5>1 DEF BadPiece
                <5>3. QED
                    BY <4>4, <4>7, <5>2
            <4>8. QED
                BY <3>11, <4>1, <4>6, <4>7
        <3>12. QED
            BY <1>4, <3>8, <3>9, <3>10, <3>11 DEF Outcome
    <2>3. QED
        BY <2>1, <2>2 DEF FrameAt
<1>13. QED
    BY <1>2, <1>6, <1>7, <1>8, <1>9, <1>10, <1>11, <1>12 DEF FrameAt

\* Prefixes and concatenations, one element longer.
LEMMA SubSeqNext ==
    ASSUME NEW S, NEW seq \in Seq(S), NEW a \in Nat \ {0}, NEW b \in Nat,
           a <= b + 1, b < Len(seq)
    PROVE  /\ SubSeq(seq, a, b) \in Seq(S) /\ Len(SubSeq(seq, a, b)) = b + 1 - a
           /\ seq[b + 1] \in S
           /\ SubSeq(seq, a, b + 1) = Append(SubSeq(seq, a, b), seq[b + 1])
<1>1. PICK c \in Nat : c = Len(seq) /\ \A k \in 1 .. c : seq[k] \in S
    BY LenProperties, ElementOfSeq
<1>2. b + 1 \in 1 .. c /\ a \in Int /\ b \in Int /\ b + 1 \in Int
    BY <1>1
<1>3. PICK x \in S : x = seq[b + 1]
    BY <1>1, <1>2
<1>4. \A k \in a .. b : seq[k] \in S
    BY <1>1
<1>5. \A k \in a .. b + 1 : seq[k] \in S
    BY <1>1
<1>6. PICK s : s = SubSeq(seq, a, b)
    OBVIOUS
<1>7. /\ s \in Seq(S) /\ Len(s) = IF a <= b THEN b - a + 1 ELSE 0
      /\ \A k \in 1 .. b - a + 1 : s[k] = seq[a + k - 1]
    BY <1>2, <1>4, <1>6, SubSeqProperties
<1>8. PICK r : r = SubSeq(seq, a, b + 1)
    OBVIOUS
<1>9. /\ r \in Seq(S) /\ Len(r) = IF a <= b + 1 THEN (b + 1) - a + 1 ELSE 0
      /\ \A k \in 1 .. (b + 1) - a + 1 : r[k] = seq[a + k - 1]
    BY <1>2, <1>5, <1>8, SubSeqProperties
<1>10. PICK n \in Nat : n = b + 1 - a
    OBVIOUS
<1>11. Len(s) = n /\ Len(r) = n + 1
    BY <1>7, <1>9, <1>10
<1>12. PICK f : f = Append(s, x)
    OBVIOUS
<1>13. /\ f \in Seq(S) /\ Len(f) = n + 1 /\ f[n + 1] = x
       /\ \A k \in 1 .. n : f[k] = s[k]
    BY <1>7, <1>11, <1>12, AppendProperties
<1>14. ASSUME NEW k \in 1 .. n + 1
       PROVE  r[k] = f[k]
    <2>1. CASE k = n + 1
        BY <1>3, <1>9, <1>10, <1>13, <2>1
    <2>2. CASE k # n + 1
        BY <1>7, <1>9, <1>10, <1>13, <2>2
    <2>3. QED
        BY <2>1, <2>2
<1>15. r = f
    BY <1>9, <1>11, <1>13, <1>14, SeqEqual
<1>16. QED
    BY <1>3, <1>6, <1>7, <1>8, <1>10, <1>11, <1>12, <1>15

LEMMA ConcatAppend ==
    ASSUME NEW S, NEW a \in Seq(S), NEW b \in Seq(S), NEW x \in S
    PROVE  a \o Append(b, x) = Append(a \o b, x)
<1>1. <<x>> \in Seq(S)
    OBVIOUS
<1>2. Append(b, x) = b \o <<x>>
    BY AppendIsConcat
<1>3. a \o b \in Seq(S)
    BY ConcatProperties
<1>4. Append(a \o b, x) = (a \o b) \o <<x>>
    BY <1>3, AppendIsConcat
<1>5. (a \o b) \o <<x>> = a \o (b \o <<x>>)
    BY <1>1, ConcatAssociative
<1>6. QED
    BY <1>2, <1>4, <1>5

\* The bytes of a frame, after what was left over of the frames before it.
Joined(q) == remainBuf \o SubSeq(Wire, pos + 1, q)
JoinedAt(q, n) ==
    /\ Joined(q) \in Seq(Tokens)
    /\ FrameAt(q, FoldLeft(UnifyToken, U0, Joined(q)), Split(unifySSEChunk(Joined(q))), n)

LEMMA FrameStart ==
    ASSUME FixedOK, pos \in 0 .. Len(Wire), NEW n \in Nat,
           Settled(remainBuf), Placed(pos, n, remainBuf)
    PROVE  JoinedAt(pos, n)
<1>1. PICK b \in Seq(Tokens) : b = remainBuf
    BY DEF Settled
<1>2. pos \in Int /\ pos + 1 \in Int /\ pos < pos + 1
    <2>1. PICK w \in Nat : w = Len(Wire)
        BY WireFacts, LenProperties DEF WireOf
    <2>2. QED
        BY <2>1
<1>3. SubSeq(Wire, pos + 1, pos) = <<>>
    BY <1>2, SubSeqEmpty
<1>4. Joined(pos) = b
    BY <1>1, <1>3, ConcatEmptySeq DEF Joined
<1>5. PICK u : u = [text |-> b, cr |-> FALSE]
    OBVIOUS
<1>6. PICK e \in Seq(Seq(Tokens)) : e = <<>> /\ Len(e) = 0
    BY EmptySeq
<1>7. PICK s : s = [pieces |-> e, last |-> b]
    OBVIOUS
<1>8. FoldLeft(UnifyToken, U0, b) = u /\ Split(b) = s
    BY <1>1, <1>5, <1>6, <1>7 DEF Settled
<1>9. u.text = b /\ u.cr = FALSE /\ u \in UnifyStates
    BY <1>5 DEF UnifyStates
<1>10. s.pieces = e /\ s.last = b /\ s \in SplitStates
    BY <1>7 DEF SplitStates
<1>11. unifySSEChunk(b) = b
    BY <1>8, <1>9 DEF unifySSEChunk, U0
<1>12. GoodPieces(e, n)
    BY <1>6 DEF GoodPieces
<1>13. n + Len(e) = n
    BY <1>6
<1>14. FrameAt(pos, u, s, n)
    BY <1>1, <1>2, <1>9, <1>10, <1>12, <1>13 DEF FrameAt
<1>15. QED
    BY <1>4, <1>8, <1>11, <1>14 DEF JoinedAt

LEMMA FrameNext ==
    ASSUME FixedOK, PartedKnown, pos \in Nat, NEW n \in Nat, NEW q \in Nat,
           remainBuf \in Seq(Tokens), pos <= q, q < Len(Wire), JoinedAt(q, n)
    PROVE  JoinedAt(q + 1, n)
<1>1. PICK w \in Seq(Tokens) : w = Wire
    BY WireFacts DEF WireOf
<1>2. PICK a \in Nat \ {0} : a = pos + 1
    OBVIOUS
<1>3. a <= q + 1 /\ q < Len(w)
    BY <1>1, <1>2
<1>4. PICK x : x = w[q + 1]
    OBVIOUS
<1>5. /\ x \in Tokens /\ SubSeq(w, a, q) \in Seq(Tokens)
      /\ SubSeq(w, a, q + 1) = Append(SubSeq(w, a, q), x)
    BY <1>3, <1>4, SubSeqNext
<1>6. PICK d \in Seq(Tokens) : d = Joined(q)
    BY DEF JoinedAt
<1>7. Joined(q + 1) = Append(d, x)
    <2>1. PICK b \in Seq(Tokens) : b = remainBuf
        OBVIOUS
    <2>2. PICK g \in Seq(Tokens) : g = SubSeq(w, a, q)
        BY <1>5
    <2>3. Joined(q) = b \o g
        BY <1>1, <1>2, <2>1, <2>2 DEF Joined
    <2>4. Joined(q + 1) = b \o Append(g, x)
        BY <1>1, <1>2, <1>5, <2>1, <2>2 DEF Joined
    <2>5. b \o Append(g, x) = Append(b \o g, x)
        <3>1. PICK S : S = Tokens
            OBVIOUS
        <3>2. b \in Seq(S) /\ g \in Seq(S) /\ x \in S
            BY <1>5, <3>1
        <3>3. QED
            BY <3>2, ConcatAppend, SMTT(30)
    <2>6. QED
        BY <1>6, <2>3, <2>4, <2>5
<1>8. PICK u : u = FoldLeft(UnifyToken, U0, d)
    OBVIOUS
<1>9. u \in UnifyStates /\ FoldLeft(UnifyToken, U0, Append(d, x)) = UnifyToken(u, x)
    BY <1>5, <1>8, UnifyAppend
<1>10. PICK text \in Seq(Tokens) : text = u.text
    BY <1>9 DEF UnifyStates
<1>11. PICK s : s = Split(text)
    OBVIOUS
<1>12. FrameAt(q, u, s, n)
    BY <1>6, <1>8, <1>10, <1>11 DEF JoinedAt, unifySSEChunk, U0
<1>13. FrameAt(q + 1, UnifyToken(u, x), Fed(u, s, x), n)
    BY <1>1, <1>4, <1>12, FrameStep
<1>14. UnifyToken(u, x).text = IF x = "LF" /\ u.cr THEN text ELSE Append(text, Unified(x))
    BY <1>10 DEF UnifyToken, Unified
<1>15. Unified(x) \in Tokens
    BY <1>5 DEF Unified, Tokens
<1>16. Split(UnifyToken(u, x).text) = Fed(u, s, x)
    <2>1. CASE x = "LF" /\ u.cr
        BY <1>11, <1>14, <2>1 DEF Fed
    <2>2. CASE ~(x = "LF" /\ u.cr)
        <3>1. Split(Append(text, Unified(x))) = SplitToken(s, Unified(x))
            BY <1>11, <1>15, SplitAppend
        <3>2. QED
            BY <1>14, <2>2, <3>1 DEF Fed
    <2>3. QED
        BY <2>1, <2>2
<1>17. PICK f : f = Append(d, x)
    OBVIOUS
<1>18. f \in Seq(Tokens)
    BY <1>5, <1>17, AppendProperties
<1>19. unifySSEChunk(f) = UnifyToken(u, x).text
    BY <1>9, <1>17 DEF unifySSEChunk, U0
<1>20. QED
    BY <1>7, <1>9, <1>13, <1>16, <1>17, <1>18, <1>19 DEF JoinedAt

\* However the stream is cut, a frame is split into the events it completes.
LEMMA FrameFacts ==
    ASSUME FixedOK, PartedKnown, pos \in 0 .. Len(Wire), NEW n \in Nat,
           Settled(remainBuf), Placed(pos, n, remainBuf), NEW p \in pos .. Len(Wire)
    PROVE  JoinedAt(p, n)
<1>1. PICK w \in Nat : w = Len(Wire)
    BY WireFacts, LenProperties DEF WireOf
<1>2. pos \in Nat /\ p \in Nat /\ pos <= p /\ p <= w /\ remainBuf \in Seq(Tokens)
    BY <1>1 DEF Settled
<1>3. PICK c \in Nat : c = p - pos
    BY <1>2
<1> DEFINE T == {k \in 0 .. c : JoinedAt(pos + k, n)}
<1>4. 0 \in T
    <2>1. pos + 0 = pos
        BY <1>2
    <2>2. JoinedAt(pos + 0, n)
        BY <2>1, FrameStart
    <2>3. QED
        BY <2>2
<1>5. ASSUME NEW k \in 0 .. c - 1, k \in T
      PROVE  k + 1 \in T
    <2>1. PICK q \in Nat : q = pos + k
        BY <1>2
    <2>2. pos <= q /\ q < Len(Wire) /\ q + 1 = pos + (k + 1) /\ k + 1 \in 0 .. c
        BY <1>1, <1>2, <1>3, <2>1
    <2>3. JoinedAt(q, n)
        BY <1>5, <2>1
    <2>4. JoinedAt(q + 1, n)
        BY <1>2, <2>2, <2>3, FrameNext
    <2>5. QED
        BY <2>2, <2>4
<1>6. c \in T
    <2> HIDE DEF T
    <2>1. \A k \in 0 .. c : k \in T
        BY <1>4, <1>5, Induction
    <2>2. QED
        BY <2>1
<1>7. pos + c = p
    BY <1>2, <1>3
<1>8. QED
    BY <1>6, <1>7

-----------------------------------------------------------------------------
\* Several messages at once.

FoldSplits(base, a, b) ==
    Run(base, a \o b) =
        Run(Run(base, a), b)

\* Messages handled in two frames are handled as in one.
LEMMA FoldConcat ==
    ASSUME NEW S, NEW E, Closed(S, E), NEW base \in S, NEW a \in Seq(E), NEW b \in Seq(E)
    PROVE  FoldSplits(base, a, b)
<1>1. PICK c \in Nat : c = Len(b)
    BY LenProperties
<1> DEFINE T == {k \in 0 .. c : FoldSplits(base, a, SubSeq(b, 1, k))}
<1>2. PICK mid \in S : mid = Run(base, a)
    BY RunTyped
<1>3. 0 \in T
    <2>1. SubSeq(b, 1, 0) = <<>>
        BY SubSeqEmpty
    <2>2. a \o <<>> = a
        BY ConcatEmptySeq
    <2>3. Run(mid, <<>>) = mid
        BY RunTyped
    <2>4. FoldSplits(base, a, <<>>)
        BY <1>2, <2>2, <2>3 DEF FoldSplits
    <2>5. FoldSplits(base, a, SubSeq(b, 1, 0))
        BY <2>1, <2>4, Zenon
    <2>6. QED
        BY <2>5
<1>4. ASSUME NEW k \in 0 .. c - 1, k \in T
      PROVE  k + 1 \in T
    <2>1. k \in Nat /\ 1 \in Nat \ {0} /\ 1 <= k + 1 /\ k < Len(b) /\ k + 1 \in 0 .. c
        BY <1>1
    <2>2. PICK x : x = b[k + 1]
        OBVIOUS
    <2>3. PICK g : g = SubSeq(b, 1, k)
        OBVIOUS
    <2>4. g \in Seq(E) /\ x \in E /\ SubSeq(b, 1, k + 1) = Append(g, x)
        BY <2>1, <2>2, <2>3, SubSeqNext
    <2>5. FoldSplits(base, a, g)
        BY <1>4, <2>3
    <2>6. PICK h : h = a \o g
        OBVIOUS
    <2>7. h \in Seq(E)
        BY <2>4, <2>6, ConcatProperties
    <2>8. a \o Append(g, x) = Append(h, x)
        BY <2>4, <2>6, ConcatAppend
    <2>9. Run(base, Append(h, x)) =
              HandleMessage(Run(base, h), x)
        BY <2>4, <2>7, RunNext
    <2>10. Run(mid, Append(g, x)) =
              HandleMessage(Run(mid, g), x)
        BY <2>4, RunNext
    <2>11. FoldSplits(base, a, Append(g, x))
        BY <1>2, <2>5, <2>6, <2>8, <2>9, <2>10 DEF FoldSplits
    <2>12. QED
        BY <2>1, <2>4, <2>11
<1>5. c \in T
    <2> HIDE DEF T
    <2>1. \A k \in 0 .. c : k \in T
        BY <1>3, <1>4, Induction
    <2>2. QED
        BY <2>1
<1>6. SubSeq(b, 1, c) = b
    BY <1>1, SubSeqFull
<1>7. QED
    BY <1>5, <1>6

\* What a frame's messages ms add to the output: they follow, in order, what
\* was there, all of them unless one of them ended the response.
Adds(s, ms, r) ==
    /\ r \in LoggedStates
    /\ Len(r.out) \in Len(s.out) .. Len(s.out) + Len(ms)
    /\ \A i \in 1 .. Len(s.out) : r.out[i].msg = s.out[i].msg
    /\ \A k \in 1 .. Len(r.out) - Len(s.out) : r.out[Len(s.out) + k].msg = ms[k]
    /\ r.end = None => s.end = None /\ Len(r.out) = Len(s.out) + Len(ms)
    /\ r.end = "503" => s.end = "503"

LEMMA AddsNone ==
    ASSUME NEW s \in LoggedStates
    PROVE  Adds(s, <<>>, s)
<1>1. s.out \in Seq(OutItem)
    BY DEF LoggedStates, States
<1>2. PICK n \in Nat : n = Len(s.out)
    BY <1>1, LenProperties
<1>3. QED
    BY <1>2 DEF Adds

LEMMA AddsOne ==
    ASSUME NEW s \in LoggedStates, NEW ms \in Seq(Messages), NEW r, Adds(s, ms, r),
           NEW x \in Messages
    PROVE  Adds(s, Append(ms, x), HandleMessage(r, x))
<1>1. r \in LoggedStates /\ r \in States /\ r.out \in Seq(OutItem) /\ s.out \in Seq(OutItem)
    BY DEF LoggedStates, States, Adds
<1>2. PICK n \in Nat : n = Len(s.out)
    BY <1>1, LenProperties
<1>3. PICK c \in Nat : c = Len(ms)
    BY LenProperties
<1>4. PICK m \in Nat : m = Len(r.out)
    BY <1>1, LenProperties
<1>5. /\ m \in n .. n + c
      /\ \A i \in 1 .. n : r.out[i].msg = s.out[i].msg
      /\ \A k \in 1 .. m - n : r.out[n + k].msg = ms[k]
      /\ r.end = None => s.end = None /\ m = n + c
      /\ r.end = "503" => s.end = "503"
    BY <1>2, <1>3, <1>4 DEF Adds
<1>6. PICK f : f = Append(ms, x)
    OBVIOUS
<1>7. Len(f) = c + 1 /\ f[c + 1] = x /\ \A k \in 1 .. c : f[k] = ms[k]
    BY <1>3, <1>6, AppendProperties
<1>8. PICK v : v = HandleMessage(r, x)
    OBVIOUS
<1>9. v \in LoggedStates
    BY <1>1, <1>8, LogClosed DEF Closed
<1>10. CASE r.end # None
    <2>1. v = r
        BY <1>8, <1>10 DEF HandleMessage
    <2>2. m \in n .. n + (c + 1) /\ \A k \in 1 .. m - n : k \in 1 .. c
        BY <1>5
    <2>3. QED
        BY <1>2, <1>4, <1>5, <1>6, <1>7, <1>8, <1>9, <1>10, <2>1, <2>2, ZenonT(30) DEF Adds
<1>11. CASE r.end = None
    <2>1. v.end # "503" /\ \E choices : Handled(r, x, v, choices)
        BY <1>1, <1>8, <1>11, HandleFacts
    <2>2. PICK choices : Handled(r, x, v, choices)
        BY <2>1
    <2>3. PICK o : o = [msg |-> x, choices |-> choices]
        OBVIOUS
    <2>4. o \in OutItem /\ v.out = Append(r.out, o) /\ o.msg = x
        BY <2>2, <2>3 DEF Handled, OutItem
    <2>5. PICK old \in Seq(OutItem) : old = r.out
        BY <1>1
    <2>6. PICK new : new = Append(old, o)
        OBVIOUS
    <2>7. Len(new) = m + 1 /\ new[m + 1] = o /\ \A i \in 1 .. m : new[i] = old[i]
        BY <1>4, <2>4, <2>5, <2>6, AppendProperties
    <2>8. m = n + c /\ s.end = None
        BY <1>5, <1>11
    <2>9. \A i \in 1 .. n : new[i].msg = s.out[i].msg
        <3>1. \A i \in 1 .. n : i \in 1 .. m
            BY <2>8
        <3>2. QED
            BY <1>5, <2>5, <2>7, <3>1
    <2>10. \A k \in 1 .. m + 1 - n : new[n + k].msg = f[k]
        <3>1. SUFFICES ASSUME NEW k \in 1 .. m + 1 - n
                       PROVE  new[n + k].msg = f[k]
            OBVIOUS
        <3>2. CASE k = c + 1
            <4>1. n + k = m + 1
                BY <2>8, <3>2
            <4>2. QED
                BY <1>7, <2>4, <2>7, <3>2, <4>1
        <3>3. CASE k # c + 1
            <4>1. k \in 1 .. c /\ k \in 1 .. m - n /\ n + k \in 1 .. m
                BY <2>8, <3>3
            <4>2. QED
                BY <1>5, <1>7, <2>5, <2>7, <4>1
        <3>4. QED
            BY <3>2, <3>3
    <2>11. m + 1 \in n .. n + (c + 1) /\ m + 1 = n + (c + 1)
        BY <2>8
    <2>12. v.out = new
        BY <2>4, <2>5, <2>6
    <2>13. Adds(s, f, v)
        <3>1. Len(v.out) = m + 1 /\ Len(s.out) = n /\ Len(f) = c + 1
            BY <1>2, <1>7, <2>7, <2>12
        <3>2. \A i \in 1 .. Len(s.out) : v.out[i].msg = s.out[i].msg
            BY <2>9, <2>12, <3>1
        <3>3. \A k \in 1 .. Len(v.out) - Len(s.out) : v.out[Len(s.out) + k].msg = f[k]
            BY <2>10, <2>12, <3>1
        <3>4. Len(v.out) \in Len(s.out) .. Len(s.out) + Len(f)
              /\ Len(v.out) = Len(s.out) + Len(f)
            BY <2>11, <3>1
        <3>5. QED
            BY <1>9, <2>1, <2>8, <3>2, <3>3, <3>4, Zenon DEF Adds
    <2>14. QED
        BY <1>6, <1>8, <2>13
<1>12. QED
    BY <1>10, <1>11

LEMMA AddsAll ==
    ASSUME NEW s \in LoggedStates, NEW ms \in Seq(Messages)
    PROVE  Adds(s, ms, Run(s, ms))
<1>1. PICK c \in Nat : c = Len(ms)
    BY LenProperties
<1> DEFINE r(k) == Run(s, SubSeq(ms, 1, k))
           T == {k \in 0 .. c : Adds(s, SubSeq(ms, 1, k), r(k))}
<1>2. 0 \in T
    <2>1. SubSeq(ms, 1, 0) = <<>>
        BY SubSeqEmpty
    <2>2. Run(s, <<>>) = s
        BY LogClosed, RunTyped
    <2>3. Adds(s, SubSeq(ms, 1, 0), r(0))
        BY <2>1, <2>2, AddsNone
    <2> HIDE DEF r
    <2>4. QED
        BY <2>3
<1>3. ASSUME NEW k \in 0 .. c - 1, k \in T
      PROVE  k + 1 \in T
    <2>1. k \in Nat /\ 1 \in Nat \ {0} /\ 1 <= k + 1 /\ k < Len(ms) /\ k + 1 \in 0 .. c
        BY <1>1
    <2>2. PICK x : x = ms[k + 1]
        OBVIOUS
    <2>3. PICK g : g = SubSeq(ms, 1, k)
        OBVIOUS
    <2>4. g \in Seq(Messages) /\ x \in Messages /\ SubSeq(ms, 1, k + 1) = Append(g, x)
        BY <2>1, <2>2, <2>3, SubSeqNext
    <2>5. PICK v : v = Run(s, g)
        OBVIOUS
    <2>6. Adds(s, g, v)
        BY <1>3, <2>3, <2>5
    <2>7. Run(s, Append(g, x)) = HandleMessage(v, x)
        BY <2>4, <2>5, LogClosed, RunNext
    <2>8. Adds(s, Append(g, x), HandleMessage(v, x))
        BY <2>4, <2>6, AddsOne
    <2>9. Adds(s, SubSeq(ms, 1, k + 1), r(k + 1))
        BY <2>4, <2>7, <2>8
    <2> HIDE DEF r
    <2>10. QED
        BY <2>1, <2>9
<1>4. c \in T
    <2> HIDE DEF T
    <2>1. \A k \in 0 .. c : k \in T
        BY <1>2, <1>3, Induction
    <2>2. QED
        BY <2>1
<1>5. SubSeq(ms, 1, c) = ms
    BY <1>1, SubSeqFull
<1>6. QED
    BY <1>4, <1>5

\* A response that has ended takes no more messages.
LEMMA RunEnded ==
    ASSUME NEW s, s.end # None, NEW ms \in Seq(Messages)
    PROVE  Run(s, ms) = s
<1>1. Closed({s}, Messages)
    BY DEF Closed, HandleMessage
<1>2. s \in {s}
    OBVIOUS
<1>3. Run(s, ms) \in {s}
    BY <1>1, <1>2, RunTyped
<1>4. QED
    BY <1>3

\* A cut at q parts a CR from its LF.
Parts(q) == q \in 1 .. Len(Wire) - 1 /\ Wire[q] = "CR" /\ Wire[q + 1] = "LF"

\* How many messages a spot stands for.
LEMMA PlacedCount ==
    ASSUME FixedOK, NEW q \in 0 .. Len(Wire), NEW n, NEW last, Placed(q, n, last)
    PROVE  /\ n \in 0 .. Len(msgs) /\ n >= q \div EventLen
           /\ ~parted /\ ~Parts(q) => n = q \div EventLen
<1>1. PICK c \in Nat : c = Len(msgs)
    BY LenProperties DEF FixedOK
<1>2. PICK L \in {5, 7} : L = EventLen
    BY EventLength
<1>3. PICK i \in 0 .. c, o \in 0 .. L - 1, l \in {0, 1} :
         q = i * L + o /\ Spot(i, o, n, l, last)
    BY <1>1, <1>2 DEF Placed
<1>4. q \div EventLen = i
    <2>1. CASE L = 5
        BY <1>2, <1>3, <2>1
    <2>2. CASE L = 7
        BY <1>2, <1>3, <2>2
    <2>3. QED
        BY <2>1, <2>2
<1>5. n = i \/ (n = i + 1 /\ o # 0)
    BY <1>3 DEF Spot
<1>6. o # 0 => i < c
    BY <1>1, <1>3 DEF Spot
<1>7. n \in 0 .. c /\ n >= i
    BY <1>3, <1>5, <1>6
<1>8. ASSUME ~parted, ~Parts(q), n # i
      PROVE  FALSE
    <2>1. n = i + 1 /\ o # 0 /\ o = 6
        BY <1>3, <1>5, <1>8 DEF Spot
    <2>2. L = 7 /\ EventLen = 7
        BY <1>2, <1>3, <2>1
    <2>3. PICK w \in Nat : w = Len(Wire) /\ w = c * EventLen
        BY <1>1, <1>2, WireFacts, LenProperties DEF WireOf
    <2>4. q < w /\ q # 0 /\ i \in 0 .. Len(msgs) /\ o \in 0 .. EventLen - 1 /\ q = i * EventLen + o
        BY <1>1, <1>3, <1>6, <2>1, <2>2, <2>3
    <2>5. PICK e : e = Event(msgs[i + 1])
        OBVIOUS
    <2>6. /\ Wire[q + 1] = e[o + 1] /\ Wire[q] = e[o] /\ EventIs(e, msgs[i + 1])
        BY <2>1, <2>3, <2>4, <2>5, WireAt
    <2>7. Wire[q] = "CR" /\ Wire[q + 1] = "LF"
        BY <2>1, <2>2, <2>6 DEF EventIs
    <2>8. q \in 1 .. Len(Wire) - 1
        BY <2>3, <2>4
    <2>9. QED
        BY <1>8, <2>7, <2>8 DEF Parts
<1>9. QED
    BY <1>1, <1>4, <1>7, <1>8

LEMMA WireLength ==
    ASSUME FixedOK
    PROVE  /\ Len(Wire) \in Nat /\ Len(Wire) \div EventLen = Len(msgs)
           /\ Len(msgs) # 0 => Len(Wire) # 0
           /\ \A q \in 0 .. Len(Wire) : q \div EventLen \in 0 .. Len(msgs)
<1>1. PICK c \in Nat : c = Len(msgs)
    BY LenProperties DEF FixedOK
<1>2. PICK L \in {5, 7} : L = EventLen
    BY EventLength
<1>3. Len(Wire) = c * L
    BY <1>1, <1>2, WireFacts DEF WireOf
<1>4. CASE L = 5
    BY <1>1, <1>2, <1>3, <1>4
<1>5. CASE L = 7
    BY <1>1, <1>2, <1>3, <1>5
<1>6. QED
    BY <1>4, <1>5

\* What responseMessages finds in a frame that ends with token p, n messages
\* after the last one passed on.
FrameResult(p, n, r) ==
    /\ Settled(r.remainBuf)
    /\ r.err => parted
    /\ ~r.err =>
          /\ r.messages \in Seq(Messages)
          /\ Placed(p, n + Len(r.messages), r.remainBuf)
          /\ \A k \in 1 .. Len(r.messages) :
                /\ n + k \in 1 .. Len(msgs)
                /\ r.messages[k] \in {msgs[n + k], Damaged}
                /\ ~parted \/ n + k = 1 => r.messages[k] = msgs[n + k]

LEMMA FrameResults ==
    ASSUME FixedOK, PartedKnown, pos \in 0 .. Len(Wire), NEW n \in Nat,
           Settled(remainBuf), Placed(pos, n, remainBuf), NEW p \in pos .. Len(Wire)
    PROVE  FrameResult(p, n, responseMessages(remainBuf \o SubSeq(Wire, pos + 1, p)))
<1>1. PICK d : d = Joined(p)
    OBVIOUS
<1>2. PICK s : s = Split(unifySSEChunk(d))
    OBVIOUS
<1>3. PICK u : FrameAt(p, u, s, n)
    BY <1>1, <1>2, FrameFacts DEF JoinedAt
<1>4. PICK r : r = responseMessages(d)
    OBVIOUS
<1>5. /\ r.err <=> \E i \in DOMAIN s.pieces : TooShort(s.pieces[i])
      /\ r.messages = [i \in DOMAIN s.pieces |-> Message(s.pieces[i])]
      /\ r.remainBuf = s.last
    BY <1>2, <1>4 DEF responseMessages, PartialEvent
<1>6. s \in SplitStates /\ Settled(s.last)
    BY <1>3 DEF FrameAt
<1>7. PICK Q : Q = Seq(Tokens)
    OBVIOUS
<1>8. PICK ps \in Seq(Q) : ps = s.pieces
    BY <1>6, <1>7 DEF SplitStates
<1>9. PICK c \in Nat : c = Len(ps) /\ DOMAIN ps = 1 .. c
    BY LenProperties
<1>10. r.err => parted
    BY <1>3, <1>5, <1>8, <1>9 DEF FrameAt, GoodPieces, GoodPiece
<1>11. ASSUME ~r.err
       PROVE  /\ r.messages \in Seq(Messages)
              /\ Placed(p, n + Len(r.messages), r.remainBuf)
              /\ \A k \in 1 .. Len(r.messages) :
                    /\ n + k \in 1 .. Len(msgs)
                    /\ r.messages[k] \in {msgs[n + k], Damaged}
                    /\ ~parted \/ n + k = 1 => r.messages[k] = msgs[n + k]
    <2>1. GoodPieces(ps, n) /\ Placed(p, n + c, s.last)
        BY <1>3, <1>5, <1>8, <1>9, <1>11 DEF FrameAt, BadPiece
    <2>2. \A k \in 1 .. c : GoodPiece(ps[k], n + k)
        BY <1>9, <2>1 DEF GoodPieces
    <2>3. \A i \in 1 .. Len(msgs) : msgs[i] \in Messages
        BY ElementOfSeq DEF FixedOK, Messages
    <2>4. PICK ms : ms = r.messages
        OBVIOUS
    <2>5. ms = [k \in 1 .. c |-> Message(ps[k])]
        BY <1>5, <1>8, <1>9, <2>4
    <2>6. \A k \in 1 .. c : ms[k] = Message(ps[k]) /\ ms[k] \in Messages
        BY <2>2, <2>3, <2>5 DEF GoodPiece, Messages
    <2>7. ms \in [1 .. c -> Messages]
        BY <2>5, <2>6
    <2>8. ms \in Seq(Messages) /\ Len(ms) = c
        BY <2>7
    <2>9. \A k \in 1 .. c : /\ n + k \in 1 .. Len(msgs)
                            /\ ms[k] \in {msgs[n + k], Damaged}
                            /\ ~parted \/ n + k = 1 => ms[k] = msgs[n + k]
        BY <2>2, <2>6 DEF GoodPiece
    <2>10. QED
        BY <1>5, <2>1, <2>4, <2>8, <2>9
<1>12. FrameResult(p, n, r)
    BY <1>5, <1>6, <1>10, <1>11 DEF FrameResult
<1>13. QED
    BY <1>1, <1>4, <1>12 DEF Joined

LEMMA FoldsOnce ==
    ASSUME NEW S, NEW op, NEW base, NEW n \in Nat, NEW seq, Len(seq) = n,
           NEW v, NEW w, Folds(S, op, base, seq, v), Folds(S, op, base, seq, w)
    PROVE  v = w
<1>1. PICK g : Iterates(g, op, base, n, seq) /\ v = g[1 .. n]
    BY DEF Folds
<1>2. PICK h : Iterates(h, op, base, n, seq) /\ w = h[1 .. n]
    BY DEF Folds
<1>3. {} \in SUBSET (1 .. n) /\ 1 .. n \in SUBSET (1 .. n)
    OBVIOUS
<1>4. g[{}] = h[{}]
    BY <1>1, <1>2, <1>3 DEF Iterates
<1>5. AgreeFurther(g, h, n)
    <2>1. SUFFICES ASSUME NEW s \in SUBSET (1 .. n), s # {},
                          g[s \ {Max(s)}] = h[s \ {Max(s)}]
                   PROVE  g[s] = h[s]
        BY DEF AgreeFurther
    <2>2. g[s] = op[<<g[s \ {Max(s)}], seq[Max(s)]>>]
        BY <1>1, <2>1 DEF Iterates
    <2>3. h[s] = op[<<h[s \ {Max(s)}], seq[Max(s)]>>]
        BY <1>2, <2>1 DEF Iterates
    <2>4. QED
        BY <2>1, <2>2, <2>3
<1>6. Agree(g, h, n)
    BY <1>4, <1>5, IterateUnique
<1>7. QED
    BY <1>1, <1>2, <1>3, <1>6 DEF Agree

\* Handling the first k messages of the response, each in a frame of its own,
\* gives s.
Handles(k, s) ==
    Folds(LoggedStates, HandleOp(LoggedStates, Messages), Fresh, SubSeq(msgs, 1, k), s)

LEMMA HandlesRun ==
    ASSUME FixedOK, NEW k \in 0 .. Len(msgs), NEW s
    PROVE  /\ SubSeq(msgs, 1, k) \in Seq(Messages)
           /\ Handles(k, s) <=> s = Run(Fresh, SubSeq(msgs, 1, k))
<1>1. PICK c \in Nat : c = Len(msgs) /\ \A i \in 1 .. c : msgs[i] \in Messages
    BY LenProperties, ElementOfSeq DEF FixedOK, Messages
<1>2. PICK g : g = SubSeq(msgs, 1, k)
    OBVIOUS
<1>3. \A i \in 1 .. k : msgs[i] \in Messages
    BY <1>1
<1>4. 1 \in Int /\ k \in Int
    BY <1>1
<1>5. g \in Seq(Messages)
    BY <1>2, <1>3, <1>4, SubSeqProperties
<1>6. PICK v : v = Run(Fresh, g)
    OBVIOUS
<1>7. Folds(LoggedStates, HandleOp(LoggedStates, Messages), Fresh, g, v)
    BY <1>5, <1>6, LogClosed, FreshLogged, HandleFolds DEF Run
<1>8. PICK n \in Nat : n = Len(g)
    BY <1>5, LenProperties
<1>9. Folds(LoggedStates, HandleOp(LoggedStates, Messages), Fresh, g, s) => s = v
    BY <1>7, <1>8, FoldsOnce
<1>10. QED
    BY <1>2, <1>5, <1>6, <1>7, <1>9 DEF Handles

\* The i-th message passed on is the i-th of the response, or damaged.
OutFollows(s) ==
    \A i \in 1 .. Len(s.out) :
        /\ i \in 1 .. Len(msgs)
        /\ s.out[i].msg \in {msgs[i], Damaged}
        /\ ~parted \/ i = 1 => s.out[i].msg = msgs[i]

StreamInv ==
    /\ PartedKnown
    /\ OutFollows(t)
    /\ t.end = "503" => parted
    /\ t.end = None => Settled(remainBuf) /\ Placed(pos, Len(t.out), remainBuf)
    /\ ~parted => Handles(Received, t)

\* The state after a frame that ends with token p.
FrameState(r) ==
    IF r.err THEN [t EXCEPT !.end = "503"] ELSE FoldLeft(HandleMessage, t, r.messages)

FrameEffects(p, r, s) ==
    /\ s \in LoggedStates
    /\ OutFollows(s)
    /\ s.end = "503" => parted
    /\ s.end = None => Settled(r.remainBuf) /\ Placed(p, Len(s.out), r.remainBuf)
    /\ ~parted /\ ~Parts(p) => Handles(p \div EventLen, s)

LEMMA FailedFrame ==
    ASSUME FixedOK, t \in LoggedStates, StreamInv, NEW p, NEW r, r.err, r.err => parted
    PROVE  FrameEffects(p, r, FrameState(r))
<1>1. t \in States /\ LogKept(t)
    BY DEF LoggedStates
<1>2. PICK s : s = [t EXCEPT !.end = "503"]
    OBVIOUS
<1>3. s \in States /\ s.out = t.out /\ s.log = t.log /\ s.end = "503"
    BY <1>1, <1>2 DEF States
<1>4. s \in LoggedStates
    BY <1>1, <1>3 DEF LoggedStates, LogKept
<1>5. OutFollows(s)
    BY <1>3 DEF StreamInv, OutFollows
<1>6. s = FrameState(r)
    BY <1>2 DEF FrameState
<1>7. s.end # None
    BY <1>3 DEF None
<1>8. QED
    BY <1>3, <1>4, <1>5, <1>6, <1>7 DEF FrameEffects

LEMMA GoodFrame ==
    ASSUME FixedOK, pos \in 0 .. Len(Wire), t \in LoggedStates, StreamInv, t.end = None,
           NEW p \in pos .. Len(Wire), NEW r, ~r.err, FrameResult(p, Len(t.out), r)
    PROVE  FrameEffects(p, r, FrameState(r))
<1>1. t \in States /\ t.out \in Seq(OutItem)
    BY DEF LoggedStates, States
<1>2. PICK n \in Nat : n = Len(t.out)
    BY <1>1, LenProperties
<1>3. PICK ms \in Seq(Messages) : ms = r.messages
    BY DEF FrameResult
<1>4. PICK c \in Nat : c = Len(ms)
    BY LenProperties
<1>5. /\ Settled(r.remainBuf) /\ Placed(p, n + c, r.remainBuf)
      /\ \A k \in 1 .. c :
            /\ n + k \in 1 .. Len(msgs)
            /\ ms[k] \in {msgs[n + k], Damaged}
            /\ ~parted \/ n + k = 1 => ms[k] = msgs[n + k]
    BY <1>2, <1>3, <1>4 DEF FrameResult
<1>6. PICK s : s = Run(t, ms)
    OBVIOUS
<1>7. s = FrameState(r)
    BY <1>3, <1>6 DEF FrameState, Run
<1>8. Adds(t, ms, s)
    BY <1>6, AddsAll
<1>9. s \in LoggedStates /\ s.out \in Seq(OutItem)
    BY <1>8 DEF Adds, LoggedStates, States
<1>10. PICK m \in Nat : m = Len(s.out)
    BY <1>9, LenProperties
<1>11. /\ m \in n .. n + c
       /\ \A i \in 1 .. n : s.out[i].msg = t.out[i].msg
       /\ \A k \in 1 .. m - n : s.out[n + k].msg = ms[k]
       /\ s.end = None => m = n + c
       /\ s.end = "503" => t.end = "503"
    BY <1>2, <1>4, <1>8, <1>10 DEF Adds
<1>12. OutFollows(s)
    <2>1. SUFFICES ASSUME NEW i \in 1 .. m
                   PROVE  /\ i \in 1 .. Len(msgs)
                          /\ s.out[i].msg \in {msgs[i], Damaged}
                          /\ ~parted \/ i = 1 => s.out[i].msg = msgs[i]
        BY <1>10 DEF OutFollows
    <2>2. CASE i <= n
        <3>1. i \in 1 .. n
            BY <2>2
        <3>2. QED
            BY <1>2, <1>11, <3>1 DEF StreamInv, OutFollows
    <2>3. CASE ~(i <= n)
        <3>1. PICK k \in 1 .. m - n : i = n + k
            <4>1. i - n \in 1 .. m - n /\ i = n + (i - n)
                BY <2>3
            <4>2. QED
                BY <4>1
        <3>2. k \in 1 .. c
            BY <1>11
        <3>3. QED
            BY <1>5, <1>11, <3>1, <3>2
    <2>4. QED
        BY <2>2, <2>3
<1>13. s.end # "503"
    BY <1>11 DEF None
<1>14. s.end = None => Placed(p, Len(s.out), r.remainBuf)
    BY <1>5, <1>10, <1>11
<1>15. ASSUME ~parted, ~Parts(p)
       PROVE  Handles(p \div EventLen, s)
    <2>1. PICK w \in Nat : w = Len(Wire)
        BY WireLength
    <2>2. PICK M \in Nat : M = Len(msgs)
        BY LenProperties DEF FixedOK
    <2>3. n = pos \div EventLen /\ n \in 0 .. M
        <3>1. Placed(pos, n, remainBuf)
            BY <1>2 DEF StreamInv
        <3>2. ~Parts(pos)
            BY <1>15 DEF Parts, StreamInv, PartedKnown
        <3>3. QED
            BY <1>15, <2>2, <3>1, <3>2, PlacedCount
    <2>4. n + c = p \div EventLen /\ n + c \in 0 .. M
        <3>1. p \in 0 .. Len(Wire)
            BY <2>1
        <3>2. QED
            BY <1>5, <1>15, <2>2, <3>1, PlacedCount
    <2>5. Received = n
        BY <2>3 DEF Received, EventLen
    <2>6. PICK a \in Seq(Messages) : a = SubSeq(msgs, 1, n)
        BY <2>2, <2>3, HandlesRun
    <2>7. t = Run(Fresh, a)
        BY <1>15, <2>2, <2>3, <2>5, <2>6, HandlesRun DEF StreamInv
    <2>8. a \o ms = SubSeq(msgs, 1, n + c)
        <3>1. msgs \in Seq(Messages)
            BY SeqMonotonic DEF FixedOK, Messages
        <3>2. ms = SubSeq(msgs, n + 1, n + c)
            <4>1. \A i \in n + 1 .. n + c : msgs[i] \in Messages
                BY <2>2, <2>4, <3>1, ElementOfSeq
            <4>2. PICK g : g = SubSeq(msgs, n + 1, n + c)
                OBVIOUS
            <4>3. /\ g \in Seq(Messages)
                  /\ Len(g) = IF n + 1 <= n + c THEN (n + c) - (n + 1) + 1 ELSE 0
                  /\ \A i \in 1 .. (n + c) - (n + 1) + 1 : g[i] = msgs[(n + 1) + i - 1]
                BY <4>1, <4>2, SubSeqProperties
            <4>4. Len(g) = c
                BY <4>3
            <4>5. \A i \in 1 .. c : g[i] = msgs[n + i] /\ ms[i] = msgs[n + i]
                <5>1. SUFFICES ASSUME NEW i \in 1 .. c
                               PROVE  g[i] = msgs[n + i] /\ ms[i] = msgs[n + i]
                    OBVIOUS
                <5>2. i \in 1 .. (n + c) - (n + 1) + 1 /\ (n + 1) + i - 1 = n + i
                    OBVIOUS
                <5>3. g[i] = msgs[n + i]
                    BY <4>3, <5>2
                <5>4. ms[i] = msgs[n + i]
                    BY <1>5, <1>15
                <5>5. QED
                    BY <5>3, <5>4
            <4>6. Len(ms) = Len(g) /\ \A i \in 1 .. Len(ms) : ms[i] = g[i]
                BY <1>4, <4>4, <4>5
            <4>7. ms = g
                BY <4>3, <4>6, SeqEqual
            <4>8. QED
                BY <4>2, <4>7
        <3>3. 1 \in 1 .. Len(msgs) + 1 /\ n \in 1 - 1 .. Len(msgs) /\ n + c \in n .. Len(msgs)
            BY <2>2, <2>3, <2>4
        <3>4. SubSeq(msgs, 1, n) \o SubSeq(msgs, n + 1, n + c) = SubSeq(msgs, 1, n + c)
            BY <3>1, <3>3, ConcatAdjacentSubSeq
        <3>5. QED
            BY <2>6, <3>2, <3>4
    <2>9. Run(Fresh, a \o ms) = Run(Run(Fresh, a), ms)
        BY LogClosed, FreshLogged, FoldConcat DEF FoldSplits
    <2>10. s = Run(Fresh, SubSeq(msgs, 1, n + c))
        BY <1>6, <2>7, <2>8, <2>9
    <2>11. Handles(n + c, s)
        BY <2>2, <2>4, <2>10, HandlesRun
    <2>12. QED
        BY <2>4, <2>11
<1>16. QED
    BY <1>5, <1>7, <1>9, <1>12, <1>13, <1>14, <1>15 DEF FrameEffects

LEMMA FrameEffect ==
    ASSUME FixedOK, pos \in 0 .. Len(Wire), t \in LoggedStates, StreamInv, t.end = None,
           NEW p \in pos .. Len(Wire), NEW r,
           r = responseMessages(remainBuf \o SubSeq(Wire, pos + 1, p))
    PROVE  FrameEffects(p, r, FrameState(r))
<1>1. t.out \in Seq(OutItem)
    BY DEF LoggedStates, States
<1>2. PICK n \in Nat : n = Len(t.out)
    BY <1>1, LenProperties
<1>3. Settled(remainBuf) /\ Placed(pos, n, remainBuf) /\ PartedKnown
    BY <1>2 DEF StreamInv
<1>4. FrameResult(p, Len(t.out), r)
    BY <1>2, <1>3, FrameResults
<1>5. CASE r.err
    BY <1>4, <1>5, FailedFrame DEF FrameResult
<1>6. CASE ~r.err
    BY <1>4, <1>6, GoodFrame
<1>7. QED
    BY <1>5, <1>6

-----------------------------------------------------------------------------
\* Whole responses.

LEMMA ExtractType ==
    ASSUME NEW text \in Words
    PROVE  extractReasoningContent(text) \in Choice
<1>1. <<>> \in Words
    BY DEF Words
<1>2. CASE text = <<>> \/ text[1] # "<think>"
    <2>1. extractReasoningContent(text) = [content |-> text, reasoning |-> <<>>]
        BY <1>2 DEF extractReasoningContent
    <2>2. QED
        BY <1>1, <2>1 DEF Choice
<1>3. CASE ~(text = <<>> \/ text[1] # "<think>")
    <2>1. PICK end \in 0 .. Len(text) : end = EndTag(text)
        BY EndTagFacts
    <2>2. Tail(text) \in Words /\ After(text, end) \in Words /\ SubSeq(text, 2, end - 1) \in Words
        BY <1>3, <2>1 DEF Words, After
    <2>3. CASE end = 0
        <3>1. extractReasoningContent(text) = [content |-> <<>>, reasoning |-> Tail(text)]
            BY <1>3, <2>1, <2>3 DEF extractReasoningContent
        <3>2. QED
            BY <1>1, <2>2, <3>1 DEF Choice
    <2>4. CASE end # 0
        <3>1. extractReasoningContent(text) =
                 [content |-> After(text, end), reasoning |-> SubSeq(text, 2, end - 1)]
            BY <1>3, <2>1, <2>4 DEF extractReasoningContent
        <3>2. QED
            BY <2>2, <3>1 DEF Choice
    <2>5. QED
        BY <2>3, <2>4
<1>4. QED
    BY <1>2, <1>3

LEMMA WholeChoicesType ==
    ASSUME NEW choices \in ChoiceLists
    PROVE  convertOpenAIChatCompletion(choices) \in ChoiceLists
<1>1. PICK n \in Nat : n = Len(choices) /\ DOMAIN choices = 1 .. n
                       /\ \A i \in 1 .. n : choices[i] \in Choice
    BY LenProperties, ElementOfSeq DEF ChoiceLists
<1>2. PICK cs : cs = convertOpenAIChatCompletion(choices)
    OBVIOUS
<1>3. cs = [i \in 1 .. n |->
              IF choices[i].reasoning = <<>> THEN extractReasoningContent(choices[i].content)
              ELSE choices[i]]
    BY <1>1, <1>2 DEF convertOpenAIChatCompletion
<1>4. \A i \in 1 .. n : extractReasoningContent(choices[i].content) \in Choice
    BY <1>1, ExtractType DEF Choice
<1>5. cs \in [1 .. n -> Choice]
    BY <1>1, <1>3, <1>4
<1>6. cs \in Seq(Choice)
    BY <1>5
<1>7. QED
    BY <1>2, <1>6 DEF ChoiceLists

\* The choices of a whole response and the state after it.
WholeChoices(msg) ==
    IF Body[msg].kind # "chunk" THEN <<>>
    ELSE IF splitReasoning THEN convertOpenAIChatCompletion(Body[msg].choices)
    ELSE Body[msg].choices
WholeState(s, msg) ==
    IF Body[msg].kind = "chunk"
    THEN [ Deliver(s, msg, WholeChoices(msg)) EXCEPT
             !.log = AppendResponse(@, WholeChoices(msg), Body[msg]) ]
    ELSE [ Deliver(s, msg, <<>>) EXCEPT
             !.log.err = IF Body[msg].kind = "error" THEN msg ELSE @ ]

LEMMA WholeFacts ==
    ASSUME NEW msg \in DOMAIN Body
    PROVE  /\ WholeState(Fresh, msg) \in LoggedStates
           /\ WholeChoices(msg) \in ChoiceLists
           /\ WholeState(Fresh, msg).out =
                 Append(<<>>, [msg |-> msg, choices |-> WholeChoices(msg)])
<1>1. msg \in Messages
    BY DEF Messages
<1>2. PICK choices : choices = WholeChoices(msg)
    OBVIOUS
<1>3. <<>> \in ChoiceLists
    BY DEF ChoiceLists
<1>4. choices \in ChoiceLists
    BY <1>2, <1>3, BodyAssumption, WholeChoicesType DEF WholeChoices
<1>5. PICK f \in LoggedStates : f = Fresh
    BY FreshLogged
<1>6. f \in States /\ f.out \in Seq(OutItem) /\ f.log \in Logs /\ f.out = <<>>
    BY <1>5 DEF LoggedStates, States, Fresh
<1>7. PICK o : o = [msg |-> msg, choices |-> choices]
    OBVIOUS
<1>8. o \in OutItem
    BY <1>1, <1>4, <1>7 DEF OutItem
<1>9. PICK out : out = Append(f.out, o)
    OBVIOUS
<1>10. out \in Seq(OutItem)
    BY <1>6, <1>8, <1>9, AppendProperties
<1>11. PICK d : d = Deliver(f, msg, choices)
    OBVIOUS
<1>12. d = [f EXCEPT !.out = out]
    BY <1>7, <1>9, <1>11 DEF Deliver
<1>13. d \in States /\ d.out = out /\ d.log = f.log
    BY <1>6, <1>10, <1>12 DEF States
<1>14. CASE Body[msg].kind = "chunk"
    <2>1. PICK body : body = Body[msg]
        OBVIOUS
    <2>2. body.total \in Nat /\ body.cached \in Nat
        BY <1>14, <2>1, BodyAssumption
    <2>3. PICK log \in Logs : log = f.log
        BY <1>6
    <2>4. PICK l \in Logs : l = AppendResponse(log, choices, body)
        BY <1>4, <2>2, AppendResponseFacts
    <2>5. PICK r : r = WholeState(Fresh, msg)
        OBVIOUS
    <2>6. r = [d EXCEPT !.log = l]
        BY <1>2, <1>5, <1>11, <1>13, <1>14, <2>1, <2>3, <2>4, <2>5 DEF WholeState, States
    <2>7. r \in States /\ r.out = out /\ r.log = l
        BY <1>13, <2>4, <2>6 DEF States
    <2>8. ~Plain(msg) /\ Body[msg].kind # "error"
        BY <1>14, BodyAssumption DEF Plain
    <2>9. LogTaken(f, msg, r, choices)
        BY <1>4, <1>7, <1>9, <2>1, <2>3, <2>4, <2>7, <2>8 DEF LogTaken
    <2>10. r \in LoggedStates
        BY <1>1, <2>7, <2>9, LogTakes
    <2>11. QED
        BY <1>2, <1>4, <1>6, <1>7, <1>9, <2>5, <2>7, <2>10
<1>15. CASE Body[msg].kind # "chunk"
    <2>1. choices = <<>>
        BY <1>2, <1>15 DEF WholeChoices
    <2>2. PICK err : err = IF Body[msg].kind = "error" THEN msg ELSE f.log.err
        OBVIOUS
    <2>3. err \in Messages \cup {None}
        BY <1>1, <1>6, <2>2 DEF Logs
    <2>4. PICK l : l = [f.log EXCEPT !.err = err]
        OBVIOUS
    <2>5. l \in Logs /\ l.content = f.log.content /\ l.thinking = f.log.thinking
          /\ l.total = f.log.total
        BY <1>6, <2>3, <2>4 DEF Logs
    <2>6. PICK r : r = WholeState(Fresh, msg)
        OBVIOUS
    <2>7. r = [d EXCEPT !.log = l]
        BY <1>5, <1>11, <1>13, <1>15, <2>1, <2>2, <2>4, <2>6 DEF WholeState, States
    <2>8. r \in States /\ r.out = out /\ r.log = l
        BY <1>13, <2>5, <2>7 DEF States
    <2>9. LogTaken(f, msg, r, choices)
        BY <1>4, <1>7, <1>9, <1>15, <2>1, <2>5, <2>8 DEF LogTaken
    <2>10. r \in LoggedStates
        BY <1>1, <2>8, <2>9, LogTakes
    <2>11. QED
        BY <1>2, <1>4, <1>6, <1>7, <1>9, <2>6, <2>8, <2>10
<1>16. QED
    BY <1>14, <1>15

-----------------------------------------------------------------------------
\* The invariant.

WholeInv ==
    Len(msgs) = 1 /\ t = IF pos = 0 THEN Fresh ELSE WholeState(Fresh, msgs[1])

\* A response that comes in frames keeps StreamInv, a whole one WholeInv.
TranscoderInv ==
    /\ FixedOK
    /\ pos \in 0 .. Len(Wire)
    /\ t \in LoggedStates
    /\ isStream => StreamInv
    /\ ~isStream => WholeInv

LEMMA SameHandling ==
    ASSUME splitReasoning' = splitReasoning
    PROVE  HandleOp(LoggedStates, Messages)' = HandleOp(LoggedStates, Messages)
<1>1. ASSUME NEW s, NEW msg
      PROVE  HandleMessage(s, msg)' = HandleMessage(s, msg)
    <2>1. ASSUME NEW v
          PROVE  ConvertChunk(v, msg)' = ConvertChunk(v, msg)
        BY DEF ConvertChunk
    <2>2. QED
        BY <2>1 DEF HandleMessage
<1>2. QED
    BY <1>1 DEF HandleOp

LEMMA SameWire ==
    ASSUME msgs' = msgs, eol' = eol
    PROVE  /\ Wire' = Wire /\ EventLen' = EventLen /\ FixedOK' = FixedOK
           /\ Received' = pos' \div EventLen
<1>1. Wire' = Wire
    BY DEF Wire, Event
<1>2. EventLen' = EventLen
    BY DEF EventLen
<1>3. FixedOK' = FixedOK
    BY DEF FixedOK
<1>4. Received' = pos' \div EventLen
    BY DEF Received, EventLen
<1>5. QED
    BY <1>1, <1>2, <1>3, <1>4

LEMMA InitInv == Init => TranscoderInv
<1> SUFFICES ASSUME Init
             PROVE  TranscoderInv
    OBVIOUS
<1>1. FixedOK
    <2>1. msgs \in Seq(DOMAIN Body)
        BY ResponsesAssumption DEF Init
    <2>2. eol \in LineEndings
        BY LineEndsAssumption, Zenon DEF Init, LineEndings
    <2>3. QED
        BY <2>1, <2>2 DEF FixedOK
<1>2. PICK w \in Nat : w = Len(Wire)
    BY <1>1, WireLength
<1>3. pos = 0 /\ remainBuf = <<>> /\ t = Fresh /\ parted = FALSE
    BY DEF Init
<1>4. pos \in 0 .. Len(Wire)
    BY <1>2, <1>3
<1>5. t \in LoggedStates
    BY <1>3, FreshLogged
<1>6. t.out = <<>> /\ t.end = None /\ Len(t.out) = 0
    BY <1>3 DEF Fresh
<1>7. PICK c \in Nat : c = Len(msgs)
    BY <1>1, LenProperties DEF FixedOK
<1>8. PICK L \in {5, 7} : L = EventLen
    BY <1>1, EventLength
<1>9. StreamInv
    <2>1. PartedKnown
        BY <1>2, <1>3 DEF PartedKnown
    <2>2. OutFollows(t)
        BY <1>6 DEF OutFollows
    <2>3. Settled(remainBuf)
        BY <1>3, SettledEmpty
    <2>4. Placed(pos, Len(t.out), remainBuf)
        <3>1. Spot(0, 0, 0, 0, <<>>)
            BY LeadValues DEF Spot
        <3>2. 0 \in 0 .. Len(msgs) /\ 0 \in 0 .. EventLen - 1 /\ 0 \in {0, 1} /\ 0 = 0 * EventLen + 0
            BY <1>7, <1>8
        <3>3. Placed(0, 0, <<>>)
            BY <3>1, <3>2, Zenon DEF Placed
        <3>4. QED
            BY <1>3, <1>6, <3>3
    <2>5. Handles(Received, t)
        <3>1. Received = 0
            BY <1>3, <1>8 DEF Received, EventLen
        <3>2. 0 \in 0 .. Len(msgs)
            BY <1>7
        <3>3. SubSeq(msgs, 1, 0) = <<>>
            BY SubSeqEmpty
        <3>4. Run(Fresh, <<>>) = Fresh
            BY LogClosed, FreshLogged, EmptySeq, RunTyped
        <3>5. Fresh = Run(Fresh, SubSeq(msgs, 1, 0))
            BY <3>3, <3>4
        <3>6. Handles(0, Fresh)
            BY <1>1, <3>2, <3>5, HandlesRun
        <3>7. QED
            BY <1>3, <3>1, <3>6
    <2>6. t.end # "503"
        BY <1>6 DEF None
    <2>7. QED
        BY <2>1, <2>2, <2>3, <2>4, <2>5, <2>6 DEF StreamInv
<1>10. ~isStream => WholeInv
    BY <1>3 DEF Init, WholeInv
<1>11. QED
    BY <1>1, <1>4, <1>5, <1>9, <1>10 DEF TranscoderInv

LEMMA ReceiveFrameInv ==
    ASSUME TranscoderInv, NEW p, ReceiveFrame(p)
    PROVE  TranscoderInv'
<1>1. PICK r : r = responseMessages(remainBuf \o SubSeq(Wire, pos + 1, p))
    OBVIOUS
<1>2. /\ isStream /\ t.end = None /\ p \in pos + 1 .. Len(Wire)
      /\ pos' = p /\ remainBuf' = r.remainBuf
      /\ parted' = (parted \/ (p < Len(Wire) /\ Wire[p] = "CR" /\ Wire[p + 1] = "LF"))
      /\ isStream' = isStream /\ splitReasoning' = splitReasoning
      /\ msgs' = msgs /\ eol' = eol
    BY <1>1 DEF ReceiveFrame
<1>3. t' = FrameState(r)
    BY <1>1 DEF ReceiveFrame, FrameState
<1>4. FixedOK /\ pos \in 0 .. Len(Wire) /\ t \in LoggedStates /\ StreamInv
    BY <1>2 DEF TranscoderInv
<1>5. PICK w \in Nat : w = Len(Wire)
    BY <1>4, WireLength
<1>6. p \in pos .. Len(Wire) /\ p \in 1 .. w /\ p \in 0 .. Len(Wire)
    BY <1>2, <1>4, <1>5
<1>7. FrameEffects(p, r, FrameState(r))
    BY <1>1, <1>2, <1>4, <1>6, FrameEffect
<1>8. PICK s : s = FrameState(r)
    OBVIOUS
<1>9. Wire' = Wire /\ EventLen' = EventLen /\ FixedOK' /\ Received' = p \div EventLen
    BY <1>2, <1>4, SameWire
<1>10. (parted => parted') /\ (~parted' => ~parted /\ ~Parts(p)) /\ (Parts(p) => parted')
    <2>1. Parts(p) <=> (p < Len(Wire) /\ Wire[p] = "CR" /\ Wire[p + 1] = "LF")
        BY <1>5, <1>6 DEF Parts
    <2>2. parted' = (parted \/ (p < Len(Wire) /\ Wire[p] = "CR" /\ Wire[p + 1] = "LF"))
        BY <1>2
    <2>3. QED
        BY <2>1, <2>2, Zenon
<1>11. t' = s
    BY <1>3, <1>8
<1>12. PartedKnown'
    BY <1>2, <1>9, <1>10 DEF PartedKnown, Parts
<1>13. OutFollows(t)'
    <2>1. OutFollows(s)
        BY <1>7, <1>8 DEF FrameEffects
    <2>2. QED
        BY <1>2, <1>10, <1>11, <2>1 DEF OutFollows
<1>14. (t.end = "503" => parted)'
    BY <1>7, <1>8, <1>10, <1>11 DEF FrameEffects
<1>15. (t.end = None => Settled(remainBuf) /\ Placed(pos, Len(t.out), remainBuf))'
    <2>1. SUFFICES ASSUME s.end = None
                   PROVE  Settled(remainBuf') /\ Placed(pos, Len(t.out), remainBuf)'
        BY <1>11
    <2>2. PICK n : n = Len(s.out)
        OBVIOUS
    <2>3. PICK rest : rest = r.remainBuf
        OBVIOUS
    <2>4. Settled(rest) /\ Placed(p, n, rest)
        BY <1>7, <1>8, <2>1, <2>2, <2>3 DEF FrameEffects
    <2>5. PICK i \in 0 .. Len(msgs), o \in 0 .. EventLen - 1, l \in {0, 1} :
             p = i * EventLen + o /\ Spot(i, o, n, l, rest)
        BY <2>4 DEF Placed
    <2>6. pos' = p /\ Len(t'.out) = n /\ remainBuf' = rest
        BY <1>2, <1>11, <2>2, <2>3
    <2>7. Spot(i, o, Len(t.out), l, remainBuf)'
        BY <1>2, <1>10, <2>5, <2>6 DEF Spot
    <2>8. Placed(pos, Len(t.out), remainBuf)'
        BY <1>2, <1>9, <2>5, <2>6, <2>7 DEF Placed
    <2>9. QED
        BY <2>4, <2>6, <2>8
<1>16. (~parted => Handles(Received, t))'
    <2>1. SUFFICES ASSUME ~parted'
                   PROVE  Handles(Received, t)'
        OBVIOUS
    <2>2. Handles(p \div EventLen, s)
        BY <1>7, <1>8, <1>10, <2>1 DEF FrameEffects
    <2>3. HandleOp(LoggedStates, Messages)' = HandleOp(LoggedStates, Messages)
        BY <1>2, SameHandling
    <2>4. QED
        BY <1>2, <1>9, <1>11, <2>2, <2>3 DEF Handles
<1>17. StreamInv'
    BY <1>12, <1>13, <1>14, <1>15, <1>16 DEF StreamInv
<1>18. t' \in LoggedStates
    BY <1>7, <1>8, <1>11 DEF FrameEffects
<1>19. pos' \in 0 .. Len(Wire')
    BY <1>2, <1>6, <1>9
<1>20. QED
    BY <1>2, <1>9, <1>17, <1>18, <1>19 DEF TranscoderInv

LEMMA DropFramesInv ==
    ASSUME TranscoderInv, DropFrames
    PROVE  TranscoderInv'
<1>1. /\ isStream /\ t.end # None /\ pos' = Len(Wire)
      /\ isStream' = isStream /\ splitReasoning' = splitReasoning
      /\ msgs' = msgs /\ eol' = eol /\ remainBuf' = remainBuf /\ t' = t /\ parted' = parted
    BY DEF DropFrames
<1>2. FixedOK /\ pos \in 0 .. Len(Wire) /\ t \in LoggedStates /\ StreamInv
    BY <1>1 DEF TranscoderInv
<1>3. PICK w \in Nat : w = Len(Wire)
    BY <1>2, WireLength
<1>4. /\ Wire' = Wire /\ EventLen' = EventLen /\ FixedOK' /\ Received' = w \div EventLen
    BY <1>1, <1>2, <1>3, SameWire
<1>5. PICK c \in Nat : c = Len(msgs)
    BY <1>2, LenProperties DEF FixedOK
<1>6. PartedKnown'
    BY <1>1, <1>3, <1>4 DEF PartedKnown
<1>7. OutFollows(t)'
    BY <1>1, <1>2 DEF OutFollows, StreamInv
<1>8. ASSUME ~parted
      PROVE  Handles(Received, t)'
    <2>1. Received' = c
        BY <1>2, <1>3, <1>4, <1>5, WireLength
    <2>2. PICK k \in 0 .. c : k = Received
        BY <1>2, <1>5, WireLength DEF Received, EventLen
    <2>3. PICK a \in Seq(Messages) : a = SubSeq(msgs, 1, k)
        BY <1>2, <1>5, <2>2, HandlesRun
    <2>4. t = Run(Fresh, a)
        BY <1>2, <1>5, <1>8, <2>2, <2>3, HandlesRun DEF StreamInv
    <2>5. msgs \in Seq(Messages)
        BY <1>2, SeqMonotonic DEF FixedOK, Messages
    <2>6. PICK b : b = SubSeq(msgs, k + 1, c)
        OBVIOUS
    <2>7. b \in Seq(Messages)
        <3>1. \A i \in k + 1 .. c : msgs[i] \in Messages
            BY <1>5, <2>5, ElementOfSeq
        <3>2. k + 1 \in Int /\ c \in Int
            OBVIOUS
        <3>3. QED
            BY <2>6, <3>1, <3>2, SubSeqProperties
    <2>8. a \o b = SubSeq(msgs, 1, c)
        <3>1. 1 \in 1 .. Len(msgs) + 1 /\ k \in 1 - 1 .. Len(msgs) /\ c \in k .. Len(msgs)
            BY <1>5
        <3>2. QED
            BY <2>3, <2>5, <2>6, <3>1, ConcatAdjacentSubSeq
    <2>9. Run(Fresh, a \o b) = Run(Run(Fresh, a), b)
        BY <2>7, LogClosed, FreshLogged, FoldConcat DEF FoldSplits
    <2>10. Run(t, b) = t
        BY <1>1, <2>7, RunEnded
    <2>11. t = Run(Fresh, SubSeq(msgs, 1, c))
        BY <2>4, <2>8, <2>9, <2>10
    <2>12. Handles(c, t)
        <3>1. c \in 0 .. Len(msgs)
            BY <1>5
        <3>2. QED
            BY <1>2, <2>11, <3>1, HandlesRun
    <2>13. HandleOp(LoggedStates, Messages)' = HandleOp(LoggedStates, Messages)
        BY <1>1, SameHandling
    <2>14. QED
        BY <1>1, <2>1, <2>12, <2>13 DEF Handles
<1>9. StreamInv'
    BY <1>1, <1>2, <1>6, <1>7, <1>8 DEF StreamInv
<1>10. pos' \in 0 .. Len(Wire')
    BY <1>1, <1>3, <1>4
<1>11. QED
    BY <1>1, <1>2, <1>4, <1>9, <1>10 DEF TranscoderInv

LEMMA ReceiveWholeInv ==
    ASSUME TranscoderInv, ReceiveWhole
    PROVE  TranscoderInv'
<1>1. /\ ~isStream /\ pos = 0 /\ pos' = Len(Wire)
      /\ isStream' = isStream /\ splitReasoning' = splitReasoning
      /\ msgs' = msgs /\ eol' = eol
    BY DEF ReceiveWhole
<1>2. FixedOK /\ WholeInv
    BY <1>1 DEF TranscoderInv
<1>3. PICK msg : msg = msgs[1]
    OBVIOUS
<1>4. msg \in DOMAIN Body
    BY <1>2, <1>3, ElementOfSeq DEF FixedOK, WholeInv
<1>5. t = Fresh
    BY <1>1, <1>2 DEF WholeInv
<1>6. t' = WholeState(Fresh, msg)
    BY <1>3, <1>5 DEF ReceiveWhole, WholeState, WholeChoices
<1>7. t' \in LoggedStates
    BY <1>4, <1>6, WholeFacts
<1>8. Wire' = Wire /\ EventLen' = EventLen /\ FixedOK'
    BY <1>1, <1>2, SameWire
<1>9. PICK w \in Nat : w = Len(Wire) /\ w # 0
    BY <1>2, WireLength DEF WholeInv
<1>10. WholeState(Fresh, msg)' = WholeState(Fresh, msg)
    BY <1>1 DEF WholeState, WholeChoices
<1>11. WholeInv'
    BY <1>1, <1>2, <1>3, <1>6, <1>9, <1>10 DEF WholeInv, WholeState, WholeChoices
<1>12. QED
    BY <1>1, <1>7, <1>8, <1>9, <1>11 DEF TranscoderInv

LEMMA StutterInv ==
    ASSUME TranscoderInv, UNCHANGED vars
    PROVE  TranscoderInv'
<1>1. /\ isStream' = isStream /\ splitReasoning' = splitReasoning /\ msgs' = msgs
      /\ eol' = eol /\ pos' = pos /\ remainBuf' = remainBuf /\ t' = t /\ parted' = parted
    BY DEF vars
<1>2. FixedOK /\ pos \in 0 .. Len(Wire) /\ t \in LoggedStates
    BY DEF TranscoderInv
<1>3. /\ Wire' = Wire /\ EventLen' = EventLen /\ FixedOK' /\ Received' = pos \div EventLen
    BY <1>1, <1>2, SameWire
<1>4. ASSUME isStream
      PROVE  StreamInv'
    <2>1. StreamInv
        BY <1>4 DEF TranscoderInv
    <2>2. PartedKnown'
        BY <1>1, <1>3, <2>1 DEF PartedKnown, StreamInv
    <2>3. OutFollows(t)'
        BY <1>1, <2>1 DEF OutFollows, StreamInv
    <2>4. Placed(pos, Len(t.out), remainBuf) => Placed(pos, Len(t.out), remainBuf)'
        BY <1>1, <1>3 DEF Placed, Spot
    <2>5. Handles(Received, t) => Handles(Received, t)'
        <3>1. HandleOp(LoggedStates, Messages)' = HandleOp(LoggedStates, Messages)
            BY <1>1, SameHandling
        <3>2. Received' = Received
            BY <1>3 DEF Received, EventLen
        <3>3. QED
            BY <1>1, <3>1, <3>2 DEF Handles
    <2>6. QED
        BY <1>1, <2>1, <2>2, <2>3, <2>4, <2>5 DEF StreamInv
<1>5. ASSUME ~isStream
      PROVE  WholeInv'
    <2>1. WholeInv
        BY <1>5 DEF TranscoderInv
    <2>2. QED
        BY <1>1, <2>1 DEF WholeInv, WholeState, WholeChoices
<1>6. QED
    BY <1>1, <1>2, <1>3, <1>4, <1>5 DEF TranscoderInv

\* The invariant holds of every reachable state: what waits in remainBuf is
\* always what a cut can leave of an event, and the state is always the one
\* that the messages passed on so far account for (common.go:110-142).
THEOREM Invariance == Spec => []TranscoderInv
<1>1. Init => TranscoderInv
    BY InitInv
<1>2. TranscoderInv /\ [Next]_vars => TranscoderInv'
    <2> SUFFICES ASSUME TranscoderInv, [Next]_vars
                 PROVE  TranscoderInv'
        OBVIOUS
    <2>1. CASE \E p \in 1 .. Len(Wire) : ReceiveFrame(p)
        BY <2>1, ReceiveFrameInv
    <2>2. CASE DropFrames
        BY <2>2, DropFramesInv
    <2>3. CASE ReceiveWhole
        BY <2>3, ReceiveWholeInv
    <2>4. CASE UNCHANGED vars
        BY <2>4, StutterInv, SMTT(30)
    <2>5. QED
        BY <2>1, <2>2, <2>3, <2>4 DEF Next
<1>3. QED
    BY <1>1, <1>2, PTL DEF Spec

-----------------------------------------------------------------------------
\* The properties.

LEMMA InvLogAgrees == TranscoderInv => LogAgrees
<1> SUFFICES ASSUME TranscoderInv
             PROVE  LogAgrees
    OBVIOUS
<1>1. t \in States /\ LogKept(t) /\ t.out \in Seq(OutItem)
    BY DEF TranscoderInv, LoggedStates, States
<1>2. t.log.content = OutContent /\ t.log.thinking = OutReasoning
    BY <1>1 DEF LogKept, TextOf, ThoughtOf, OutContent, OutReasoning
<1>3. PICK totals : totals = Totals(t.out)
    OBVIOUS
<1>4. totals \subseteq Nat
    BY <1>1, <1>3, TotalsType
<1>5. PICK n : n = t.log.total
    OBVIOUS
<1>6. Greatest(n, totals)
    BY <1>1, <1>3, <1>5 DEF LogKept
<1>7. n = IF totals = {} THEN 0 ELSE CHOOSE k \in totals : \A m \in totals : m <= k
    <2>1. CASE totals = {}
        BY <1>6, <2>1 DEF Greatest
    <2>2. CASE totals # {}
        <3>1. n \in totals /\ \A m \in totals : m <= n
            BY <1>6, <2>2 DEF Greatest
        <3>2. PICK k : k = CHOOSE l \in totals : \A m \in totals : m <= l
            OBVIOUS
        <3>3. k \in totals /\ \A m \in totals : m <= k
            BY <3>1, <3>2
        <3>4. n <= k /\ k <= n /\ n \in Nat /\ k \in Nat
            BY <1>4, <3>1, <3>3
        <3>5. n = k
            BY <3>4
        <3>6. QED
            BY <2>2, <3>2, <3>5
    <2>3. QED
        BY <2>1, <2>2
<1>8. totals = { Body[t.out[i].msg].total :
                   i \in { j \in DOMAIN t.out : t.out[j].msg # Damaged
                             /\ Body[t.out[j].msg].kind = "chunk" } }
    BY <1>3 DEF Totals, Reports
<1>9. QED
    BY <1>2, <1>5, <1>7, <1>8 DEF LogAgrees

\* The log is, at every moment, the text and the reasoning that went to the
\* client and the largest usage reported (log_content.go:106-177).
THEOREM LogAgreesHolds == Spec => []LogAgrees
    BY Invariance, InvLogAgrees, PTL

LEMMA InvDamageConfined == TranscoderInv => DamageConfined
<1> SUFFICES ASSUME TranscoderInv, isStream
             PROVE  /\ \A i \in DOMAIN t.out : t.out[i].msg \in {msgs[i], Damaged}
                    /\ t.out # <<>> => t.out[1].msg # Damaged
                    /\ t.end = "503" => parted
                    /\ t.end = None => Len(t.out) >= Received
    BY DEF DamageConfined
<1>1. StreamInv /\ FixedOK /\ pos \in 0 .. Len(Wire) /\ t.out \in Seq(OutItem)
    BY DEF TranscoderInv, LoggedStates, States
<1>2. PICK n \in Nat : n = Len(t.out) /\ DOMAIN t.out = 1 .. n
    BY <1>1, LenProperties
<1>3. \A i \in 1 .. n : /\ i \in 1 .. Len(msgs) /\ t.out[i].msg \in {msgs[i], Damaged}
                        /\ i = 1 => t.out[i].msg = msgs[i]
    BY <1>1, <1>2 DEF StreamInv, OutFollows
<1>4. ASSUME t.out # <<>>
      PROVE  t.out[1].msg # Damaged
    <2>1. n # 0
        BY <1>1, <1>2, <1>4, EmptySeq
    <2>2. 1 \in 1 .. n
        BY <2>1
    <2>3. 1 \in 1 .. Len(msgs) /\ t.out[1].msg = msgs[1]
        BY <1>3, <2>2
    <2>4. msgs[1] \in DOMAIN Body
        BY <1>1, <2>3, ElementOfSeq DEF FixedOK
    <2>5. QED
        BY <2>3, <2>4, BodyAssumption
<1>5. ASSUME t.end = None
      PROVE  Len(t.out) >= Received
    <2>1. Placed(pos, n, remainBuf)
        BY <1>1, <1>2, <1>5 DEF StreamInv
    <2>2. n >= pos \div EventLen
        BY <1>1, <2>1, PlacedCount
    <2>3. QED
        BY <1>2, <2>2 DEF Received, EventLen
<1>6. QED
    BY <1>1, <1>2, <1>3, <1>4, <1>5 DEF StreamInv

\* Wherever the network cuts the stream, no message is invented, lost or
\* reordered, the first is whole, and only a cut between a CR and its LF can
\* damage one or fail the response (common.go:110-142).
THEOREM DamageConfinedHolds == Spec => []DamageConfined
    BY Invariance, InvDamageConfined, PTL

LEMMA InvCutIndependent == TranscoderInv => CutIndependent
<1> SUFFICES ASSUME TranscoderInv, isStream, ~parted
             PROVE  t = FoldLeft(HandleMessage, Fresh, SubSeq(msgs, 1, Received))
    BY DEF CutIndependent
<1>1. StreamInv /\ FixedOK /\ pos \in 0 .. Len(Wire)
    BY DEF TranscoderInv
<1>2. PICK k : k = Received
    OBVIOUS
<1>3. k \in 0 .. Len(msgs)
    BY <1>1, <1>2, WireLength DEF Received, EventLen
<1>4. Handles(k, t)
    BY <1>1, <1>2 DEF StreamInv
<1>5. t = Run(Fresh, SubSeq(msgs, 1, k))
    BY <1>1, <1>3, <1>4, HandlesRun
<1>6. QED
    BY <1>2, <1>5 DEF Run

\* The client and the log get the same however the stream was cut, as long as
\* no cut parts a CR from its LF (common.go:110-142, openai.go:304-366).
THEOREM CutIndependentHolds == Spec => []CutIndependent
    BY Invariance, InvCutIndependent, PTL

-----------------------------------------------------------------------------
\* Reasoning.

LEMMA EndTagIs ==
    ASSUME NEW text \in Words, NEW k \in 1 .. Len(text), text[k] = "</think>",
           \A i \in 1 .. k - 1 : text[i] # "</think>"
    PROVE  EndTag(text) = k
<1>1. PICK n \in Nat : n = Len(text)
    BY LenProperties DEF Words
<1>2. PICK e \in 0 .. n : e = EndTag(text)
    BY <1>1, EndTagFacts
<1>3. e # 0
    BY <1>1, <1>2, EndTagFacts
<1>4. text[e] = "</think>" /\ \A i \in 1 .. e - 1 : text[i] # "</think>"
    BY <1>2, <1>3, EndTagFacts
<1>5. ~(e < k) /\ ~(k < e)
    <2>1. e < k => e \in 1 .. k - 1
        BY <1>1, <1>2, <1>3
    <2>2. k < e => k \in 1 .. e - 1
        BY <1>1, <1>2
    <2>3. QED
        BY <1>4, <2>1, <2>2
<1>6. QED
    BY <1>1, <1>2, <1>5

LEMMA EndTagNone ==
    ASSUME NEW text \in Words, \A i \in 1 .. Len(text) : text[i] # "</think>"
    PROVE  EndTag(text) = 0
<1>1. PICK n \in Nat : n = Len(text)
    BY LenProperties DEF Words
<1>2. PICK e \in 0 .. n : e = EndTag(text)
    BY <1>1, EndTagFacts
<1>3. e # 0 => e \in 1 .. n /\ text[e] = "</think>"
    BY <1>2, EndTagFacts
<1>4. QED
    BY <1>1, <1>2, <1>3

\* A text in which the reasoning has begun and not ended.
Open(text) == text # <<>> /\ text[1] = "<think>" /\ EndTag(text) = 0

\* extractReasoningContent, case by case.
LEMMA ExtractFacts ==
    ASSUME NEW text \in Words
    PROVE  /\ text = <<>> \/ text[1] # "<think>" =>
                 /\ extractReasoningContent(text).content = text
                 /\ extractReasoningContent(text).reasoning = <<>>
           /\ Open(text) =>
                 /\ extractReasoningContent(text).content = <<>>
                 /\ extractReasoningContent(text).reasoning = Tail(text)
           /\ text # <<>> /\ text[1] = "<think>" /\ EndTag(text) # 0 =>
                 /\ extractReasoningContent(text).content = After(text, EndTag(text))
                 /\ extractReasoningContent(text).reasoning = SubSeq(text, 2, EndTag(text) - 1)
    BY DEF extractReasoningContent, Open

\* extractReasoningContentFromChunk continues extractReasoningContent: s
\* remembers of the text x so far what it needs, c is the next chunk.
Continues(s, x, c) ==
    LET e == extractReasoningContentFromChunk(s, c)
        y == x \o c
    IN  /\ e.metFirstChunk <=> y # <<>>
        /\ e.isThinking <=> Open(y)
        /\ extractReasoningContent(y).content = extractReasoningContent(x).content \o e.content
        /\ extractReasoningContent(y).reasoning =
              extractReasoningContent(x).reasoning \o e.reasoning
Remembers(s, x) ==
    /\ s.metFirstChunk \in BOOLEAN /\ s.isThinking \in BOOLEAN
    /\ s.metFirstChunk <=> x # <<>>
    /\ s.isThinking <=> Open(x)

LEMMA ChunkFacts ==
    ASSUME NEW s, s.metFirstChunk \in BOOLEAN, s.isThinking \in BOOLEAN, NEW c \in Words
    PROVE  LET e == extractReasoningContentFromChunk(s, c)
               starts == ~s.metFirstChunk /\ c # <<>> /\ c[1] = "<think>"
               text == IF starts THEN Tail(c) ELSE c
           IN  /\ e.metFirstChunk <=> s.metFirstChunk \/ c # <<>>
               /\ e.isThinking <=> (starts \/ s.isThinking) /\ EndTag(text) = 0
               /\ ~(starts \/ s.isThinking) => e.content = c /\ e.reasoning = <<>>
               /\ (starts \/ s.isThinking) /\ EndTag(text) = 0 =>
                     e.content = <<>> /\ e.reasoning = text
               /\ (starts \/ s.isThinking) /\ EndTag(text) # 0 =>
                     /\ e.content = After(text, EndTag(text))
                     /\ e.reasoning = SubSeq(text, 1, EndTag(text) - 1)
<1> DEFINE starts   == ~s.metFirstChunk /\ c # <<>> /\ c[1] = "<think>"
           thinking == starts \/ s.isThinking
           text     == IF starts THEN Tail(c) ELSE c
           end      == EndTag(text)
<1>1. extractReasoningContentFromChunk(s, c) =
        [ metFirstChunk |-> MetFirstChunk(s, c),
          isThinking    |-> thinking /\ end = 0,
          content       |-> IF ~thinking THEN text
                            ELSE IF end = 0 THEN <<>> ELSE After(text, end),
          reasoning     |-> IF ~thinking THEN <<>>
                            ELSE IF end = 0 THEN text ELSE SubSeq(text, 1, end - 1) ]
    BY DEF extractReasoningContentFromChunk
<1>2. MetFirstChunk(s, c) <=> s.metFirstChunk \/ c # <<>>
    BY DEF MetFirstChunk
<1>3. PICK e : e = extractReasoningContentFromChunk(s, c)
    OBVIOUS
<1>4. /\ e.metFirstChunk <=> s.metFirstChunk \/ c # <<>>
      /\ e.isThinking <=> thinking /\ end = 0
      /\ e.content = IF ~thinking THEN text ELSE IF end = 0 THEN <<>> ELSE After(text, end)
      /\ e.reasoning = IF ~thinking THEN <<>>
                       ELSE IF end = 0 THEN text ELSE SubSeq(text, 1, end - 1)
    <2> HIDE DEF thinking, text, end
    <2>1. /\ e.metFirstChunk = MetFirstChunk(s, c)
          /\ e.isThinking = (thinking /\ end = 0)
        BY <1>1, <1>3
    <2>2. e.metFirstChunk <=> s.metFirstChunk \/ c # <<>>
        BY <1>2, <2>1, Zenon
    <2>3. e.isThinking <=> thinking /\ end = 0
        BY <2>1, Zenon
    <2>4. e.content = IF ~thinking THEN text ELSE IF end = 0 THEN <<>> ELSE After(text, end)
        BY <1>1, <1>3
    <2>5. e.reasoning = IF ~thinking THEN <<>>
                        ELSE IF end = 0 THEN text ELSE SubSeq(text, 1, end - 1)
        BY <1>1, <1>3
    <2>6. QED
        BY <2>2, <2>3, <2>4, <2>5
<1>5. ~thinking => text = c
    OBVIOUS
<1> HIDE DEF end
<1>6. QED
    BY <1>3, <1>4, <1>5 DEF end

Started(e, d) ==
    /\ e.metFirstChunk /\ (e.isThinking <=> EndTag(d) = 0)
    /\ EndTag(d) = 0 => e.content = <<>> /\ e.reasoning = d
    /\ EndTag(d) # 0 => e.content = After(d, EndTag(d))
    /\ EndTag(d) # 0 => e.reasoning = SubSeq(d, 1, EndTag(d) - 1)

LEMMA ChunkStarts ==
    ASSUME NEW s, Remembers(s, <<>>), NEW c \in Words, c # <<>>, c[1] = "<think>"
    PROVE  Started(extractReasoningContentFromChunk(s, c), Tail(c))
<1> PICK d : d = Tail(c)
    OBVIOUS
<1> PICK e : e = extractReasoningContentFromChunk(s, c)
    OBVIOUS
<1> ~s.metFirstChunk /\ s.metFirstChunk \in BOOLEAN /\ s.isThinking \in BOOLEAN
    BY DEF Remembers
<1>1. extractReasoningContentFromChunk(s, c) =
        [ metFirstChunk |-> MetFirstChunk(s, c),
          isThinking    |-> EndTag(d) = 0,
          content       |-> IF EndTag(d) = 0 THEN <<>> ELSE After(d, EndTag(d)),
          reasoning     |-> IF EndTag(d) = 0 THEN d ELSE SubSeq(d, 1, EndTag(d) - 1) ]
    BY DEF extractReasoningContentFromChunk
<1>2. MetFirstChunk(s, c) = TRUE
    BY DEF MetFirstChunk
<1>3. PICK k : k = EndTag(d)
    OBVIOUS
<1>4. /\ e.metFirstChunk = MetFirstChunk(s, c)
      /\ e.isThinking = (k = 0)
      /\ e.content = IF k = 0 THEN <<>> ELSE After(d, k)
      /\ e.reasoning = IF k = 0 THEN d ELSE SubSeq(d, 1, k - 1)
    BY <1>1, <1>3
<1>5. e.metFirstChunk
    BY <1>2, <1>4
<1>6. e.isThinking <=> k = 0
    BY <1>4, Zenon
<1>7. Started(e, d)
    BY <1>3, <1>4, <1>5, <1>6 DEF Started
<1>8. QED
    BY <1>7

\* An empty chunk.
LEMMA ContinuesEmpty ==
    ASSUME NEW s, NEW x \in Words, Remembers(s, x)
    PROVE  Continues(s, x, <<>>)
<1>1. <<>> \in Words /\ x \in Seq(STRING)
    BY DEF Words
<1>2. x \o <<>> = x
    BY <1>1, ConcatEmptySeq
<1>3. EndTag(<<>>) = 0
    <2>1. \A i \in 1 .. Len(<<>>) : <<>>[i] # "</think>"
        OBVIOUS
    <2>2. QED
        BY <1>1, <2>1, EndTagNone
<1>4. PICK e : e = extractReasoningContentFromChunk(s, <<>>)
    OBVIOUS
<1>5. PICK z \in Words : z = <<>>
    BY <1>1
<1>6. /\ e.metFirstChunk <=> s.metFirstChunk
      /\ e.isThinking <=> s.isThinking
      /\ e.content = <<>> /\ e.reasoning = <<>>
    <2>1. s.metFirstChunk \in BOOLEAN /\ s.isThinking \in BOOLEAN
        BY DEF Remembers
    <2>2. /\ e.metFirstChunk <=> s.metFirstChunk \/ z # <<>>
          /\ e.isThinking <=> s.isThinking /\ EndTag(z) = 0
          /\ ~s.isThinking => e.content = z /\ e.reasoning = <<>>
          /\ s.isThinking /\ EndTag(z) = 0 => e.content = <<>> /\ e.reasoning = z
        BY <1>4, <1>5, <2>1, ChunkFacts
    <2>3. QED
        BY <1>3, <1>5, <2>2
<1>7. PICK k \in Choice : k = extractReasoningContent(x)
    BY ExtractType
<1>8. k.content \o <<>> = k.content /\ k.reasoning \o <<>> = k.reasoning
    <2>1. k.content \in Seq(STRING) /\ k.reasoning \in Seq(STRING)
        BY DEF Choice, Words
    <2>2. QED
        BY <2>1, ConcatEmptySeq
<1>9. QED
    BY <1>2, <1>4, <1>6, <1>7, <1>8 DEF Continues, Remembers

\* The first chunk.
LEMMA ContinuesFirst ==
    ASSUME NEW s, Remembers(s, <<>>), NEW c \in Words, c # <<>>
    PROVE  Continues(s, <<>>, c)
<1>1. <<>> \in Words /\ c \in Seq(STRING)
    BY DEF Words
<1>2. <<>> \o c = c
    BY <1>1, ConcatEmptySeq
<1>3. extractReasoningContent(<<>>).content = <<>> /\ extractReasoningContent(<<>>).reasoning = <<>>
    BY DEF extractReasoningContent
<1>4. ~s.metFirstChunk /\ ~s.isThinking /\ s.metFirstChunk \in BOOLEAN /\ s.isThinking \in BOOLEAN
    BY DEF Remembers, Open
<1>5. PICK e : e = extractReasoningContentFromChunk(s, c)
    OBVIOUS
<1>6. PICK k \in Choice : k = extractReasoningContent(c)
    BY ExtractType
<1>7. <<>> \o k.content = k.content /\ <<>> \o k.reasoning = k.reasoning
    <2>1. k.content \in Seq(STRING) /\ k.reasoning \in Seq(STRING)
        BY DEF Choice, Words
    <2>2. QED
        BY <2>1, ConcatEmptySeq
<1>8. SUFFICES /\ e.metFirstChunk /\ (e.isThinking <=> Open(c))
               /\ k.content = e.content /\ k.reasoning = e.reasoning
    BY <1>2, <1>3, <1>5, <1>6, <1>7 DEF Continues
<1>9. CASE c[1] # "<think>"
    <2>1. e.metFirstChunk /\ ~e.isThinking /\ e.content = c /\ e.reasoning = <<>>
        BY <1>4, <1>5, <1>9, ChunkFacts
    <2>2. k.content = c /\ k.reasoning = <<>>
        BY <1>6, <1>9, ExtractFacts
    <2>3. QED
        BY <1>9, <2>1, <2>2 DEF Open
<1>10. CASE c[1] = "<think>"
    <2>1. PICK n \in Nat : n = Len(c) /\ n # 0 /\ \A i \in 1 .. n : c[i] \in STRING
        BY <1>1, LenProperties, ElementOfSeq, EmptySeq
    <2>2. PICK d : d = Tail(c)
        OBVIOUS
    <2>3. d \in Words /\ d \in Seq(STRING) /\ Len(d) = n - 1 /\ \A i \in 1 .. n - 1 : d[i] = c[i + 1]
        BY <1>1, <2>1, <2>2, HeadTailProperties DEF Words
    <2>4. PICK k0 \in 0 .. n - 1 : k0 = EndTag(d)
        BY <2>3, EndTagFacts
    <2>5. /\ e.metFirstChunk /\ (e.isThinking <=> k0 = 0)
          /\ k0 = 0 => e.content = <<>> /\ e.reasoning = d
          /\ k0 # 0 => e.content = After(d, k0) /\ e.reasoning = SubSeq(d, 1, k0 - 1)
        <3>1. Started(e, d)
            BY <1>5, <1>10, <2>2, ChunkStarts
        <3>2. QED
            BY <2>4, <3>1 DEF Started
    <2>6. CASE k0 = 0
        <3>1. \A i \in 1 .. n - 1 : d[i] # "</think>"
            BY <2>3, <2>4, <2>6, EndTagFacts
        <3>2. \A i \in 1 .. n : c[i] # "</think>"
            <4>1. SUFFICES ASSUME NEW i \in 1 .. n
                           PROVE  c[i] # "</think>"
                OBVIOUS
            <4>2. CASE i = 1
                BY <1>10, <4>2
            <4>3. CASE i # 1
                <5>1. i - 1 \in 1 .. n - 1 /\ (i - 1) + 1 = i
                    BY <4>3
                <5>2. QED
                    BY <2>3, <3>1, <5>1
            <4>4. QED
                BY <4>2, <4>3
        <3>3. EndTag(c) = 0
            BY <2>1, <3>2, EndTagNone
        <3>4. Open(c)
            BY <1>10, <3>3 DEF Open
        <3>5. k.content = <<>> /\ k.reasoning = d
            BY <1>6, <2>2, <3>4, ExtractFacts
        <3>6. QED
            BY <2>5, <2>6, <3>4, <3>5
    <2>7. CASE k0 # 0
        <3>1. d[k0] = "</think>" /\ \A i \in 1 .. k0 - 1 : d[i] # "</think>"
            BY <2>3, <2>4, <2>7, EndTagFacts
        <3>2. PICK m \in 1 .. n : m = k0 + 1
            BY <2>7
        <3>3. c[m] = "</think>" /\ \A i \in 1 .. m - 1 : c[i] # "</think>"
            <4>1. k0 \in 1 .. n - 1
                BY <2>7
            <4>2. c[m] = "</think>"
                BY <2>3, <3>1, <3>2, <4>1
            <4>3. ASSUME NEW i \in 1 .. m - 1
                  PROVE  c[i] # "</think>"
                <5>1. CASE i = 1
                    BY <1>10, <5>1
                <5>2. CASE i # 1
                    <6>1. i - 1 \in 1 .. k0 - 1 /\ i - 1 \in 1 .. n - 1 /\ (i - 1) + 1 = i
                        BY <3>2, <5>2
                    <6>2. QED
                        BY <2>3, <3>1, <6>1
                <5>3. QED
                    BY <5>1, <5>2
            <4>4. QED
                BY <4>2, <4>3
        <3>4. EndTag(c) = m /\ m # 0
            BY <2>1, <3>3, EndTagIs
        <3>5. ~Open(c)
            BY <3>4 DEF Open
        <3>6. k.content = After(c, m) /\ k.reasoning = SubSeq(c, 2, m - 1)
            BY <1>6, <1>10, <3>4, ExtractFacts
        <3>7. After(c, m) = After(d, k0)
            <4>1. PICK a : a = SubSeq(c, m + 1, n)
                OBVIOUS
            <4>2. PICK b : b = SubSeq(d, k0 + 1, n - 1)
                OBVIOUS
            <4>3. \A i \in m + 1 .. n : c[i] \in STRING
                BY <2>1
            <4>4. \A i \in k0 + 1 .. n - 1 : d[i] \in STRING
                BY <2>1, <2>3
            <4>5. /\ a \in Seq(STRING) /\ Len(a) = IF m + 1 <= n THEN n - (m + 1) + 1 ELSE 0
                  /\ \A i \in 1 .. n - (m + 1) + 1 : a[i] = c[(m + 1) + i - 1]
                BY <4>1, <4>3, SubSeqProperties
            <4>6. /\ b \in Seq(STRING)
                  /\ Len(b) = IF k0 + 1 <= n - 1 THEN (n - 1) - (k0 + 1) + 1 ELSE 0
                  /\ \A i \in 1 .. (n - 1) - (k0 + 1) + 1 : b[i] = d[(k0 + 1) + i - 1]
                BY <4>2, <4>4, SubSeqProperties
            <4>7. PICK l \in Nat : l = n - m
                OBVIOUS
            <4>8. Len(a) = l /\ Len(b) = l
                BY <3>2, <4>5, <4>6, <4>7
            <4>9. ASSUME NEW i \in 1 .. l
                  PROVE  a[i] = b[i]
                <5>1. /\ i \in 1 .. n - (m + 1) + 1 /\ (m + 1) + i - 1 = (k0 + i) + 1
                      /\ i \in 1 .. (n - 1) - (k0 + 1) + 1 /\ (k0 + 1) + i - 1 = k0 + i
                      /\ k0 + i \in 1 .. n - 1
                    BY <3>2, <4>7
                <5>2. QED
                    BY <2>3, <4>5, <4>6, <5>1
            <4>10. a = b
                BY <4>5, <4>6, <4>8, <4>9, SeqEqual
            <4>11. QED
                BY <2>1, <2>3, <4>1, <4>2, <4>10 DEF After
        <3>8. SubSeq(c, 2, m - 1) = SubSeq(d, 1, k0 - 1)
            <4>1. PICK a : a = SubSeq(c, 2, m - 1)
                OBVIOUS
            <4>2. PICK b : b = SubSeq(d, 1, k0 - 1)
                OBVIOUS
            <4>3. \A i \in 2 .. m - 1 : c[i] \in STRING
                BY <2>1
            <4>4. \A i \in 1 .. k0 - 1 : d[i] \in STRING
                BY <2>1, <2>3
            <4>5. /\ a \in Seq(STRING) /\ Len(a) = IF 2 <= m - 1 THEN (m - 1) - 2 + 1 ELSE 0
                  /\ \A i \in 1 .. (m - 1) - 2 + 1 : a[i] = c[2 + i - 1]
                BY <4>1, <4>3, SubSeqProperties
            <4>6. /\ b \in Seq(STRING) /\ Len(b) = IF 1 <= k0 - 1 THEN (k0 - 1) - 1 + 1 ELSE 0
                  /\ \A i \in 1 .. (k0 - 1) - 1 + 1 : b[i] = d[1 + i - 1]
                BY <4>2, <4>4, SubSeqProperties
            <4>7. PICK l \in Nat : l = k0 - 1
                BY <2>7
            <4>8. Len(a) = l /\ Len(b) = l
                BY <3>2, <4>5, <4>6, <4>7
            <4>9. ASSUME NEW i \in 1 .. l
                  PROVE  a[i] = b[i]
                <5>1. /\ i \in 1 .. (m - 1) - 2 + 1 /\ 2 + i - 1 = i + 1
                      /\ i \in 1 .. (k0 - 1) - 1 + 1 /\ 1 + i - 1 = i
                      /\ i \in 1 .. n - 1
                    BY <3>2, <4>7
                <5>2. QED
                    BY <2>3, <4>5, <4>6, <5>1
            <4>10. a = b
                BY <4>5, <4>6, <4>8, <4>9, SeqEqual
            <4>11. QED
                BY <4>1, <4>2, <4>10
        <3>9. QED
            BY <2>5, <2>7, <3>5, <3>6, <3>7, <3>8
    <2>8. QED
        BY <2>6, <2>7
<1>11. QED
    BY <1>9, <1>10

\* A later chunk: y is the text x with c added.
Extended(x, c, y) ==
    /\ y \in Words /\ y # <<>> /\ y[1] = x[1]
    /\ Tail(y) = Tail(x) \o c
    /\ \A k \in 1 .. Len(x) : /\ After(y, k) = After(x, k) \o c
                              /\ SubSeq(y, 2, k - 1) = SubSeq(x, 2, k - 1)
    /\ \A k \in 1 .. Len(c) : /\ After(y, Len(x) + k) = After(c, k)
                              /\ SubSeq(y, 2, Len(x) + k - 1) =
                                    Tail(x) \o SubSeq(c, 1, k - 1)

LEMMA LaterText ==
    ASSUME NEW x \in Words, x # <<>>, NEW c \in Words
    PROVE  Extended(x, c, x \o c)
<1>1. x \in Seq(STRING) /\ c \in Seq(STRING)
    BY DEF Words
<1>2. PICK n \in Nat : n = Len(x) /\ n # 0
    BY <1>1, LenProperties, EmptySeq
<1>3. PICK m \in Nat : m = Len(c)
    BY <1>1, LenProperties
<1>4. PICK y : y = x \o c
    OBVIOUS
<1>5. /\ y \in Seq(STRING) /\ Len(y) = n + m
      /\ \A i \in 1 .. n + m : y[i] = IF i <= n THEN x[i] ELSE c[i - n]
    BY <1>1, <1>2, <1>3, <1>4, ConcatProperties
<1>6. y # <<>> /\ y[1] = x[1]
    <2>1. 1 \in 1 .. n + m /\ 1 <= n /\ n + m # 0
        BY <1>2
    <2>2. QED
        BY <1>5, <2>1
<1>7. ASSUME NEW k \in 1 .. n
      PROVE  SubSeq(y, k + 1, n + m) = SubSeq(x, k + 1, n) \o c
    <2>1. PICK a : a = SubSeq(y, k + 1, n + m)
        OBVIOUS
    <2>2. PICK b : b = SubSeq(x, k + 1, n)
        OBVIOUS
    <2>3. (\A i \in k + 1 .. n + m : y[i] \in STRING) /\ (\A i \in k + 1 .. n : x[i] \in STRING)
        BY <1>1, <1>2, <1>5, ElementOfSeq
    <2>4. /\ a \in Seq(STRING)
          /\ Len(a) = IF k + 1 <= n + m THEN (n + m) - (k + 1) + 1 ELSE 0
          /\ \A i \in 1 .. (n + m) - (k + 1) + 1 : a[i] = y[(k + 1) + i - 1]
        BY <2>1, <2>3, SubSeqProperties
    <2>5. /\ b \in Seq(STRING)
          /\ Len(b) = IF k + 1 <= n THEN n - (k + 1) + 1 ELSE 0
          /\ \A i \in 1 .. n - (k + 1) + 1 : b[i] = x[(k + 1) + i - 1]
        BY <2>2, <2>3, SubSeqProperties
    <2>6. PICK l \in Nat : l = n - k
        OBVIOUS
    <2>7. Len(a) = l + m /\ Len(b) = l
        BY <2>4, <2>5, <2>6
    <2>8. PICK f : f = b \o c
        OBVIOUS
    <2>9. /\ f \in Seq(STRING) /\ Len(f) = l + m
          /\ \A i \in 1 .. l + m : f[i] = IF i <= l THEN b[i] ELSE c[i - l]
        BY <1>1, <1>3, <2>5, <2>7, <2>8, ConcatProperties
    <2>10. ASSUME NEW i \in 1 .. l + m
           PROVE  a[i] = f[i]
        <3>1. /\ i \in 1 .. (n + m) - (k + 1) + 1 /\ (k + 1) + i - 1 = k + i
              /\ k + i \in 1 .. n + m
            BY <2>6
        <3>2. a[i] = y[k + i]
            BY <2>4, <3>1
        <3>3. CASE i <= l
            <4>1. i \in 1 .. n - (k + 1) + 1 /\ k + i <= n
                BY <2>6, <3>3
            <4>2. b[i] = x[k + i]
                BY <2>5, <3>1, <4>1
            <4>3. QED
                BY <1>5, <2>9, <3>1, <3>2, <3>3, <4>1, <4>2
        <3>4. CASE ~(i <= l)
            <4>1. ~(k + i <= n) /\ (k + i) - n = i - l
                BY <2>6, <3>4
            <4>2. y[k + i] = c[i - l]
                BY <1>5, <3>1, <4>1
            <4>3. QED
                BY <2>9, <3>2, <3>4, <4>2
        <3>5. QED
            BY <3>3, <3>4
    <2>11. Len(a) = Len(f) /\ \A i \in 1 .. Len(a) : a[i] = f[i]
        BY <2>7, <2>9, <2>10
    <2>12. a = f
        BY <2>4, <2>9, <2>11, SeqEqual
    <2>13. QED
        BY <2>1, <2>2, <2>8, <2>12
<1>8. ASSUME NEW k \in 1 .. n
      PROVE  SubSeq(y, 2, k - 1) = SubSeq(x, 2, k - 1)
    <2>1. PICK a : a = SubSeq(y, 2, k - 1)
        OBVIOUS
    <2>2. PICK b : b = SubSeq(x, 2, k - 1)
        OBVIOUS
    <2>3. (\A i \in 2 .. k - 1 : y[i] \in STRING) /\ (\A i \in 2 .. k - 1 : x[i] \in STRING)
        BY <1>1, <1>2, <1>5, ElementOfSeq
    <2>4. /\ a \in Seq(STRING) /\ Len(a) = IF 2 <= k - 1 THEN (k - 1) - 2 + 1 ELSE 0
          /\ \A i \in 1 .. (k - 1) - 2 + 1 : a[i] = y[2 + i - 1]
        BY <2>1, <2>3, SubSeqProperties
    <2>5. /\ b \in Seq(STRING) /\ Len(b) = IF 2 <= k - 1 THEN (k - 1) - 2 + 1 ELSE 0
          /\ \A i \in 1 .. (k - 1) - 2 + 1 : b[i] = x[2 + i - 1]
        BY <2>2, <2>3, SubSeqProperties
    <2>6. Len(a) = Len(b)
        BY <2>4, <2>5
    <2>7. ASSUME NEW i \in 1 .. Len(a)
          PROVE  a[i] = b[i]
        <3>1. /\ i \in 1 .. (k - 1) - 2 + 1 /\ 2 + i - 1 \in 1 .. n + m /\ 2 + i - 1 <= n
            BY <2>4
        <3>2. QED
            BY <1>5, <2>4, <2>5, <3>1
    <2>8. a = b
        BY <2>4, <2>5, <2>6, <2>7, SeqEqual
    <2>9. QED
        BY <2>1, <2>2, <2>8
<1>9. ASSUME NEW k \in 1 .. m
      PROVE  SubSeq(y, n + k + 1, n + m) = SubSeq(c, k + 1, m)
    <2>1. PICK a : a = SubSeq(y, n + k + 1, n + m)
        OBVIOUS
    <2>2. PICK b : b = SubSeq(c, k + 1, m)
        OBVIOUS
    <2>3. (\A i \in n + k + 1 .. n + m : y[i] \in STRING) /\ (\A i \in k + 1 .. m : c[i] \in STRING)
        BY <1>1, <1>3, <1>5, ElementOfSeq
    <2>4. /\ a \in Seq(STRING)
          /\ Len(a) = IF n + k + 1 <= n + m THEN (n + m) - (n + k + 1) + 1 ELSE 0
          /\ \A i \in 1 .. (n + m) - (n + k + 1) + 1 : a[i] = y[(n + k + 1) + i - 1]
        BY <2>1, <2>3, SubSeqProperties
    <2>5. /\ b \in Seq(STRING) /\ Len(b) = IF k + 1 <= m THEN m - (k + 1) + 1 ELSE 0
          /\ \A i \in 1 .. m - (k + 1) + 1 : b[i] = c[(k + 1) + i - 1]
        BY <2>2, <2>3, SubSeqProperties
    <2>6. PICK l \in Nat : l = m - k
        OBVIOUS
    <2>7. Len(a) = l /\ Len(b) = l
        BY <2>4, <2>5, <2>6
    <2>8. ASSUME NEW i \in 1 .. l
          PROVE  a[i] = b[i]
        <3>1. /\ i \in 1 .. (n + m) - (n + k + 1) + 1 /\ (n + k + 1) + i - 1 = n + (k + i)
              /\ i \in 1 .. m - (k + 1) + 1 /\ (k + 1) + i - 1 = k + i
              /\ n + (k + i) \in 1 .. n + m /\ ~(n + (k + i) <= n) /\ (n + (k + i)) - n = k + i
            BY <2>6
        <3>2. a[i] = y[n + (k + i)] /\ b[i] = c[k + i]
            BY <2>4, <2>5, <3>1
        <3>3. y[n + (k + i)] = c[k + i]
            BY <1>5, <3>1
        <3>4. QED
            BY <3>2, <3>3
    <2>9. Len(a) = Len(b) /\ \A i \in 1 .. Len(a) : a[i] = b[i]
        BY <2>7, <2>8
    <2>10. a = b
        BY <2>4, <2>5, <2>9, SeqEqual
    <2>11. QED
        BY <2>1, <2>2, <2>10
<1>10. PICK d : d = Tail(x)
    OBVIOUS
<1>11. d \in Seq(STRING) /\ d = SubSeq(x, 2, n)
    BY <1>1, <1>2, <1>10, HeadTailProperties, TailIsSubSeq
<1>12. Tail(y) = d \o c
    <2>1. Tail(y) = SubSeq(y, 2, n + m)
        BY <1>5, <1>6, TailIsSubSeq
    <2>2. SubSeq(y, 2, n + m) = SubSeq(x, 2, n) \o c
        <3>1. 1 \in 1 .. n /\ 1 + 1 = 2
            BY <1>2
        <3>2. SubSeq(y, 1 + 1, n + m) = SubSeq(x, 1 + 1, n) \o c
            BY <1>7, <3>1
        <3>3. QED
            BY <3>1, <3>2
    <2>3. QED
        BY <1>11, <2>1, <2>2
<1>13. ASSUME NEW k \in 1 .. m
       PROVE  SubSeq(y, 2, n + k - 1) = d \o SubSeq(c, 1, k - 1)
    <2>1. PICK g : g = SubSeq(c, 1, k - 1)
        OBVIOUS
    <2>2. \A i \in 1 .. k - 1 : c[i] \in STRING
        BY <1>1, <1>3, ElementOfSeq
    <2>3. /\ g \in Seq(STRING) /\ Len(g) = IF 1 <= k - 1 THEN (k - 1) - 1 + 1 ELSE 0
          /\ \A i \in 1 .. (k - 1) - 1 + 1 : g[i] = c[1 + i - 1]
        BY <2>1, <2>2, SubSeqProperties
    <2>4. PICK l \in Nat : l = k - 1
        OBVIOUS
    <2>5. Len(g) = l /\ \A i \in 1 .. l : g[i] = c[i]
        <3>1. Len(g) = l
            BY <2>3, <2>4
        <3>2. ASSUME NEW i \in 1 .. l
              PROVE  g[i] = c[i]
            <4>1. i \in 1 .. (k - 1) - 1 + 1 /\ 1 + i - 1 = i
                BY <2>4
            <4>2. QED
                BY <2>3, <4>1
        <3>3. QED
            BY <3>1, <3>2
    <2>6. Len(d) = n - 1 /\ \A i \in 1 .. n - 1 : d[i] = x[i + 1]
        BY <1>1, <1>2, <1>10, HeadTailProperties
    <2>7. PICK f : f = d \o g
        OBVIOUS
    <2>8. /\ f \in Seq(STRING) /\ Len(f) = (n - 1) + l
          /\ \A i \in 1 .. (n - 1) + l : f[i] = IF i <= n - 1 THEN d[i] ELSE g[i - (n - 1)]
        <3>1. PICK q \in Nat : q = Len(d) /\ q = n - 1
            BY <1>2, <2>6, SMTT(30)
        <3>2. /\ f \in Seq(STRING) /\ Len(f) = q + l
              /\ \A i \in 1 .. q + l : f[i] = IF i <= q THEN d[i] ELSE g[i - q]
            BY <1>11, <2>3, <2>5, <2>7, <3>1, ConcatProperties
        <3>3. QED
            BY <3>1, <3>2
    <2>9. PICK a : a = SubSeq(y, 2, n + k - 1)
        OBVIOUS
    <2>10. \A i \in 2 .. n + k - 1 : y[i] \in STRING
        <3>1. \A i \in 1 .. n + m : y[i] \in STRING
            BY <1>5, ElementOfSeq
        <3>2. QED
            BY <1>2, <1>3, <3>1
    <2>11. /\ a \in Seq(STRING)
           /\ Len(a) = IF 2 <= n + k - 1 THEN (n + k - 1) - 2 + 1 ELSE 0
           /\ \A i \in 1 .. (n + k - 1) - 2 + 1 : a[i] = y[2 + i - 1]
        BY <2>9, <2>10, SubSeqProperties
    <2>12. Len(a) = (n - 1) + l
        BY <1>2, <2>4, <2>11
    <2>13. ASSUME NEW i \in 1 .. (n - 1) + l
           PROVE  a[i] = f[i]
        <3>1. /\ i \in 1 .. (n + k - 1) - 2 + 1 /\ 2 + i - 1 = i + 1
              /\ i + 1 \in 1 .. n + m
            BY <1>2, <2>4
        <3>2. a[i] = y[i + 1]
            BY <2>11, <3>1
        <3>3. CASE i <= n - 1
            <4>1. i \in 1 .. n - 1 /\ i + 1 <= n
                BY <3>3
            <4>2. QED
                BY <1>5, <2>6, <2>8, <3>1, <3>2, <3>3, <4>1
        <3>4. CASE ~(i <= n - 1)
            <4>1. ~(i + 1 <= n) /\ (i + 1) - n = i - (n - 1) /\ i - (n - 1) \in 1 .. l
                BY <1>2, <3>4
            <4>2. y[i + 1] = c[i - (n - 1)] /\ f[i] = c[i - (n - 1)]
                BY <1>5, <2>5, <2>8, <3>1, <3>4, <4>1
            <4>3. QED
                BY <3>2, <4>2
        <3>5. QED
            BY <3>3, <3>4
    <2>14. Len(a) = Len(f) /\ \A i \in 1 .. Len(a) : a[i] = f[i]
        BY <2>8, <2>12, <2>13
    <2>15. a = f
        BY <2>8, <2>11, <2>14, SeqEqual
    <2>16. QED
        BY <2>1, <2>7, <2>9, <2>15
<1>14. \A k \in 1 .. n : /\ After(y, k) = After(x, k) \o c
                         /\ SubSeq(y, 2, k - 1) = SubSeq(x, 2, k - 1)
    BY <1>2, <1>5, <1>7, <1>8 DEF After
<1>15. \A k \in 1 .. m : /\ After(y, n + k) = After(c, k)
                         /\ SubSeq(y, 2, n + k - 1) = d \o SubSeq(c, 1, k - 1)
    BY <1>3, <1>5, <1>9, <1>13 DEF After
<1>16. Extended(x, c, y)
    BY <1>2, <1>3, <1>5, <1>6, <1>10, <1>12, <1>14, <1>15 DEF Extended, Words
<1>17. QED
    BY <1>4, <1>16

\* The state between chunks and a later chunk: nothing starts any more.
Carried(e, s, c) ==
    /\ e.metFirstChunk /\ (e.isThinking <=> s.isThinking /\ EndTag(c) = 0)
    /\ ~s.isThinking => e.content = c /\ e.reasoning = <<>>
    /\ s.isThinking /\ EndTag(c) = 0 => e.content = <<>> /\ e.reasoning = c
    /\ s.isThinking /\ EndTag(c) # 0 => e.content = After(c, EndTag(c))
    /\ s.isThinking /\ EndTag(c) # 0 => e.reasoning = SubSeq(c, 1, EndTag(c) - 1)

LEMMA ChunkCarries ==
    ASSUME NEW s, s.metFirstChunk = TRUE, s.isThinking \in BOOLEAN, NEW c \in Words
    PROVE  Carried(extractReasoningContentFromChunk(s, c), s, c)
<1> PICK e : e = extractReasoningContentFromChunk(s, c)
    OBVIOUS
<1>1. extractReasoningContentFromChunk(s, c) =
        [ metFirstChunk |-> MetFirstChunk(s, c),
          isThinking    |-> s.isThinking /\ EndTag(c) = 0,
          content       |-> IF ~s.isThinking THEN c
                            ELSE IF EndTag(c) = 0 THEN <<>> ELSE After(c, EndTag(c)),
          reasoning     |-> IF ~s.isThinking THEN <<>>
                            ELSE IF EndTag(c) = 0 THEN c ELSE SubSeq(c, 1, EndTag(c) - 1) ]
    BY DEF extractReasoningContentFromChunk
<1>2. MetFirstChunk(s, c) = TRUE
    BY DEF MetFirstChunk
<1>3. PICK k : k = EndTag(c)
    OBVIOUS
<1>4. /\ e.metFirstChunk = MetFirstChunk(s, c)
      /\ e.isThinking = (s.isThinking /\ k = 0)
      /\ e.content = IF ~s.isThinking THEN c ELSE IF k = 0 THEN <<>> ELSE After(c, k)
      /\ e.reasoning = IF ~s.isThinking THEN <<>> ELSE IF k = 0 THEN c ELSE SubSeq(c, 1, k - 1)
    BY <1>1, <1>3
<1>5. e.metFirstChunk
    BY <1>2, <1>4
<1>6. e.isThinking <=> s.isThinking /\ k = 0
    BY <1>4, Zenon
<1>7. Carried(e, s, c)
    BY <1>3, <1>4, <1>5, <1>6 DEF Carried
<1>8. QED
    BY <1>7

LEMMA ContinuesLater ==
    ASSUME NEW s, NEW x \in Words, x # <<>>, Remembers(s, x), NEW c \in Words
    PROVE  Continues(s, x, c)
<1>1. x \in Seq(STRING) /\ c \in Seq(STRING)
    BY DEF Words
<1>2. PICK n \in Nat : n = Len(x) /\ n # 0
    BY <1>1, LenProperties, EmptySeq
<1>3. PICK m \in Nat : m = Len(c)
    BY <1>1, LenProperties
<1>4. PICK y : y = x \o c
    OBVIOUS
<1> Extended(x, c, y)
    BY <1>4, LaterText
<1> y \in Words /\ y # <<>> /\ y[1] = x[1]
    BY DEF Extended
<1>5. Len(y) = n + m /\ \A i \in 1 .. n + m : y[i] = IF i <= n THEN x[i] ELSE c[i - n]
    BY <1>1, <1>2, <1>3, <1>4, ConcatProperties
<1>6. PICK e : e = extractReasoningContentFromChunk(s, c)
    OBVIOUS
<1>7. s.metFirstChunk = TRUE /\ s.isThinking \in BOOLEAN /\ (s.isThinking <=> Open(x))
    BY DEF Remembers
<1>8. Carried(e, s, c)
    BY <1>6, <1>7, ChunkCarries
<1>9. PICK k \in Choice : k = extractReasoningContent(x)
    BY ExtractType
<1>10. PICK l \in Choice : l = extractReasoningContent(y)
    BY ExtractType
<1>11. k.content \in Seq(STRING) /\ k.reasoning \in Seq(STRING)
    BY DEF Choice, Words
<1>12. SUFFICES /\ e.isThinking <=> Open(y)
                /\ l.content = k.content \o e.content
                /\ l.reasoning = k.reasoning \o e.reasoning
    BY <1>4, <1>6, <1>8, <1>9, <1>10 DEF Continues, Carried
<1>13. CASE x[1] # "<think>"
    <2>1. ~Open(x) /\ ~Open(y)
        BY <1>4, <1>13 DEF Open
    <2>2. ~e.isThinking /\ e.content = c /\ e.reasoning = <<>>
        BY <1>7, <1>8, <2>1 DEF Carried
    <2>3. k.content = x /\ k.reasoning = <<>> /\ l.content = y /\ l.reasoning = <<>>
        BY <1>4, <1>9, <1>10, <1>13, ExtractFacts
    <2>4. <<>> \o <<>> = <<>>
        BY <1>1, ConcatEmptySeq
    <2>5. QED
        BY <1>4, <2>1, <2>2, <2>3, <2>4
<1>14. CASE x[1] = "<think>" /\ EndTag(x) # 0
    <2>1. PICK g \in 1 .. n : g = EndTag(x)
        BY <1>2, <1>14, EndTagFacts
    <2>2. x[g] = "</think>" /\ \A i \in 1 .. g - 1 : x[i] # "</think>"
        BY <1>14, <2>1, EndTagFacts
    <2>3. g \in 1 .. n + m /\ g <= n /\ \A i \in 1 .. g - 1 : i \in 1 .. n + m /\ i <= n
        BY <1>2, <1>3, <2>1
    <2>4. y[g] = "</think>" /\ \A i \in 1 .. g - 1 : y[i] # "</think>"
        BY <1>5, <2>2, <2>3
    <2>5. EndTag(y) = g /\ g # 0
        BY <1>5, <2>3, <2>4, EndTagIs
    <2>6. ~Open(x) /\ ~Open(y)
        BY <1>14, <2>5 DEF Open
    <2>7. ~e.isThinking /\ e.content = c /\ e.reasoning = <<>>
        BY <1>7, <1>8, <2>6 DEF Carried
    <2>8. k.content = After(x, g) /\ k.reasoning = SubSeq(x, 2, g - 1)
        BY <1>9, <1>14, <2>1, ExtractFacts
    <2>9. l.content = After(y, g) /\ l.reasoning = SubSeq(y, 2, g - 1)
        BY <1>4, <1>10, <1>14, <2>5, ExtractFacts, ZenonT(30)
    <2>10. After(y, g) = After(x, g) \o c /\ SubSeq(y, 2, g - 1) = SubSeq(x, 2, g - 1)
        BY <1>2, <2>1 DEF Extended
    <2>11. k.reasoning \o <<>> = k.reasoning
        BY <1>11, ConcatEmptySeq
    <2>12. QED
        BY <2>6, <2>7, <2>8, <2>9, <2>10, <2>11
<1>15. CASE x[1] = "<think>" /\ EndTag(x) = 0
    <2>1. Open(x) /\ s.isThinking
        BY <1>7, <1>15 DEF Open
    <2>2. k.content = <<>> /\ k.reasoning = Tail(x)
        BY <1>9, <2>1, ExtractFacts
    <2>3. \A i \in 1 .. n : x[i] # "</think>"
        BY <1>2, <1>15, EndTagFacts
    <2>4. CASE EndTag(c) = 0
        <3>1. \A i \in 1 .. m : c[i] # "</think>"
            BY <1>3, <2>4, EndTagFacts
        <3>2. ASSUME NEW i \in 1 .. n + m
              PROVE  y[i] # "</think>"
            <4>1. CASE i <= n
                <5>1. i \in 1 .. n
                    BY <4>1
                <5>2. QED
                    BY <1>5, <2>3, <4>1, <5>1
            <4>2. CASE ~(i <= n)
                <5>1. i - n \in 1 .. m
                    BY <4>2
                <5>2. QED
                    BY <1>5, <3>1, <4>2, <5>1
            <4>3. QED
                BY <4>1, <4>2
        <3>3. EndTag(y) = 0
            BY <1>5, <3>2, EndTagNone
        <3>4. Open(y)
            BY <1>4, <1>15, <3>3 DEF Open
        <3>5. l.content = <<>> /\ l.reasoning = Tail(y)
            BY <1>10, <3>4, ExtractFacts
        <3>6. e.isThinking /\ e.content = <<>> /\ e.reasoning = c
            BY <1>8, <2>1, <2>4 DEF Carried
        <3>7. Tail(y) = Tail(x) \o c
            BY DEF Extended
        <3>8. <<>> \o <<>> = <<>>
            BY <1>1, ConcatEmptySeq
        <3>9. QED
            BY <2>2, <3>4, <3>5, <3>6, <3>7, <3>8
    <2>5. CASE EndTag(c) # 0
        <3>1. PICK g \in 1 .. m : g = EndTag(c)
            BY <1>3, <2>5, EndTagFacts
        <3>2. c[g] = "</think>" /\ \A i \in 1 .. g - 1 : c[i] # "</think>"
            BY <2>5, <3>1, EndTagFacts
        <3>3. PICK h \in 1 .. n + m : h = n + g
            BY <3>1
        <3>4. y[h] = "</think>"
            <4>1. ~(h <= n) /\ h - n = g
                BY <3>1, <3>3
            <4>2. QED
                BY <1>5, <3>2, <3>3, <4>1
        <3>5. ASSUME NEW i \in 1 .. h - 1
              PROVE  y[i] # "</think>"
            <4>1. i \in 1 .. n + m
                BY <3>3
            <4>2. CASE i <= n
                <5>1. i \in 1 .. n
                    BY <4>2
                <5>2. QED
                    BY <1>5, <2>3, <4>1, <4>2, <5>1
            <4>3. CASE ~(i <= n)
                <5>1. i - n \in 1 .. g - 1
                    BY <3>3, <4>3
                <5>2. QED
                    BY <1>5, <3>2, <4>1, <4>3, <5>1
            <4>4. QED
                BY <4>2, <4>3
        <3>6. EndTag(y) = h /\ h # 0
            BY <1>5, <3>3, <3>4, <3>5, EndTagIs, SMTT(30)
        <3>7. ~Open(y)
            BY <3>6 DEF Open
        <3>8. l.content = After(y, h) /\ l.reasoning = SubSeq(y, 2, h - 1)
            BY <1>4, <1>10, <1>15, <3>6, ExtractFacts, ZenonT(30)
        <3>9. e.content = After(c, g) /\ e.reasoning = SubSeq(c, 1, g - 1) /\ ~e.isThinking
            BY <1>8, <2>1, <2>5, <3>1 DEF Carried
        <3>10. After(y, n + g) = After(c, g) /\ SubSeq(y, 2, n + g - 1) = Tail(x) \o SubSeq(c, 1, g - 1)
            BY <1>2, <1>3, <3>1 DEF Extended
        <3>11. <<>> \o e.content = e.content
            <4>1. e.content \in Seq(STRING)
                <5>1. \A i \in g + 1 .. m : c[i] \in STRING
                    BY <1>1, <1>3, ElementOfSeq
                <5>2. SubSeq(c, g + 1, m) \in Seq(STRING)
                    BY <5>1, SubSeqProperties
                <5>3. QED
                    BY <1>3, <3>9, <5>2 DEF After
            <4>2. QED
                BY <4>1, ConcatEmptySeq
        <3>12. QED
            BY <2>2, <3>3, <3>7, <3>8, <3>9, <3>10, <3>11
    <2>6. QED
        BY <2>4, <2>5
<1>16. QED
    BY <1>13, <1>14, <1>15

\* Whatever the chunk, it continues the text so far.
LEMMA ChunkContinues ==
    ASSUME NEW s, NEW x \in Words, Remembers(s, x), NEW c \in Words
    PROVE  Continues(s, x, c)
<1>1. CASE x # <<>>
    BY <1>1, ContinuesLater
<1>2. CASE x = <<>> /\ c # <<>>
    <2>1. Remembers(s, <<>>)
        BY <1>2
    <2>2. QED
        BY <1>2, <2>1, ContinuesFirst
<1>3. CASE c = <<>>
    BY <1>3, ContinuesEmpty
<1>4. QED
    BY <1>1, <1>2, <1>3

-----------------------------------------------------------------------------
\* Reasoning split chunk by chunk.

LEMMA OneChoice ==
    ASSUME NEW ch \in Choice
    PROVE  /\ Contents(Append(<<>>, ch)) = ch.content
           /\ Reasonings(Append(<<>>, ch)) = ch.reasoning
<1>1. PICK one : one = Append(<<>>, ch)
    OBVIOUS
<1>2. DOMAIN one = 1 .. 1 /\ one[1] = ch
    BY <1>1
<1>3. ch.content \in Words /\ ch.reasoning \in Words
    BY DEF Choice
<1>4. [i \in DOMAIN one |-> one[i].content] = Append(<<>>, ch.content)
    BY <1>2
<1>5. [i \in DOMAIN one |-> one[i].reasoning] = Append(<<>>, ch.reasoning)
    BY <1>2
<1>6. ASSUME NEW w \in Words
      PROVE  FlattenSeq(Append(<<>>, w)) = w
    <2>1. PICK Q : Q = Seq(STRING)
        OBVIOUS
    <2>2. <<>> \in Seq(Q)
        OBVIOUS
    <2>3. w \in Seq(STRING) /\ <<>> \in Seq(Seq(STRING))
        BY <2>1, <2>2 DEF Words
    <2>4. FlattenSeq(Append(<<>>, w)) = FlattenSeq(<<>>) \o w /\ FlattenSeq(<<>>) = <<>>
        BY <2>3, FlattenRules
    <2>5. QED
        BY <2>3, <2>4, ConcatEmptySeq
<1>7. QED
    BY <1>1, <1>3, <1>4, <1>5, <1>6 DEF Contents, Reasonings

\* Messages with at most one choice and no reasoning of their own.
Ones == {m \in DOMAIN Body : Single(m)}

LEMMA SingleFacts ==
    ASSUME NEW m \in Ones
    PROVE  /\ ChoicesOf(m) \in ChoiceLists
           /\ \/ ChoicesOf(m) = <<>>
              \/ \E ch \in Choice : ch.reasoning = <<>> /\ ChoicesOf(m) = Append(<<>>, ch)
<1>1. m \in DOMAIN Body /\ Single(m)
    BY DEF Ones
<1>2. <<>> \in ChoiceLists
    BY DEF ChoiceLists
<1>3. CASE Body[m].kind # "chunk"
    BY <1>2, <1>3 DEF ChoicesOf
<1>4. CASE Body[m].kind = "chunk"
    <2>1. PICK cs \in ChoiceLists : cs = ChoicesOf(m)
        BY <1>1, <1>4, BodyAssumption DEF ChoicesOf
    <2>2. Len(cs) <= 1 /\ Reasonings(cs) = <<>>
        BY <1>1, <1>4, <2>1 DEF Single
    <2>3. PICK n \in Nat : n = Len(cs) /\ \A i \in 1 .. n : cs[i] \in Choice
        BY LenProperties, ElementOfSeq DEF ChoiceLists
    <2>4. CASE n = 0
        <3>1. cs = <<>>
            BY <2>3, <2>4, EmptySeq DEF ChoiceLists
        <3>2. QED
            BY <2>1, <3>1
    <2>5. CASE n # 0
        <3>1. n = 1
            BY <2>2, <2>3, <2>5
        <3>2. PICK ch \in Choice : ch = cs[1]
            BY <2>3, <3>1
        <3>3. cs = Append(<<>>, ch)
            <4>1. PICK one : one = Append(<<>>, ch)
                OBVIOUS
            <4>2. one \in Seq(Choice) /\ Len(one) = 1 /\ one[1] = ch
                BY <4>1
            <4>3. Len(cs) = Len(one) /\ \A i \in 1 .. Len(cs) : cs[i] = one[i]
                BY <2>3, <3>1, <3>2, <4>2
            <4>4. cs \in Seq(Choice)
                BY DEF ChoiceLists
            <4>5. QED
                BY <4>1, <4>2, <4>3, <4>4, SeqEqual
        <3>4. ch.reasoning = <<>>
            BY <2>2, <3>3, OneChoice
        <3>5. QED
            BY <2>1, <3>3, <3>4
    <2>6. QED
        BY <2>4, <2>5
<1>5. QED
    BY <1>3, <1>4

\* Converting the choices cs after the text x splits the longer text.
SplitOn(v, x, cs) ==
    LET y == x \o Contents(cs)
    IN  /\ v.metFirstChunk <=> y # <<>>
        /\ v.isThinking <=> Open(y)
        /\ extractReasoningContent(y).content =
              extractReasoningContent(x).content \o Contents(v.choices)
        /\ extractReasoningContent(y).reasoning =
              extractReasoningContent(x).reasoning \o Reasonings(v.choices)

LEMMA ConvertedOne ==
    ASSUME NEW m \in Ones, NEW s, NEW x \in Words, Remembers(s, x)
    PROVE  SplitOn(Converted(s, ChoicesOf(m)), x, ChoicesOf(m))
<1>1. PICK base : base = [metFirstChunk |-> s.metFirstChunk, isThinking |-> s.isThinking,
                          choices |-> <<>>]
    OBVIOUS
<1>2. s.metFirstChunk \in BOOLEAN /\ s.isThinking \in BOOLEAN
    BY DEF Remembers
<1>3. <<>> \in ChoiceLists /\ <<>> \in Seq(Choice) /\ x \in Seq(STRING)
    BY DEF ChoiceLists, Words
<1>4. /\ base \in ConvertStates /\ base.metFirstChunk = s.metFirstChunk
      /\ base.isThinking = s.isThinking /\ base.choices = <<>>
    BY <1>1, <1>2, <1>3 DEF ConvertStates
<1>5. Remembers(base, x)
    BY <1>4 DEF Remembers
<1>6. PICK cs : cs = ChoicesOf(m)
    OBVIOUS
<1>7. PICK v : v = Converted(s, cs)
    OBVIOUS
<1>8. v = FoldLeft(ConvertChoice, base, cs)
    BY <1>1, <1>7 DEF Converted, convertOpenAIChatCompletionChunk
<1>9. PICK k \in Choice : k = extractReasoningContent(x)
    BY ExtractType
<1>10. CASE cs = <<>>
    <2>1. v = base
        BY <1>3, <1>4, <1>8, <1>10, ConvertRules
    <2>2. Contents(cs) = <<>> /\ Contents(v.choices) = <<>> /\ Reasonings(v.choices) = <<>>
        BY <1>4, <1>10, <2>1, NoContents
    <2>3. k.content \in Seq(STRING) /\ k.reasoning \in Seq(STRING)
        BY DEF Choice, Words
    <2>4. x \o <<>> = x /\ k.content \o <<>> = k.content /\ k.reasoning \o <<>> = k.reasoning
        BY <1>3, <2>3, ConcatEmptySeq
    <2>5. SplitOn(v, x, cs)
        BY <1>5, <1>9, <2>1, <2>2, <2>4 DEF SplitOn, Remembers
    <2>6. QED
        BY <1>6, <1>7, <2>5
<1>11. ASSUME NEW ch \in Choice, ch.reasoning = <<>>, cs = Append(<<>>, ch)
       PROVE  SplitOn(v, x, cs)
    <2>1. FoldLeft(ConvertChoice, base, <<>>) = base
        BY <1>3, <1>4, ConvertRules
    <2>2. v = ConvertChoice(base, ch)
        <3>1. FoldLeft(ConvertChoice, base, Append(<<>>, ch)) =
                ConvertChoice(FoldLeft(ConvertChoice, base, <<>>), ch)
            BY <1>3, <1>4, ConvertRules
        <3>2. QED
            BY <1>8, <1>11, <2>1, <3>1
    <2>3. PICK c \in Words : c = ch.content
        BY DEF Choice
    <2>4. PICK e : e = extractReasoningContentFromChunk(base, c)
        OBVIOUS
    <2>5. PICK o : o = [content |-> e.content, reasoning |-> e.reasoning]
        OBVIOUS
    <2>6. v = [metFirstChunk |-> e.metFirstChunk, isThinking |-> e.isThinking,
               choices |-> Append(<<>>, o)]
        BY <1>4, <1>11, <2>2, <2>3, <2>4, <2>5 DEF ConvertChoice
    <2>7. v.metFirstChunk = e.metFirstChunk /\ v.isThinking = e.isThinking
          /\ v.choices = Append(<<>>, o)
        BY <2>6
    <2>8. o \in Choice
        <3>1. v \in ConvertStates
            BY <1>4, <1>11, <2>2, ConvertChoiceType
        <3>2. v.choices \in Seq(Choice)
            BY <3>1 DEF ConvertStates, ChoiceLists
        <3>3. Len(v.choices) = 1 /\ v.choices[1] = o
            BY <2>7
        <3>4. QED
            BY <3>2, <3>3, ElementOfSeq
    <2>9. Contents(v.choices) = e.content /\ Reasonings(v.choices) = e.reasoning
        <3>1. Contents(Append(<<>>, o)) = o.content /\ Reasonings(Append(<<>>, o)) = o.reasoning
            BY <2>8, OneChoice
        <3>2. o.content = e.content /\ o.reasoning = e.reasoning
            BY <2>5
        <3>3. QED
            BY <2>7, <3>1, <3>2
    <2>10. Contents(cs) = c
        BY <1>11, <2>3, OneChoice
    <2>11. Continues(base, x, c)
        BY <1>5, ChunkContinues
    <2>12. QED
        BY <2>4, <2>7, <2>9, <2>10, <2>11 DEF SplitOn, Continues
<1>12. QED
    BY <1>6, <1>7, <1>10, <1>11, SingleFacts

\* The text the upstream sent in the messages passed on.
RawOf(out) == FlattenSeq([i \in DOMAIN out |-> Contents(ChoicesOf(out[i].msg))])
SentWhole(out) == \A i \in 1 .. Len(out) : out[i].msg \in Ones

LEMMA RawText ==
    ASSUME NEW out \in Seq(OutItem), SentWhole(out), NEW o \in OutItem, o.msg \in Ones
    PROVE  /\ RawOf(out) \in Words /\ SentWhole(Append(out, o))
           /\ RawOf(Append(out, o)) = RawOf(out) \o Contents(ChoicesOf(o.msg))
<1>1. PICK n \in Nat : n = Len(out) /\ DOMAIN out = 1 .. n
                       /\ \A i \in 1 .. n : out[i] \in OutItem
    BY LenProperties, ElementOfSeq
<1>2. PICK more : more = Append(out, o)
    OBVIOUS
<1>3. /\ DOMAIN more = 1 .. n + 1 /\ more[n + 1] = o /\ Len(more) = n + 1
      /\ \A i \in 1 .. n : more[i] = out[i]
    <2>1. /\ more \in Seq(OutItem) /\ Len(more) = n + 1 /\ more[n + 1] = o
          /\ \A i \in 1 .. n : more[i] = out[i]
        BY <1>1, <1>2, AppendProperties
    <2>2. QED
        BY <2>1, LenProperties
<1>4. \A i \in 1 .. n : out[i].msg \in Ones
    BY <1>1 DEF SentWhole
<1>5. \A i \in 1 .. n + 1 : more[i].msg \in Ones
    BY <1>1, <1>3, <1>4
<1>6. ASSUME NEW m \in Ones
      PROVE  Contents(ChoicesOf(m)) \in Words
    BY SingleFacts, ContentsType
<1>7. PICK cs : cs = [i \in DOMAIN out |-> Contents(ChoicesOf(out[i].msg))]
    OBVIOUS
<1>8. cs \in [1 .. n -> Words]
    BY <1>1, <1>4, <1>6, <1>7
<1>9. cs \in Seq(Words) /\ Len(cs) = n
    BY <1>8
<1>10. PICK c \in Words : c = Contents(ChoicesOf(o.msg))
    BY <1>6
<1>11. PICK f : f = [i \in DOMAIN more |-> Contents(ChoicesOf(more[i].msg))]
    OBVIOUS
<1>12. f = Append(cs, c)
    <2>1. f \in [1 .. n + 1 -> Words]
        BY <1>3, <1>5, <1>6, <1>11
    <2>2. f \in Seq(Words) /\ Len(f) = n + 1
        BY <2>1
    <2>3. \A i \in 1 .. n : f[i] = cs[i]
        BY <1>1, <1>3, <1>7, <1>11
    <2>4. f[n + 1] = c
        BY <1>3, <1>10, <1>11
    <2>5. /\ Append(cs, c) \in Seq(Words) /\ Len(Append(cs, c)) = n + 1
          /\ \A i \in 1 .. n : Append(cs, c)[i] = cs[i]
          /\ Append(cs, c)[n + 1] = c
        BY <1>9, AppendProperties
    <2>6. \A i \in 1 .. Len(f) : f[i] = Append(cs, c)[i]
        BY <2>2, <2>3, <2>4, <2>5
    <2>7. QED
        BY <2>2, <2>5, <2>6, SeqEqual
<1>13. FlattenSeq(cs) \in Words /\ FlattenSeq(Append(cs, c)) = FlattenSeq(cs) \o c
    BY <1>9, FlattenRules DEF Words
<1>14. SentWhole(more)
    BY <1>3, <1>5 DEF SentWhole
<1>15. QED
    BY <1>2, <1>7, <1>10, <1>11, <1>12, <1>13, <1>14 DEF RawOf

LEMMA NoRaw == RawOf(<<>>) = <<>> /\ SentWhole(<<>>)
<1>1. [i \in DOMAIN <<>> |-> Contents(ChoicesOf(<<>>[i].msg))] = <<>>
    OBVIOUS
<1>2. FlattenSeq(<<>>) = <<>>
    BY DEF FlattenSeq
<1>3. QED
    BY <1>1, <1>2 DEF RawOf, SentWhole

\* What was passed on is the split of what was sent, and the transcoder
\* remembers what it must to go on.
SplitAs(out) ==
    /\ TextOf(out) = extractReasoningContent(RawOf(out)).content
    /\ ThoughtOf(out) = extractReasoningContent(RawOf(out)).reasoning
SplitKept(s) == SentWhole(s.out) /\ Remembers(s, RawOf(s.out)) /\ SplitAs(s.out)
KeptStates == {s \in States : SplitKept(s)}

\* One message more.
LEMMA SplitNext ==
    ASSUME NEW s \in KeptStates, NEW m \in Ones, NEW r \in States, NEW choices \in ChoiceLists,
           NEW v, SplitOn(v, RawOf(s.out), ChoicesOf(m)), v.choices = choices,
           r.out = Append(s.out, [msg |-> m, choices |-> choices]),
           r.metFirstChunk = v.metFirstChunk, r.isThinking = v.isThinking
    PROVE  r \in KeptStates
<1>1. s.out \in Seq(OutItem) /\ SentWhole(s.out) /\ SplitAs(s.out)
    BY DEF KeptStates, States, SplitKept
<1>2. PICK o : o = [msg |-> m, choices |-> choices]
    OBVIOUS
<1>3. o \in OutItem /\ o.msg = m /\ o.choices = choices
    BY <1>2 DEF OutItem, Messages, Ones
<1>4. PICK x : x = RawOf(s.out)
    OBVIOUS
<1>5. PICK y : y = RawOf(r.out)
    OBVIOUS
<1>6. x \in Words /\ SentWhole(r.out) /\ y = x \o Contents(ChoicesOf(m))
    BY <1>1, <1>2, <1>3, <1>4, <1>5, RawText
<1>7. /\ TextOf(r.out) = TextOf(s.out) \o Contents(choices)
      /\ ThoughtOf(r.out) = ThoughtOf(s.out) \o Reasonings(choices)
    BY <1>1, <1>2, <1>3, OutText
<1>8. /\ v.metFirstChunk <=> y # <<>>
      /\ v.isThinking <=> Open(y)
      /\ extractReasoningContent(y).content =
            extractReasoningContent(x).content \o Contents(choices)
      /\ extractReasoningContent(y).reasoning =
            extractReasoningContent(x).reasoning \o Reasonings(choices)
    BY <1>4, <1>6 DEF SplitOn
<1>9. SplitAs(r.out)
    BY <1>1, <1>4, <1>5, <1>7, <1>8 DEF SplitAs
<1>10. r.metFirstChunk \in BOOLEAN /\ r.isThinking \in BOOLEAN
    BY DEF States
<1>11. Remembers(r, y)
    BY <1>8, <1>10 DEF Remembers
<1>12. QED
    BY <1>5, <1>6, <1>9, <1>11 DEF KeptStates, SplitKept

LEMMA SplitClosed ==
    ASSUME splitReasoning
    PROVE  Closed(KeptStates, Ones)
<1>1. SUFFICES ASSUME NEW s \in KeptStates, NEW m \in Ones
               PROVE  HandleMessage(s, m) \in KeptStates
    BY DEF Closed
<1>2. s \in States /\ SplitKept(s)
    BY DEF KeptStates
<1>3. CASE s.end # None
    BY <1>3 DEF HandleMessage
<1>4. CASE s.end = None
    <2>1. m \in Messages
        BY DEF Messages, Ones
    <2>2. PICK r \in States : r = HandleMessage(s, m)
        BY <1>2, <1>4, <2>1, HandleFacts
    <2>3. PICK choices : Handled(s, m, r, choices)
        BY <1>2, <1>4, <2>1, <2>2, HandleFacts
    <2>4. choices \in ChoiceLists /\ r.out = Append(s.out, [msg |-> m, choices |-> choices])
        BY <2>3 DEF Handled
    <2>5. PICK x \in Words : x = RawOf(s.out)
        <3>1. s.out \in Seq(OutItem) /\ SentWhole(s.out)
            BY <1>2 DEF States, SplitKept
        <3>2. PICK o \in OutItem : o.msg = m
            <4>1. [msg |-> m, choices |-> choices] \in OutItem
                BY <2>1, <2>4 DEF OutItem
            <4>2. QED
                BY <4>1
        <3>3. QED
            BY <3>1, <3>2, RawText
    <2>6. Remembers(s, x)
        BY <1>2, <2>5 DEF SplitKept
    <2>7. PICK cs : cs = ChoicesOf(m)
        OBVIOUS
    <2>8. CASE Plain(m) \/ Body[m].kind = "error"
        <3>1. choices = <<>> /\ r.metFirstChunk = s.metFirstChunk /\ r.isThinking = s.isThinking
            BY <2>3, <2>8 DEF Handled
        <3>2. cs = <<>>
            <4>1. m # Damaged
                BY BodyAssumption DEF Ones
            <4>2. QED
                BY <2>7, <2>8, <4>1 DEF Plain, ChoicesOf
        <3>3. PICK v : v = [metFirstChunk |-> s.metFirstChunk, isThinking |-> s.isThinking,
                            choices |-> <<>>]
            OBVIOUS
        <3>4. v.metFirstChunk = s.metFirstChunk /\ v.isThinking = s.isThinking /\ v.choices = <<>>
            BY <3>3
        <3>5. SplitOn(v, x, cs)
            <4>1. PICK k \in Choice : k = extractReasoningContent(x)
                BY ExtractType
            <4>2. x \in Seq(STRING) /\ k.content \in Seq(STRING) /\ k.reasoning \in Seq(STRING)
                BY DEF Choice, Words
            <4>3. x \o <<>> = x /\ k.content \o <<>> = k.content /\ k.reasoning \o <<>> = k.reasoning
                BY <4>2, ConcatEmptySeq
            <4>4. QED
                BY <2>6, <3>2, <3>4, <4>1, <4>3, NoContents DEF SplitOn, Remembers
        <3>6. QED
            BY <2>2, <2>4, <2>5, <2>7, <3>1, <3>4, <3>5, SplitNext
    <2>9. CASE ~Plain(m) /\ Body[m].kind = "chunk"
        <3>1. cs = Body[m].choices
            BY <2>7, <2>9 DEF ChoicesOf
        <3>2. PICK v : v = Converted(s, cs)
            OBVIOUS
        <3>3. /\ choices = v.choices /\ r.metFirstChunk = v.metFirstChunk
              /\ r.isThinking = v.isThinking
            BY <2>3, <2>9, <3>1, <3>2 DEF Handled
        <3>4. SplitOn(v, x, cs)
            BY <2>6, <2>7, <3>2, ConvertedOne
        <3>5. QED
            BY <2>2, <2>4, <2>5, <2>7, <3>3, <3>4, SplitNext
    <2>10. QED
        BY <2>1, <2>8, <2>9, MessageKinds
<1>5. QED
    BY <1>3, <1>4

LEMMA FreshKept == Fresh \in KeptStates
<1>1. Fresh \in States
    BY FreshLogged DEF LoggedStates
<1>2. Fresh.out = <<>> /\ Fresh.metFirstChunk = FALSE /\ Fresh.isThinking = FALSE
    BY DEF Fresh
<1>3. extractReasoningContent(<<>>).content = <<>> /\ extractReasoningContent(<<>>).reasoning = <<>>
    BY DEF extractReasoningContent
<1>4. Remembers(Fresh, <<>>)
    BY <1>2 DEF Remembers, Open
<1>5. QED
    BY <1>1, <1>2, <1>3, <1>4, NoRaw, NoText DEF KeptStates, SplitKept, SplitAs

\* A whole response.
LEMMA WholeOne ==
    ASSUME splitReasoning, NEW m \in Ones
    PROVE  /\ Contents(WholeChoices(m)) =
                 extractReasoningContent(Contents(ChoicesOf(m))).content
           /\ Reasonings(WholeChoices(m)) =
                 extractReasoningContent(Contents(ChoicesOf(m))).reasoning
<1>1. PICK cs : cs = ChoicesOf(m)
    OBVIOUS
<1>2. PICK w : w = WholeChoices(m)
    OBVIOUS
<1>3. w = IF Body[m].kind # "chunk" THEN <<>> ELSE convertOpenAIChatCompletion(cs)
    BY <1>1, <1>2 DEF WholeChoices, ChoicesOf
<1>4. CASE cs = <<>>
    <2>1. convertOpenAIChatCompletion(<<>>) = <<>>
        BY DEF convertOpenAIChatCompletion
    <2>2. w = <<>>
        BY <1>3, <1>4, <2>1
    <2>3. /\ extractReasoningContent(<<>>).content = <<>>
          /\ extractReasoningContent(<<>>).reasoning = <<>>
        BY DEF extractReasoningContent
    <2>4. QED
        BY <1>1, <1>2, <1>4, <2>2, <2>3, NoContents
<1>5. ASSUME NEW ch \in Choice, ch.reasoning = <<>>, cs = Append(<<>>, ch)
      PROVE  /\ Contents(w) = extractReasoningContent(Contents(cs)).content
             /\ Reasonings(w) = extractReasoningContent(Contents(cs)).reasoning
    <2>1. DOMAIN cs = 1 .. 1 /\ cs[1] = ch /\ cs # <<>>
        BY <1>5
    <2>2. PICK k : k = extractReasoningContent(ch.content)
        OBVIOUS
    <2>3. k \in Choice
        <3>1. ch.content \in Words
            BY DEF Choice
        <3>2. QED
            BY <2>2, <3>1, ExtractType
    <2>4. w = convertOpenAIChatCompletion(cs)
        BY <1>1, <1>3, <2>1 DEF ChoicesOf
    <2>5. w = Append(<<>>, k)
        <3>1. w = [i \in 1 .. 1 |-> k]
            BY <1>5, <2>1, <2>2, <2>4 DEF convertOpenAIChatCompletion
        <3>2. QED
            BY <3>1
    <2>6. Contents(w) = k.content /\ Reasonings(w) = k.reasoning
        BY <2>3, <2>5, OneChoice
    <2>7. Contents(cs) = ch.content
        BY <1>5, OneChoice
    <2>8. QED
        BY <2>2, <2>6, <2>7
<1>6. QED
    BY <1>1, <1>2, <1>4, <1>5, SingleFacts

LEMMA WholeSplit ==
    ASSUME splitReasoning, NEW m \in Ones
    PROVE  /\ SentWhole(WholeState(Fresh, m).out) /\ SplitAs(WholeState(Fresh, m).out)
<1>1. m \in DOMAIN Body
    BY DEF Ones
<1>2. PICK w \in ChoiceLists : w = WholeChoices(m)
    BY <1>1, WholeFacts
<1>3. PICK o : o = [msg |-> m, choices |-> w]
    OBVIOUS
<1>4. o \in OutItem /\ o.msg = m /\ o.choices = w /\ <<>> \in Seq(OutItem)
    BY <1>1, <1>3 DEF OutItem, Messages
<1>5. PICK out : out = WholeState(Fresh, m).out
    OBVIOUS
<1>6. out = Append(<<>>, o)
    BY <1>1, <1>2, <1>3, <1>5, WholeFacts
<1>7. PICK c \in Words : c = Contents(ChoicesOf(m))
    BY SingleFacts, ContentsType
<1>8. Contents(w) \in Words /\ Reasonings(w) \in Words
    BY ContentsType
<1>9. /\ c \in Seq(STRING) /\ Contents(w) \in Seq(STRING) /\ Reasonings(w) \in Seq(STRING)
    BY <1>8 DEF Words
<1>10. /\ <<>> \o c = c /\ <<>> \o Contents(w) = Contents(w)
       /\ <<>> \o Reasonings(w) = Reasonings(w)
    BY <1>9, ConcatEmptySeq
<1>11. SentWhole(out) /\ RawOf(out) = c
    <2>1. SentWhole(Append(<<>>, o)) /\ RawOf(Append(<<>>, o)) = RawOf(<<>>) \o Contents(ChoicesOf(m))
        BY <1>4, NoRaw, RawText
    <2>2. QED
        BY <1>6, <1>7, <1>10, <2>1, NoRaw
<1>12. TextOf(out) = Contents(w) /\ ThoughtOf(out) = Reasonings(w)
    <2>1. /\ TextOf(Append(<<>>, o)) = TextOf(<<>>) \o Contents(w)
          /\ ThoughtOf(Append(<<>>, o)) = ThoughtOf(<<>>) \o Reasonings(w)
        BY <1>4, OutText
    <2>2. QED
        BY <1>6, <1>10, <2>1, NoText
<1>13. SplitAs(out)
    BY <1>2, <1>7, <1>11, <1>12, WholeOne DEF SplitAs
<1>14. QED
    BY <1>5, <1>11, <1>13

LEMMA InvReasoningSplitAgrees == TranscoderInv => ReasoningSplitAgrees
<1> SUFFICES ASSUME TranscoderInv, splitReasoning, ~parted, \A i \in DOMAIN msgs : Single(msgs[i])
             PROVE  [content |-> OutContent, reasoning |-> OutReasoning] =
                      extractReasoningContent(
                        FlattenSeq([i \in DOMAIN t.out |-> Contents(ChoicesOf(msgs[i]))]))
    BY DEF ReasoningSplitAgrees
<1>1. FixedOK /\ pos \in 0 .. Len(Wire) /\ t \in LoggedStates
    BY DEF TranscoderInv
<1>2. PICK c \in Nat : c = Len(msgs) /\ \A i \in 1 .. c : msgs[i] \in DOMAIN Body
    BY <1>1, LenProperties, ElementOfSeq DEF FixedOK
<1>3. DOMAIN msgs = 1 .. c
    BY <1>1, <1>2, LenProperties DEF FixedOK
<1>4. \A i \in 1 .. c : msgs[i] \in Ones
    BY <1>2, <1>3 DEF Ones
<1>5. /\ SentWhole(t.out) /\ SplitAs(t.out)
      /\ \A i \in 1 .. Len(t.out) : t.out[i].msg = msgs[i]
    <2>1. CASE isStream
        <3>1. StreamInv
            BY <2>1 DEF TranscoderInv
        <3>2. PICK k : k = Received
            OBVIOUS
        <3>3. k \in 0 .. Len(msgs)
            BY <1>1, <3>2, WireLength DEF Received, EventLen
        <3>4. PICK g : g = SubSeq(msgs, 1, k)
            OBVIOUS
        <3>5. t = Run(Fresh, g)
            BY <1>1, <3>1, <3>2, <3>3, <3>4, HandlesRun DEF StreamInv
        <3>6. g \in Seq(Ones)
            <4>1. \A i \in 1 .. k : msgs[i] \in Ones
                BY <1>2, <1>4, <3>3
            <4>2. 1 \in Int /\ k \in Int
                BY <1>2, <3>3
            <4>3. QED
                BY <3>4, <4>1, <4>2, SubSeqProperties
        <3>7. t \in KeptStates
            BY <3>5, <3>6, SplitClosed, FreshKept, RunTyped
        <3>8. QED
            BY <3>1, <3>7 DEF KeptStates, SplitKept, StreamInv, OutFollows
    <2>2. CASE ~isStream /\ pos = 0
        <3>1. t = Fresh
            BY <2>2 DEF TranscoderInv, WholeInv
        <3>2. t.out = <<>> /\ t \in KeptStates
            BY <3>1, FreshKept DEF Fresh
        <3>3. QED
            BY <3>2 DEF KeptStates, SplitKept
    <2>3. CASE ~isStream /\ pos # 0
        <3>1. c = 1 /\ t = WholeState(Fresh, msgs[1])
            BY <1>2, <2>3 DEF TranscoderInv, WholeInv
        <3>2. PICK m \in Ones : m = msgs[1]
            BY <1>4, <3>1
        <3>3. t.out = Append(<<>>, [msg |-> m, choices |-> WholeChoices(m)])
            BY <3>1, <3>2, WholeFacts DEF Ones
        <3>4. Len(t.out) = 1 /\ t.out[1].msg = m
            BY <3>3
        <3>5. SentWhole(t.out) /\ SplitAs(t.out)
            BY <3>1, <3>2, WholeSplit
        <3>6. QED
            BY <3>2, <3>4, <3>5
    <2>4. QED
        BY <2>1, <2>2, <2>3
<1>6. PICK n \in Nat : n = Len(t.out) /\ DOMAIN t.out = 1 .. n
    <2>1. t.out \in Seq(OutItem)
        BY <1>1 DEF LoggedStates, States
    <2>2. QED
        BY <2>1, LenProperties
<1>7. [i \in DOMAIN t.out |-> Contents(ChoicesOf(msgs[i]))] =
        [i \in DOMAIN t.out |-> Contents(ChoicesOf(t.out[i].msg))]
    BY <1>5, <1>6
<1>8. PICK x : x = RawOf(t.out)
    OBVIOUS
<1>9. x = FlattenSeq([i \in DOMAIN t.out |-> Contents(ChoicesOf(msgs[i]))])
    BY <1>7, <1>8 DEF RawOf
<1>10. x \in Words
    <2>1. [i \in DOMAIN t.out |-> Contents(ChoicesOf(t.out[i].msg))] \in [1 .. n -> Words]
        <3>1. ASSUME NEW i \in 1 .. n
              PROVE  Contents(ChoicesOf(t.out[i].msg)) \in Words
            <4>1. t.out[i].msg \in Ones
                BY <1>5, <1>6 DEF SentWhole
            <4>2. QED
                BY <4>1, SingleFacts, ContentsType
        <3>2. QED
            BY <1>6, <3>1
    <2>2. [i \in DOMAIN t.out |-> Contents(ChoicesOf(t.out[i].msg))] \in Seq(Words)
        BY <2>1
    <2>3. QED
        BY <1>8, <2>2, FlattenTyped DEF RawOf, Words
<1>11. PICK k \in Choice : k = extractReasoningContent(x)
    BY <1>10, ExtractType
<1>12. k.content = OutContent /\ k.reasoning = OutReasoning
    BY <1>5, <1>8, <1>11 DEF SplitAs, TextOf, ThoughtOf, OutContent, OutReasoning
<1>13. k = [content |-> k.content, reasoning |-> k.reasoning]
    BY DEF Choice
<1>14. QED
    BY <1>9, <1>11, <1>12, <1>13

\* However a response is cut into chunks, the reasoning and the content the
\* client gets are those of its whole text, when every message has at most one
\* choice and no reasoning of its own (openai.go:189-247).
THEOREM ReasoningSplitAgreesHolds == Spec => []ReasoningSplitAgrees
    BY Invariance, InvReasoningSplitAgrees, PTL
=============================================================================
