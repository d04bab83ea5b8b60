------------------------ MODULE ScenarioRules_proofs ------------------------
(* The rules that scenarios go by, proved for every value of the constants.      *)
(*                                                                             *)
(* First, what a device configuration does to payloads, for every file, every   *)
(* set of items and values and payloads of any length: the invariants of        *)
(* ConfigPayloads and of ScenarioPayloads.                                      *)
(*                                                                             *)
(* Filtering and assigning are folds. A fold is a recursive function that is    *)
(* chosen, so its existence comes first (FoldIterates), by induction; then the  *)
(* results of a fold are a sequence `acc`, one for each prefix of the argument  *)
(* (AssignedSteps, KeptSteps), and what holds of all of them is proved along    *)
(* it with Stepwise. The configuration is used through Formed, what parsing     *)
(* guarantees of any file, and Clear, what its author has to see to. The main   *)
(* step is OnlyTaker: what was meant for an item is taken by that item alone.   *)
(*                                                                             *)
(* Then the trigger's expression, of any length and depth: the invariants of    *)
(* TriggerLogic. Parser and evaluator are loops over tokens, so everything is   *)
(* said of what a sequence does to a loop and combined by concatenation         *)
(* (EvaluatedConcat). Monotonicity is Steady, kept by all that the parser       *)
(* builds. That an expression is evaluated as it reads has three parts: the     *)
(* parser holds a call for each loop that evaluating the tokens themselves      *)
(* would be in (Beside), a whole expression is two around its last operator or  *)
(* one in parentheses (WholeAround, WholeInside), and reading and evaluating    *)
(* agree on it by induction over its length (SpanStep).                         *)
EXTENDS ScenarioPayloads, TriggerLogic, FiniteSetTheorems, WellFoundedInduction,
        SequenceTheorems, TLAPS

(* ----------------------- Induction over the naturals ---------------------- *)

\* Numbers have a least one.
LEMMA LeastElement ==
    ASSUME NEW T, T \subseteq Nat, T # {}
    PROVE  \E x \in T : \A y \in T : x <= y
<1>. DEFINE R == {ss \in Nat \X Nat : ss[1] < ss[2]}
<1>1. IsWellFoundedOn(R, Nat)
  BY NatLessThanWellFounded DEF OpToRel
<1>2. PICK x \in T : \A y \in T : ~(<<y, x>> \in R)
  <2>. HIDE DEF R
  <2>. QED  BY <1>1, WFMin
<1>3. \A y \in T : ~(y < x)
  BY <1>2
<1>4. QED  BY <1>3

\* Induction: the library's theorem takes an operator, this one a set.
LEMMA Stepwise ==
    ASSUME NEW T, 0 \in T, \A n \in Nat : n \in T => n + 1 \in T
    PROVE  \A n \in Nat : n \in T
<1>1. SUFFICES ASSUME Nat \ T # {} PROVE FALSE  OBVIOUS
<1>2. PICK x \in Nat \ T : \A y \in Nat \ T : x <= y
  BY <1>1, LeastElement
<1>3. x # 0 /\ x - 1 \in Nat  OBVIOUS
<1>4. x - 1 \in T  BY <1>2, <1>3
<1>5. QED  BY <1>2, <1>3, <1>4

\* The least of some numbers is one of them.
LEMMA LeastIs ==
    ASSUME NEW T, T \subseteq Nat, T # {}
    PROVE  Min(T) \in T /\ \A y \in T : Min(T) <= y
<1>1. PICK x \in T : \A y \in T : x <= y
  BY LeastElement
<1>2. QED  BY <1>1 DEF Min

\* So is the greatest, if they have a bound.
LEMMA GreatestIs ==
    ASSUME NEW n \in Nat, NEW T, T \subseteq 1..n, T # {}
    PROVE  Max(T) \in T /\ \A y \in T : Max(T) >= y
<1>. DEFINE U == {m \in Nat : \A y \in T : m >= y}
<1>1. n \in U  OBVIOUS
<1>2. PICK x \in U : \A y \in U : x <= y
  BY <1>1, LeastElement
<1>3. x \in T
  <2>1. SUFFICES ASSUME x \notin T PROVE FALSE  OBVIOUS
  <2>2. PICK t \in T : t \in 1..n  OBVIOUS
  <2>3. x >= t /\ x # t  BY <1>2, <2>1, <2>2
  <2>4. x - 1 \in Nat /\ x \in Nat BY <2>2, <2>3, <1>2
  <2>5. \A y \in T : x - 1 >= y
    BY <1>2, <2>1, <2>4
  <2>6. x - 1 \in U  BY <2>4, <2>5
  <2>7. QED  BY <2>6, <1>2, <2>4
<1>4. QED  BY <1>2, <1>3 DEF Max

\* The greatest index of a prefix is its length.
LEMMA GreatestIntervalIs == ASSUME NEW j \in Nat, j >= 1 PROVE Max(1..j) = j
<1>1. 1..j \subseteq 1..j /\ 1..j # {}  OBVIOUS
<1>2. Max(1..j) \in 1..j /\ \A y \in 1..j : Max(1..j) >= y  BY <1>1, GreatestIs
<1>3. QED  BY <1>2

\* The functions that a fold over n elements, each a step in stp, chooses from.
Iterates(P, n, b, stp) == {g \in [SUBSET (1..n) -> P] : \A s \in SUBSET (1..n) :
    g[s] = IF s = {} THEN b ELSE stp[Max(s)][g[s \ {Max(s)}]]}

\* There is such a function, for every start and every n steps.
LEMMA FoldIterates ==
    ASSUME NEW P, NEW n \in Nat, NEW b \in P, NEW stp \in [1..n -> [P -> P]]
    PROVE  Iterates(P, n, b, stp) # {}
<1>. DEFINE Good(m) == {g \in [SUBSET (1..m) -> P] : \A s \in SUBSET (1..m) :
                          g[s] = IF s = {} THEN b ELSE stp[Max(s)][g[s \ {Max(s)}]]}
            T == {m \in Nat : m <= n => Good(m) # {}}
<1>1. 0 \in T
  <2>. DEFINE g == [s \in SUBSET (1..0) |-> b]
  <2>1. g \in Good(0)  OBVIOUS
  <2>. QED  BY <2>1
<1>2. ASSUME NEW m \in Nat, m \in T PROVE m + 1 \in T
  <2>1. SUFFICES ASSUME m + 1 <= n PROVE Good(m + 1) # {}
    <3>. HIDE DEF Good
    <3>. QED  OBVIOUS
  <2>2. PICK g : g \in Good(m)
    <3>. HIDE DEF Good
    <3>. QED  BY <1>2, <2>1
  <2>. DEFINE h == [s \in SUBSET (1..m + 1) |->
                      IF m + 1 \in s THEN stp[m + 1][g[s \ {m + 1}]] ELSE g[s]]
  <2>3. ASSUME NEW s \in SUBSET (1..m + 1), m + 1 \notin s
        PROVE  s \in SUBSET (1..m) /\ h[s] = g[s]
    <3>1. s \in SUBSET (1..m)  BY <2>3
    <3>2. QED  BY <2>3, <3>1
  <2>4. ASSUME NEW s \in SUBSET (1..m + 1), m + 1 \in s
        PROVE  /\ s \ {m + 1} \in SUBSET (1..m) /\ Max(s) = m + 1
               /\ h[s] = stp[m + 1][g[s \ {m + 1}]]
    <3>1. s \ {m + 1} \in SUBSET (1..m)  OBVIOUS
    <3>2. Max(s) \in s /\ Max(s) >= m + 1
      <5>1. m + 1 \in Nat /\ s \subseteq 1..m + 1 /\ s # {}  BY <2>4
      <5>2. QED  BY GreatestIs, <2>4, <5>1
    <3>3. Max(s) \in 1..m + 1  BY <3>2
    <3>4. Max(s) = m + 1  BY <3>2, <3>3
    <3>5. QED  BY <2>4, <3>1, <3>4
  <2>5. m + 1 \in 1..n  BY <2>1
  <2>6. ASSUME NEW s \in SUBSET (1..m + 1) PROVE h[s] \in P
    <3>1. CASE m + 1 \in s
      <4>1. g[s \ {m + 1}] \in P  BY <2>2, <2>4, <3>1
      <4>2. QED  BY <4>1, <2>4, <2>5, <3>1
    <3>2. CASE m + 1 \notin s
      BY <2>2, <2>3, <3>2
    <3>3. QED  BY <3>1, <3>2
  <2>7. ASSUME NEW s \in SUBSET (1..m + 1)
        PROVE  h[s] = IF s = {} THEN b ELSE stp[Max(s)][h[s \ {Max(s)}]]
    <3>1. CASE m + 1 \in s
      <4>1. h[s \ {m + 1}] = g[s \ {m + 1}]  BY <2>3
      <4>2. QED  BY <4>1, <2>4, <3>1
    <3>2. CASE m + 1 \notin s
      <4>1. s \in SUBSET (1..m) /\ h[s] = g[s]  BY <2>3, <3>2
      <4>2. s \ {Max(s)} \in SUBSET (1..m + 1) /\ m + 1 \notin s \ {Max(s)}  BY <3>2
      <4>3. h[s \ {Max(s)}] = g[s \ {Max(s)}]  BY <2>3, <4>2
      <4>4. QED  BY <2>2, <4>1, <4>3
    <3>3. QED  BY <3>1, <3>2
  <2>8. h \in [SUBSET (1..m + 1) -> P]
    BY <2>6
  <2>9. h \in Good(m + 1)
    <3>. HIDE DEF h
    <3>. QED  BY <2>7, <2>8
  <2>. QED  BY <2>9
<1>3. n \in T
  <2>. HIDE DEF T
  <2>. QED  BY <1>1, <1>2, Stepwise
<1>4. Good(n) # {}
  <2>. HIDE DEF Good
  <2>. QED  BY <1>3
<1>5. QED  BY <1>4 DEF Iterates

(* ----------------------- Filtering and assigning -------------------------- *)

\* Assigning a field leaves a payload of fields.
LEMMA AssignType ==
    ASSUME NEW U, NEW fields \in Seq(U), NEW f \in U
    PROVE  Assign(fields, f) \in Seq(U)
  BY DEF Assign, HasNamed

\* Assigning fields one after the other: the payload after each of them.
LEMMA AssignedSteps ==
    ASSUME NEW U, NEW base \in Seq(U), NEW fields \in Seq(U)
    PROVE  \E acc \in [0..Len(fields) -> Seq(U)] :
               /\ acc[0] = base
               /\ \A j \in 1..Len(fields) : acc[j] = Assign(acc[j - 1], fields[j])
               /\ acc[Len(fields)] = Assigned(base, fields)
<1>. DEFINE n == Len(fields)
            stp == [i \in 1..n |-> [a \in Seq(U) |-> Assign(a, fields[i])]]
            Iter(it) == it = [s \in SUBSET DOMAIN fields |->
                IF s = {} THEN base ELSE Assign(it[s \ {Max(s)}], fields[Max(s)])]
            iter == CHOOSE it : Iter(it)
<1>1. n \in Nat /\ DOMAIN fields = 1..n  OBVIOUS
<1>2. stp \in [1..n -> [Seq(U) -> Seq(U)]]
  <2>1. ASSUME NEW i \in 1..n, NEW a \in Seq(U) PROVE Assign(a, fields[i]) \in Seq(U)
    <3>1. fields[i] \in U  OBVIOUS
    <3>. QED  BY <3>1, AssignType
  <2>. QED  BY <2>1
<1>3. PICK g \in [SUBSET (1..n) -> Seq(U)] : \A s \in SUBSET (1..n) :
        g[s] = IF s = {} THEN base ELSE stp[Max(s)][g[s \ {Max(s)}]]
  <2>1. base \in Seq(U)  OBVIOUS
  <2>2. Iterates(Seq(U), n, base, stp) # {}
    <3>. HIDE DEF stp, n
    <3>. QED  BY <1>1, <1>2, <2>1, FoldIterates
  <2>. QED  BY <2>2 DEF Iterates
<1>4. ASSUME NEW s \in SUBSET (1..n), s # {}
      PROVE  Max(s) \in 1..n /\ s \ {Max(s)} \in SUBSET (1..n)
  BY <1>1, <1>4, GreatestIs
<1>5. ASSUME NEW s \in SUBSET (1..n)
      PROVE  g[s] = IF s = {} THEN base ELSE Assign(g[s \ {Max(s)}], fields[Max(s)])
  BY <1>3, <1>4
<1>6. Iter(g)
  BY <1>1, <1>3, <1>5
<1>7. Iter(iter)
  <2>. HIDE DEF Iter
  <2>. QED  BY <1>6
<1>8. Assigned(base, fields) = iter[1..n]
  BY <1>1 DEF Assigned, FoldLeft, MapThenFoldSet
<1>. DEFINE acc == [j \in 0..n |-> iter[1..j]]
<1>9. acc[0] = base
  <2>1. 1..0 = {} /\ {} \in SUBSET DOMAIN fields  OBVIOUS
  <2>2. iter[{}] = base  BY <1>7, <2>1
  <2>. QED  BY <2>1, <2>2
<1>10. ASSUME NEW j \in 1..n PROVE acc[j] = Assign(acc[j - 1], fields[j])
  <2>. HIDE DEF iter, stp
  <2>0. j \in Nat /\ j >= 1 /\ j <= n  BY <1>1
  <2>1. 1..j \in SUBSET DOMAIN fields /\ j \in 1..j  BY <1>1, <2>0
  <2>2. Max(1..j) = j  BY <2>0, GreatestIntervalIs
  <2>3. (1..j) \ {j} = 1..(j - 1)  OBVIOUS
  <2>4. iter[1..j] = Assign(iter[(1..j) \ {j}], fields[j])
    BY <1>7, <2>1, <2>2
  <2>5. acc[j] = iter[1..j] /\ acc[j - 1] = iter[1..(j - 1)]  BY <2>0, <1>1
  <2>. QED  BY <2>3, <2>4, <2>5
<1>. HIDE DEF acc
<1>11. ASSUME NEW j \in 0..n PROVE acc[j] \in Seq(U)
  <2>. DEFINE T == {i \in Nat : i <= n => acc[i] \in Seq(U)}
  <2>1. 0 \in T  BY <1>9
  <2>2. ASSUME NEW i \in Nat, i \in T PROVE i + 1 \in T
    <3>1. SUFFICES ASSUME i + 1 <= n PROVE acc[i + 1] \in Seq(U)  OBVIOUS
    <3>2. i + 1 \in 1..n /\ acc[i] \in Seq(U)  BY <2>2, <3>1
    <3>3. acc[i + 1] = Assign(acc[i], fields[i + 1])  BY <1>10, <3>2
    <3>4. fields[i + 1] \in U  BY <3>2
    <3>. QED  BY <3>2, <3>3, <3>4, AssignType
  <2>3. \A i \in Nat : i \in T
    <3>. HIDE DEF T
    <3>. QED  BY <2>1, <2>2, Stepwise
  <2>. QED  BY <2>3
<1>12. acc \in [0..n -> Seq(U)]
  BY <1>11 DEF acc
<1>13. acc[n] = Assigned(base, fields)
  BY <1>8 DEF acc
<1>. QED  BY <1>9, <1>10, <1>12, <1>13

\* The step of a filter.
AppendIf(kept, x, S) == IF x \in S THEN Append(kept, x) ELSE kept

\* Filtering element by element: what is kept of each prefix.
LEMMA KeptSteps ==
    ASSUME NEW U, NEW s \in Seq(U), NEW S
    PROVE  \E acc \in [0..Len(s) -> Seq(U)] :
               /\ acc[0] = <<>>
               /\ \A j \in 1..Len(s) : acc[j] = AppendIf(acc[j - 1], s[j], S)
               /\ acc[Len(s)] = Kept(s, S)
<1>. DEFINE n == Len(s)
            stp == [i \in 1..n |-> [a \in Seq(U) |-> AppendIf(a, s[i], S)]]
            Iter(it) == it = [w \in SUBSET DOMAIN s |->
                IF w = {} THEN <<>> ELSE AppendIf(it[w \ {Max(w)}], s[Max(w)], S)]
            iter == CHOOSE it : Iter(it)
<1>1. n \in Nat /\ DOMAIN s = 1..n  OBVIOUS
<1>2. stp \in [1..n -> [Seq(U) -> Seq(U)]]
  <2>1. ASSUME NEW i \in 1..n, NEW a \in Seq(U) PROVE AppendIf(a, s[i], S) \in Seq(U)
    BY DEF AppendIf
  <2>. QED  BY <2>1
<1>3. PICK g \in [SUBSET (1..n) -> Seq(U)] : \A w \in SUBSET (1..n) :
        g[w] = IF w = {} THEN <<>> ELSE stp[Max(w)][g[w \ {Max(w)}]]
  <2>1. <<>> \in Seq(U)  OBVIOUS
  <2>2. Iterates(Seq(U), n, <<>>, stp) # {}
    <3>. HIDE DEF stp, n
    <3>. QED  BY <1>1, <1>2, <2>1, FoldIterates
  <2>. QED  BY <2>2 DEF Iterates
<1>4. ASSUME NEW w \in SUBSET (1..n), w # {}
      PROVE  Max(w) \in 1..n /\ w \ {Max(w)} \in SUBSET (1..n)
  BY <1>1, <1>4, GreatestIs
<1>5. ASSUME NEW w \in SUBSET (1..n)
      PROVE  g[w] = IF w = {} THEN <<>> ELSE AppendIf(g[w \ {Max(w)}], s[Max(w)], S)
  BY <1>3, <1>4
<1>6. Iter(g)
  BY <1>1, <1>3, <1>5
<1>7. Iter(iter)
  <2>. HIDE DEF Iter
  <2>. QED  BY <1>6
<1>8. Kept(s, S) = iter[1..n]
  BY <1>1 DEF Kept, FoldLeft, MapThenFoldSet, AppendIf
<1>. DEFINE acc == [j \in 0..n |-> iter[1..j]]
<1>9. acc[0] = <<>>
  <2>1. 1..0 = {} /\ {} \in SUBSET DOMAIN s  OBVIOUS
  <2>2. iter[{}] = <<>>  BY <1>7, <2>1
  <2>. QED  BY <2>1, <2>2
<1>10. ASSUME NEW j \in 1..n PROVE acc[j] = AppendIf(acc[j - 1], s[j], S)
  <2>. HIDE DEF iter, stp
  <2>0. j \in Nat /\ j >= 1 /\ j <= n  BY <1>1
  <2>1. 1..j \in SUBSET DOMAIN s /\ j \in 1..j  BY <1>1, <2>0
  <2>2. Max(1..j) = j  BY <2>0, GreatestIntervalIs
  <2>3. (1..j) \ {j} = 1..(j - 1)  OBVIOUS
  <2>4. iter[1..j] = AppendIf(iter[(1..j) \ {j}], s[j], S)
    BY <1>7, <2>1, <2>2
  <2>5. acc[j] = iter[1..j] /\ acc[j - 1] = iter[1..(j - 1)]  BY <2>0, <1>1
  <2>. QED  BY <2>3, <2>4, <2>5
<1>. HIDE DEF acc
<1>11. ASSUME NEW j \in 0..n PROVE acc[j] \in Seq(U)
  <2>. DEFINE T == {i \in Nat : i <= n => acc[i] \in Seq(U)}
  <2>1. 0 \in T
    <3>1. <<>> \in Seq(U)  OBVIOUS
    <3>. QED  BY <1>9, <3>1
  <2>2. ASSUME NEW i \in Nat, i \in T PROVE i + 1 \in T
    <3>1. SUFFICES ASSUME i + 1 <= n PROVE acc[i + 1] \in Seq(U)  OBVIOUS
    <3>2. i + 1 \in 1..n /\ acc[i] \in Seq(U)  BY <2>2, <3>1
    <3>3. acc[i + 1] = AppendIf(acc[i], s[i + 1], S)  BY <1>10, <3>2
    <3>4. s[i + 1] \in U  BY <3>2
    <3>. QED  BY <3>2, <3>3, <3>4 DEF AppendIf
  <2>3. \A i \in Nat : i \in T
    <3>. HIDE DEF T
    <3>. QED  BY <2>1, <2>2, Stepwise
  <2>. QED  BY <2>3
<1>12. acc \in [0..n -> Seq(U)]
  BY <1>11 DEF acc
<1>13. acc[n] = Kept(s, S)
  BY <1>8 DEF acc
<1>. QED  BY <1>9, <1>10, <1>12, <1>13

\* What is kept is in the sequence and in the set.
LEMMA KeptMembers ==
    ASSUME NEW U, NEW s \in Seq(U), NEW S
    PROVE  Kept(s, S) \in Seq(U \cap S)
<1>. DEFINE n == Len(s)
<1>1. PICK acc \in [0..n -> Seq(U)] :
        /\ acc[0] = <<>>
        /\ \A j \in 1..n : acc[j] = AppendIf(acc[j - 1], s[j], S)
        /\ acc[n] = Kept(s, S)
  BY KeptSteps
<1>. DEFINE T == {i \in Nat : i <= n => acc[i] \in Seq(U \cap S)}
<1>2. 0 \in T  BY <1>1
<1>3. ASSUME NEW i \in Nat, i \in T PROVE i + 1 \in T
  <2>1. SUFFICES ASSUME i + 1 <= n PROVE acc[i + 1] \in Seq(U \cap S)  OBVIOUS
  <2>2. i + 1 \in 1..n /\ acc[i] \in Seq(U \cap S)  BY <1>3, <2>1
  <2>3. acc[i + 1] = AppendIf(acc[i], s[i + 1], S)  BY <1>1, <2>2
  <2>4. s[i + 1] \in U  BY <2>2
  <2>. QED  BY <2>2, <2>3, <2>4 DEF AppendIf
<1>4. \A i \in Nat : i \in T
  <2>. HIDE DEF T
  <2>. QED  BY <1>2, <1>3, Stepwise
<1>. QED  BY <1>1, <1>4

\* Of a sequence that is in the set, all is kept.
LEMMA KeptAll ==
    ASSUME NEW U, NEW s \in Seq(U), NEW S, \A i \in DOMAIN s : s[i] \in S
    PROVE  Kept(s, S) = s
<1>. DEFINE n == Len(s)
<1>1. PICK acc \in [0..n -> Seq(U)] :
        /\ acc[0] = <<>>
        /\ \A j \in 1..n : acc[j] = AppendIf(acc[j - 1], s[j], S)
        /\ acc[n] = Kept(s, S)
  BY KeptSteps
<1>. DEFINE T == {i \in Nat : i <= n => acc[i] = [k \in 1..i |-> s[k]]}
<1>2. 0 \in T  BY <1>1
<1>3. ASSUME NEW i \in Nat, i \in T PROVE i + 1 \in T
  <2>1. SUFFICES ASSUME i + 1 <= n PROVE acc[i + 1] = [k \in 1..i + 1 |-> s[k]]  OBVIOUS
  <2>2. i + 1 \in 1..n /\ acc[i] = [k \in 1..i |-> s[k]]  BY <1>3, <2>1
  <2>3. acc[i + 1] = AppendIf(acc[i], s[i + 1], S)  BY <1>1, <2>2
  <2>4. s[i + 1] \in S /\ s[i + 1] \in U  BY <2>2
  <2>5. acc[i] \in Seq(U) /\ Len(acc[i]) = i  BY <1>1, <2>2
  <2>6. acc[i + 1] = Append(acc[i], s[i + 1])  BY <2>3, <2>4 DEF AppendIf
  <2>. QED  BY <2>2, <2>4, <2>5, <2>6
<1>4. \A i \in Nat : i \in T
  <2>. HIDE DEF T
  <2>. QED  BY <1>2, <1>3, Stepwise
<1>. QED  BY <1>1, <1>4

\* Of one that is not, nothing.
LEMMA KeptNone ==
    ASSUME NEW U, NEW s \in Seq(U), NEW S, \A i \in DOMAIN s : s[i] \notin S
    PROVE  Kept(s, S) = <<>>
<1>1. Kept(s, S) \in Seq(ToSet(s) \cap S)
  <2>1. s \in Seq(ToSet(s))  BY DEF ToSet
  <2>. QED  BY <2>1, KeptMembers
<1>2. ToSet(s) \cap S = {}  BY DEF ToSet
<1>. QED  BY <1>1, <1>2

\* Fields with different names make a payload as they are.
LEMMA AssignedDistinct ==
    ASSUME NEW U, NEW fields \in Seq(U),
           \A i, j \in DOMAIN fields : i # j => fields[i].name # fields[j].name
    PROVE  Assigned(<<>>, fields) = fields
<1>. DEFINE n == Len(fields)
<1>1. PICK acc \in [0..n -> Seq(U)] :
        /\ acc[0] = <<>>
        /\ \A j \in 1..n : acc[j] = Assign(acc[j - 1], fields[j])
        /\ acc[n] = Assigned(<<>>, fields)
  BY AssignedSteps
<1>. DEFINE T == {i \in Nat : i <= n => acc[i] = [k \in 1..i |-> fields[k]]}
<1>2. 0 \in T  BY <1>1
<1>3. ASSUME NEW i \in Nat, i \in T PROVE i + 1 \in T
  <2>1. SUFFICES ASSUME i + 1 <= n PROVE acc[i + 1] = [k \in 1..i + 1 |-> fields[k]]  OBVIOUS
  <2>2. i + 1 \in 1..n /\ acc[i] = [k \in 1..i |-> fields[k]]  BY <1>3, <2>1
  <2>3. acc[i + 1] = Assign(acc[i], fields[i + 1])  BY <1>1, <2>2
  <2>4. fields[i + 1] \in U  BY <2>2
  <2>5. acc[i] \in Seq(U) /\ Len(acc[i]) = i  BY <1>1, <2>2
  <2>6. ~\E k \in DOMAIN acc[i] : acc[i][k].name = fields[i + 1].name  BY <2>2
  <2>7. acc[i + 1] = Append(acc[i], fields[i + 1])  BY <2>3, <2>6 DEF Assign, HasNamed
  <2>. QED  BY <2>2, <2>4, <2>5, <2>7
<1>4. \A i \in Nat : i \in T
  <2>. HIDE DEF T
  <2>. QED  BY <1>2, <1>3, Stepwise
<1>. QED  BY <1>1, <1>4

\* No field changes nothing.
LEMMA AssignedNothing ==
    ASSUME NEW U, NEW base \in Seq(U), NEW fields \in Seq(U), Len(fields) = 0
    PROVE  Assigned(base, fields) = base
<1>1. PICK acc \in [0..Len(fields) -> Seq(U)] :
        /\ acc[0] = base
        /\ acc[Len(fields)] = Assigned(base, fields)
  BY AssignedSteps
<1>. QED  BY <1>1

\* No field makes the empty payload.
LEMMA AssignedNone == Assigned(<<>>, <<>>) = <<>>
<1>1. <<>> \in Seq({}) /\ Len(<<>>) = 0  OBVIOUS
<1>. QED  BY <1>1, AssignedNothing

\* Assigning a payload's own fields changes nothing.
LEMMA AssignedAgain ==
    ASSUME NEW U, NEW base \in Seq(U), NEW fields \in Seq(ToSet(base)),
           \A i, j \in DOMAIN base : i # j => base[i].name # base[j].name
    PROVE  Assigned(base, fields) = base
<1>. DEFINE n == Len(fields)
<1>0. base \in Seq(ToSet(base))  BY DEF ToSet
<1>1. PICK acc \in [0..n -> Seq(ToSet(base))] :
        /\ acc[0] = base
        /\ \A j \in 1..n : acc[j] = Assign(acc[j - 1], fields[j])
        /\ acc[n] = Assigned(base, fields)
  BY <1>0, AssignedSteps
<1>. DEFINE T == {i \in Nat : i <= n => acc[i] = base}
<1>2. 0 \in T  BY <1>1
<1>3. ASSUME NEW i \in Nat, i \in T PROVE i + 1 \in T
  <2>1. SUFFICES ASSUME i + 1 <= n PROVE acc[i + 1] = base  OBVIOUS
  <2>2. i + 1 \in 1..n /\ acc[i] = base  BY <1>3, <2>1
  <2>3. acc[i + 1] = Assign(base, fields[i + 1])  BY <1>1, <2>2
  <2>4. PICK k \in DOMAIN base : fields[i + 1] = base[k]
    <3>1. fields[i + 1] \in ToSet(base)  BY <2>2
    <3>. QED  BY <3>1 DEF ToSet
  <2>5. Assign(base, base[k]) = base  BY DEF Assign, HasNamed
  <2>. QED  BY <2>3, <2>4, <2>5
<1>4. \A i \in Nat : i \in T
  <2>. HIDE DEF T
  <2>. QED  BY <1>2, <1>3, Stepwise
<1>. QED  BY <1>1, <1>4

\* One field is one assignment.
LEMMA AssignedOne ==
    ASSUME NEW U, NEW base \in Seq(U), NEW f \in U
    PROVE  Assigned(base, <<f>>) = Assign(base, f)
<1>1. <<f>> \in Seq(U) /\ Len(<<f>>) = 1 /\ <<f>>[1] = f  OBVIOUS
<1>2. PICK acc \in [0..1 -> Seq(U)] :
        acc[0] = base /\ acc[1] = Assign(acc[0], <<f>>[1]) /\ acc[1] = Assigned(base, <<f>>)
  BY <1>1, AssignedSteps
<1>. QED  BY <1>1, <1>2

(* ------------------------------- Configurations --------------------------- *)

\* What parsing guarantees of an item: a name, a known type, named values and a
\* default that the item accepts.
Clean(item) ==
    /\ item.name # Absent /\ item.type \in ItemTypes
    /\ item.values \in Seq(ToSet(item.values))
    /\ \A i \in DOMAIN item.values : item.values[i].name # Absent
    /\ IsValue(item.default) /\ ValidValue(item, item.default)

\* A configuration of clean items.
Formed(config) == \A s \in Sections :
    /\ config[s] \in Seq(ToSet(config[s]))
    /\ \A i \in DOMAIN config[s] : Clean(config[s][i])

\* The first item with a name has that name.
LEMMA NamedIs ==
    ASSUME NEW U, NEW s \in Seq(U), NEW n, HasNamed(s, n)
    PROVE  \E k \in DOMAIN s : s[k].name = n /\ Named(s, n) = s[k]
<1>. DEFINE I == {i \in 1..Len(s) : s[i].name = n}
<1>1. I \subseteq Nat /\ I # {}
  BY DEF HasNamed
<1>2. Min(I) \in I  BY <1>1, LeastIs
<1>3. Named(s, n) = s[Min(I)]
  BY <1>1 DEF Named, SelectInSeq
<1>. HIDE DEF I
<1>4. Min(I) \in DOMAIN s /\ s[Min(I)].name = n
  BY <1>2 DEF I
<1>. QED  BY <1>3, <1>4

\* The first value with a path has that path.
LEMMA AtPathIs ==
    ASSUME NEW U, NEW s \in Seq(U), NEW p, HasPath(s, p)
    PROVE  \E k \in DOMAIN s : s[k].path = p /\ AtPath(s, p) = s[k]
<1>. DEFINE I == {i \in 1..Len(s) : s[i].path = p}
<1>1. I \subseteq Nat /\ I # {}
  BY DEF HasPath
<1>2. Min(I) \in I  BY <1>1, LeastIs
<1>3. AtPath(s, p) = s[Min(I)]
  BY <1>1 DEF AtPath, SelectInSeq
<1>. HIDE DEF I
<1>4. Min(I) \in DOMAIN s /\ s[Min(I)].path = p
  BY <1>2 DEF I
<1>. QED  BY <1>3, <1>4

\* The item that takes a field knows it.
LEMMA TakerIs ==
    ASSUME NEW U, NEW s \in Seq(U), NEW f, \E i \in DOMAIN s : HasField(s[i], f)
    PROVE  \E k \in DOMAIN s : HasField(s[k], f) /\ Taker(s, f) = s[k]
<1>. DEFINE I == {i \in 1..Len(s) : HasField(s[i], f)}
<1>1. I \subseteq Nat /\ I # {}
  OBVIOUS
<1>2. Min(I) \in I  BY <1>1, LeastIs
<1>3. Taker(s, f) = s[Min(I)]
  BY <1>1 DEF Taker, SelectInSeq
<1>. HIDE DEF I
<1>4. Min(I) \in DOMAIN s /\ HasField(s[Min(I)], f)
  BY <1>2 DEF I
<1>. QED  BY <1>3, <1>4

(* ------------------------ Translation and sorting ------------------------- *)

\* A boolean or an enumeration is translated there and back: what is sent is one
\* of the texts of the item, and is read as the value (mapValueToDevice,
\* mapValueFromDevice).
LEMMA TranslatedBack ==
    ASSUME NEW item, Clean(item), NEW v, IsValue(v), Translates(item),
           Settable(item, v), ValidValue(item, v), v # Null
    PROVE  LET sent == ValueToDevice(item, v)
           IN  /\ HasPath(item.values, sent.text) \/ HasNamed(item.values, sent.text)
               /\ sent.text \in Sent(item)
               /\ ValueFromDevice(item, sent) = v
<1>. DEFINE E == item.values
            sent == ValueToDevice(item, v)
<1>1. /\ E \in Seq(ToSet(E)) /\ \A i \in DOMAIN E : E[i].name # Absent
      /\ item.type \in {"boolean", "enum"}
      /\ v = Value(v.type, v.text)
      /\ E # <<>> /\ Injective(item)
  BY DEF Clean, Translates, Settable, Reportable, Complete, IsValue
<1>2. v.text \in EntryNames(item)
  <2>1. CASE item.type = "enum"
    <3>1. 1 \in DOMAIN E  BY <1>1
    <3>2. EntryNames(item) # {}  BY <3>1 DEF EntryNames
    <3>. QED  BY <2>1, <3>2 DEF ValidValue
  <2>2. CASE item.type = "boolean"
    BY <2>2 DEF Settable, Reportable, Translates, Complete, IsValue
  <2>. QED  BY <1>1, <2>1, <2>2
<1>3. HasNamed(E, v.text)
  BY <1>2 DEF EntryNames, HasNamed
<1>4. PICK k \in DOMAIN E : E[k].name = v.text /\ Named(E, v.text) = E[k]
  BY <1>1, <1>3, NamedIs
<1>5. sent = IF E[k].path = Absent THEN v ELSE Text(E[k].path)
  BY <1>3, <1>4 DEF ValueToDevice
<1>6. sent.text = Given(E[k].path, E[k].name)
  BY <1>4, <1>5 DEF Given, Text, Value
<1>7. sent.text # Absent
  BY <1>1, <1>4, <1>6 DEF Given
<1>8. sent.text \in Sent(item)
  BY <1>6 DEF Sent
<1>9. HasPath(E, sent.text) \/ HasNamed(E, sent.text)
  BY <1>4, <1>6 DEF Given, HasPath, HasNamed
<1>. DEFINE entry == IF HasPath(E, sent.text) THEN AtPath(E, sent.text) ELSE Named(E, sent.text)
<1>10. entry.name = v.text
  <2>1. CASE HasPath(E, sent.text)
    <3>1. PICK j \in DOMAIN E : E[j].path = sent.text /\ AtPath(E, sent.text) = E[j]
      <4>. HIDE DEF E, sent
      <4>. QED  BY <1>1, <2>1, AtPathIs
    <3>2. Given(E[j].path, E[j].name) = Given(E[k].path, E[k].name)
      BY <1>6, <1>7, <3>1 DEF Given
    <3>3. j = k  BY <1>1, <3>2 DEF Injective
    <3>. QED  BY <1>4, <2>1, <3>1, <3>3
  <2>2. CASE ~HasPath(E, sent.text)
    <3>1. E[k].path # sent.text  BY <2>2 DEF HasPath
    <3>2. E[k].path = Absent  BY <1>6, <3>1 DEF Given
    <3>3. sent.text = v.text  BY <1>5, <3>2
    <3>. QED  BY <1>4, <2>2, <3>3
  <2>. QED  BY <2>1, <2>2
<1>11. ValueFromDevice(item, sent)
         = IF item.type = "boolean" THEN Bool(entry.name = "true") ELSE Text(entry.name)
  BY <1>1, <1>9 DEF ValueFromDevice
<1>12. ValueFromDevice(item, sent) = v
  <2>. HIDE DEF entry, sent
  <2>1. CASE item.type = "boolean"
    <3>1. v.type = "boolean" /\ v.text \in {"true", "false"}
      BY <2>1 DEF Settable, Reportable, Translates, IsValue
    <3>. QED  BY <1>1, <1>10, <1>11, <2>1, <3>1 DEF Bool, Value
  <2>2. CASE item.type = "enum"
    <3>1. v.type = "string"
      BY <2>2 DEF Settable, Reportable, Translates
    <3>. QED  BY <1>1, <1>10, <1>11, <2>2, <3>1 DEF Text, Value
  <2>. QED  BY <1>1, <2>1, <2>2
<1>. QED  BY <1>8, <1>9, <1>12

\* So is a value of any type, and the item takes what is sent.
LEMMA RoundTrip ==
    ASSUME NEW item, Clean(item), NEW v, IsValue(v),
           Settable(item, v), ValidValue(item, v), v # Null
    PROVE  LET sent == ValueToDevice(item, v)
           IN  /\ HasField(item, Field(DeviceName(item), sent))
               /\ Translates(item) => sent.text \in Sent(item) /\ item.values # <<>>
               /\ ValueFromDevice(item, sent) = v
<1>1. CASE Translates(item)
  <2>1. item.values # <<>>  BY <1>1 DEF Settable, Reportable, Complete
  <2>. DEFINE sent == ValueToDevice(item, v)
  <2>2. /\ HasPath(item.values, sent.text) \/ HasNamed(item.values, sent.text)
        /\ sent.text \in Sent(item) /\ ValueFromDevice(item, sent) = v
    BY <1>1, TranslatedBack
  <2>. QED  BY <1>1, <2>1, <2>2 DEF HasField, Field
<1>2. CASE ~Translates(item)
  <2>1. ValueToDevice(item, v) = v
    BY <1>2 DEF ValueToDevice, Settable
  <2>2. item.type \in {"number", "string", "object"} /\ v.type = item.type
    BY <1>2 DEF Clean, Translates, ItemTypes, Settable, Reportable
  <2>3. ValueFromDevice(item, v) = v
    BY <1>2, <2>2 DEF ValueFromDevice, AsNumber
  <2>. QED  BY <1>2, <2>1, <2>3 DEF HasField, Field
<1>. QED  BY <1>1, <1>2

\* What Clear says of two items, by their sections and indices.
LEMMA ClearAt ==
    ASSUME NEW config, Clear(config), NEW s \in Sections, NEW t \in Sections,
           NEW i \in DOMAIN config[s], NEW j \in DOMAIN config[t], s = t => i # j
    PROVE  /\ Apart(config[s][i], config[t][j])
           /\ config[s][i].name = config[t][j].name => s # t /\ "measurements" \in {s, t}
<1>1. <<s, i>> \in Places(config) /\ <<t, j>> \in Places(config)
  BY DEF Places
<1>2. <<s, i>> # <<t, j>>  OBVIOUS
<1>3. \A p, q \in Places(config) : p # q =>
        /\ Apart(config[p[1]][p[2]], config[q[1]][q[2]])
        /\ config[p[1]][p[2]].name = config[q[1]][q[2]].name =>
             p[1] # q[1] /\ "measurements" \in {p[1], q[1]}
  BY DEF Clear
<1>4. /\ Apart(config[<<s, i>>[1]][<<s, i>>[2]], config[<<t, j>>[1]][<<t, j>>[2]])
      /\ config[<<s, i>>[1]][<<s, i>>[2]].name = config[<<t, j>>[1]][<<t, j>>[2]].name =>
             <<s, i>>[1] # <<t, j>>[1] /\ "measurements" \in {<<s, i>>[1], <<t, j>>[1]}
  BY <1>1, <1>2, <1>3
<1>. QED  BY <1>4

\* In a clear configuration an item is found by its name in its section.
LEMMA NamedInSection ==
    ASSUME NEW config, Formed(config), Clear(config), NEW s \in Sections,
           NEW i \in DOMAIN config[s]
    PROVE  /\ HasNamed(config[s], config[s][i].name)
           /\ Named(config[s], config[s][i].name) = config[s][i]
<1>. DEFINE n == config[s][i].name
<1>1. config[s] \in Seq(ToSet(config[s]))  BY DEF Formed
<1>2. HasNamed(config[s], n)  BY DEF HasNamed
<1>3. PICK k \in DOMAIN config[s] : config[s][k].name = n /\ Named(config[s], n) = config[s][k]
  <2>. HIDE DEF n
  <2>. QED  BY <1>1, <1>2, NamedIs
<1>4. k = i  BY <1>3, ClearAt
<1>. QED  BY <1>2, <1>3, <1>4

\* A control is found by its name among the commands and controls, where
\* mapPayloadToDevice looks it up.
LEMMA NamedForDevice ==
    ASSUME NEW config, Formed(config), Clear(config), NEW i \in DOMAIN config["controls"]
    PROVE  LET items == config["commands"] \o config["controls"]
               n == config["controls"][i].name
           IN  items # <<>> /\ HasNamed(items, n) /\ Named(items, n) = config["controls"][i]
<1>. DEFINE X == config["commands"]
            Y == config["controls"]
            items == X \o Y
            n == Y[i].name
            U == ToSet(X) \cup ToSet(Y)
<1>0. "commands" \in Sections /\ "controls" \in Sections  BY DEF Sections
<1>1. X \in Seq(ToSet(X)) /\ Y \in Seq(ToSet(Y))  BY <1>0 DEF Formed
<1>2. X \in Seq(U) /\ Y \in Seq(U)
  BY <1>1
<1>3. /\ items \in Seq(U) /\ Len(items) = Len(X) + Len(Y)
      /\ \A k \in DOMAIN items : items[k] = IF k <= Len(X) THEN X[k] ELSE Y[k - Len(X)]
  <2>. HIDE DEF X, Y, U
  <2>. QED  BY <1>2
<1>4. i \in 1..Len(Y) /\ Len(X) \in Nat /\ Len(Y) \in Nat /\ DOMAIN X = 1..Len(X)
      /\ DOMAIN Y = 1..Len(Y) /\ DOMAIN items = 1..Len(items)
  BY <1>1, <1>3
<1>5. Len(X) + i \in DOMAIN items /\ items[Len(X) + i] = Y[i]
  <2>. HIDE DEF X, Y, U, items
  <2>1. Len(X) + i \in DOMAIN items  BY <1>3, <1>4
  <2>2. ~(Len(X) + i <= Len(X)) /\ (Len(X) + i) - Len(X) = i  BY <1>4
  <2>. QED  BY <1>3, <2>1, <2>2
<1>6. HasNamed(items, n)  BY <1>5 DEF HasNamed
<1>7. PICK k \in DOMAIN items : items[k].name = n /\ Named(items, n) = items[k]
  <2>. HIDE DEF items, n, U
  <2>. QED  BY <1>3, <1>6, NamedIs
<1>8. items[k] = Y[i]
  <2>1. CASE k <= Len(X)
    <3>1. k \in DOMAIN X /\ X[k].name = Y[i].name
      <4>. HIDE DEF X, Y, U, items
      <4>. QED  BY <1>3, <1>4, <1>7, <2>1
    <3>2. FALSE  BY <1>0, <3>1, ClearAt
    <3>. QED  BY <3>2
  <2>2. CASE ~(k <= Len(X))
    <3>1. k - Len(X) \in DOMAIN Y /\ items[k] = Y[k - Len(X)] /\ Y[k - Len(X)].name = Y[i].name
      <4>. HIDE DEF X, Y, U, items
      <4>. QED  BY <1>3, <1>4, <1>7, <2>2
    <3>2. k - Len(X) = i  BY <1>0, <3>1, ClearAt
    <3>. QED  BY <3>1, <3>2
  <2>. QED  BY <2>1, <2>2
<1>9. items # <<>>
  <2>. HIDE DEF items
  <2>. QED  BY <1>5
<1>. QED  BY <1>6, <1>7, <1>8, <1>9

\* What device reports say about the item of a section, and about no other.
Own(config, s, i, f) ==
    /\ HasField(config[s][i], f)
    /\ Translates(config[s][i]) =>
           f.value.text \in Sent(config[s][i]) /\ config[s][i].values # <<>>

\* What a device sends for a value is a text.
LEMMA SentIsSomething ==
    ASSUME NEW item, Clean(item), NEW text \in Sent(item)
    PROVE  text # Absent
  BY DEF Sent, Clean, Given

\* What was meant for an item is taken by no other, in any section.
LEMMA OnlyTaker ==
    ASSUME NEW config, Formed(config), Clear(config), NEW s \in Sections, NEW t \in Sections,
           NEW i \in DOMAIN config[s], NEW j \in DOMAIN config[t], NEW f, Own(config, s, i, f),
           HasField(config[t][j], f)
    PROVE  s = t /\ i = j
<1>. DEFINE item == config[s][i]
            other == config[t][j]
<1>1. SUFFICES ASSUME s = t => i # j PROVE FALSE  OBVIOUS
<1>2. Apart(item, other)  BY <1>1, ClearAt
<1>3. DeviceName(item) = f.name /\ DeviceName(other) = f.name
  BY DEF HasField, Own
<1>4. /\ Translates(item) /\ Translates(other) /\ Sent(item) \cap Understood(other) = {}
  BY <1>2, <1>3 DEF Apart
<1>5. f.value.text \in Sent(item) /\ f.value.text # Absent
  BY <1>4, SentIsSomething DEF Own, Formed
<1>6. f.value.text \in Understood(other)
  <2>1. CASE HasPath(other.values, f.value.text)
    BY <1>5, <2>1 DEF HasPath, Understood, Sent, Given
  <2>2. CASE HasNamed(other.values, f.value.text)
    BY <2>2 DEF HasNamed, Understood, EntryNames
  <2>. QED  BY <1>4, <2>1, <2>2 DEF HasField
<1>. QED  BY <1>4, <1>5, <1>6

\* It is sorted into the section of its item and read by it (findConfigItem,
\* assignToSection).
LEMMA TakenBy ==
    ASSUME NEW config, Formed(config), Clear(config), NEW s \in Sections,
           NEW i \in DOMAIN config[s], NEW f, Own(config, s, i, f)
    PROVE  /\ \A t \in Sections : Knows(config, t, f) <=> t = s
           /\ Taker(config[s], f) = config[s][i]
           /\ SectionOf(config, f) # 0 /\ SectionOrder[SectionOf(config, f)] = s
<1>1. \A t \in Sections : Knows(config, t, f) <=> t = s
  <2>1. Knows(config, s, f)  BY DEF Knows, Own
  <2>2. ASSUME NEW t \in Sections, Knows(config, t, f) PROVE t = s
    BY <2>2, OnlyTaker DEF Knows
  <2>. QED  BY <2>1, <2>2
<1>2. Taker(config[s], f) = config[s][i]
  <2>1. config[s] \in Seq(ToSet(config[s]))  BY DEF Formed
  <2>2. \E k \in DOMAIN config[s] : HasField(config[s][k], f)  BY DEF Own
  <2>3. PICK k \in DOMAIN config[s] : HasField(config[s][k], f) /\ Taker(config[s], f) = config[s][k]
    BY <2>1, <2>2, TakerIs
  <2>4. k = i  BY <2>3, OnlyTaker
  <2>. QED  BY <2>3, <2>4
<1>3. SectionOf(config, f) # 0 /\ SectionOrder[SectionOf(config, f)] = s
  <2>. DEFINE I == {k \in 1..3 : Knows(config, SectionOrder[k], f)}
  <2>1. /\ SectionOrder[1] = "commands" /\ SectionOrder[2] = "controls"
        /\ SectionOrder[3] = "measurements" /\ Len(SectionOrder) = 3
    BY DEF SectionOrder
  <2>2. \A k \in 1..3 : SectionOrder[k] \in Sections
    BY <2>1 DEF Sections
  <2>3. I # {} /\ I \subseteq Nat
    BY <1>1, <2>1 DEF Sections
  <2>4. Min(I) \in I  BY <2>3, LeastIs
  <2>5. SectionOf(config, f) = Min(I)
    BY <2>1, <2>3 DEF SectionOf, SelectInSeq
  <2>. QED  BY <1>1, <2>2, <2>4, <2>5
<1>. QED  BY <1>1, <1>2, <1>3

\* What is sent is about items of one section, and is heard as the fields are.
HeardAs(config, s, sent, fields) ==
    /\ sent \in Seq(ToSet(sent)) /\ fields \in Seq(ToSet(fields)) /\ Len(sent) = Len(fields)
    /\ \A k \in DOMAIN sent :
           /\ \E i \in DOMAIN config[s] : Own(config, s, i, sent[k])
           /\ Heard(config, s, sent[k]) = fields[k]
    /\ \A k, l \in DOMAIN fields : k # l => fields[k].name # fields[l].name
\* What is heard is all in one section.
SortedInto(config, s, sent, fields) ==
    Categorized(config, sent) = [t \in Sections |-> IF t = s THEN fields ELSE <<>>]

\* Such a report is sorted into that section, in its order; the others stay empty.
LEMMA Sorted ==
    ASSUME NEW config, Formed(config), Clear(config), NEW s \in Sections,
           NEW sent, NEW fields, HeardAs(config, s, sent, fields)
    PROVE  SortedInto(config, s, sent, fields)
<1>0. /\ sent \in Seq(ToSet(sent)) /\ fields \in Seq(ToSet(fields)) /\ Len(sent) = Len(fields)
      /\ \A k \in DOMAIN sent : \E i \in DOMAIN config[s] : Own(config, s, i, sent[k])
      /\ \A k \in DOMAIN sent : Heard(config, s, sent[k]) = fields[k]
      /\ \A k, l \in DOMAIN fields : k # l => fields[k].name # fields[l].name
  BY DEF HeardAs
<1>. DEFINE own(t) == Kept(sent, {f \in ToSet(sent) :
                       SectionOf(config, f) # 0 /\ SectionOrder[SectionOf(config, f)] = t})
<1>1. \A k \in DOMAIN sent :
        SectionOf(config, sent[k]) # 0 /\ SectionOrder[SectionOf(config, sent[k])] = s
  BY <1>0, TakenBy
<1>2. own(s) = sent
  <2>. DEFINE S == {f \in ToSet(sent) :
                       SectionOf(config, f) # 0 /\ SectionOrder[SectionOf(config, f)] = s}
  <2>1. \A k \in DOMAIN sent : sent[k] \in S  BY <1>1 DEF ToSet
  <2>. HIDE DEF S
  <2>2. Kept(sent, S) = sent  BY <1>0, <2>1, KeptAll
  <2>. QED  BY <2>2 DEF S
<1>3. ASSUME NEW t \in Sections, t # s PROVE own(t) = <<>>
  <2>. DEFINE S == {f \in ToSet(sent) :
                       SectionOf(config, f) # 0 /\ SectionOrder[SectionOf(config, f)] = t}
  <2>1. \A k \in DOMAIN sent : sent[k] \notin S  BY <1>1, <1>3
  <2>. HIDE DEF S
  <2>2. Kept(sent, S) = <<>>  BY <1>0, <2>1, KeptNone
  <2>. QED  BY <2>2 DEF S
<1>4. Assigned(<<>>, [k \in DOMAIN sent |-> Heard(config, s, sent[k])]) = fields
  <2>1. [k \in DOMAIN sent |-> Heard(config, s, sent[k])] = fields
    <3>1. DOMAIN sent = DOMAIN fields  BY <1>0
    <3>. QED  BY <1>0, <3>1
  <2>2. Assigned(<<>>, fields) = fields  BY <1>0, AssignedDistinct
  <2>. QED  BY <2>1, <2>2
<1>5. ASSUME NEW t \in Sections
      PROVE  Assigned(<<>>, [k \in DOMAIN <<>> |-> Heard(config, t, <<>>[k])]) = <<>>
  <2>1. [k \in DOMAIN <<>> |-> Heard(config, t, <<>>[k])] = <<>>  OBVIOUS
  <2>. QED  BY <2>1, AssignedNone
<1>6. Categorized(config, sent) =
        [t \in Sections |-> Assigned(<<>>, [k \in DOMAIN own(t) |-> Heard(config, t, own(t)[k])])]
  BY DEF Categorized
<1>7. ASSUME NEW t \in Sections
      PROVE  Assigned(<<>>, [k \in DOMAIN own(t) |-> Heard(config, t, own(t)[k])])
               = IF t = s THEN fields ELSE <<>>
  <2>1. CASE t = s
    BY <1>2, <1>4, <2>1
  <2>2. CASE t # s
    <3>1. own(t) = <<>>  BY <1>3, <2>2
    <3>. HIDE DEF own
    <3>. QED  BY <1>5, <2>2, <3>1
  <2>. QED  BY <2>1, <2>2
<1>. HIDE DEF own
<1>. QED  BY <1>6, <1>7 DEF SortedInto

\* Controls that are sent: what they are meant for, and that no two share a place.
Control(config, f) == Named(config["controls"], f.name)
Sends(config, fields) ==
    /\ fields \in Seq(ToSet(fields))
    /\ \A k \in DOMAIN fields :
           /\ fields[k] = Field(fields[k].name, fields[k].value)
           /\ HasNamed(config["controls"], fields[k].name)
    /\ \A k, l \in DOMAIN fields : k # l =>
           DeviceName(Control(config, fields[k])) # DeviceName(Control(config, fields[l]))

\* The field that is sent for it.
ControlSent(config, f) ==
    Field(DeviceName(Control(config, f)), ValueToDevice(Control(config, f), f.value))

\* The control that a field names is one of the configuration.
LEMMA ControlIs ==
    ASSUME NEW config, Formed(config), NEW f, HasNamed(config["controls"], f.name)
    PROVE  \E i \in DOMAIN config["controls"] :
               config["controls"][i].name = f.name /\ Control(config, f) = config["controls"][i]
<1>1. "controls" \in Sections  BY DEF Sections
<1>2. config["controls"] \in Seq(ToSet(config["controls"]))  BY <1>1 DEF Formed
<1>. QED  BY <1>2, NamedIs DEF Control

\* Fields for different places have different names.
LEMMA NamesDiffer ==
    ASSUME NEW config, NEW fields, Sends(config, fields)
    PROVE  \A k, l \in DOMAIN fields : k # l => fields[k].name # fields[l].name
  BY DEF Sends, Control

\* What is sent is one field for each control, in their order.
LEMMA SentAs ==
    ASSUME NEW config, Formed(config), Clear(config), NEW fields, Sends(config, fields)
    PROVE  /\ ToDevice(config, fields) = [k \in DOMAIN fields |-> ControlSent(config, fields[k])]
           /\ ToDevice(config, fields) \in Seq(ToSet(ToDevice(config, fields)))
<1>. DEFINE items == config["commands"] \o config["controls"]
            sent == [k \in DOMAIN fields |-> ControlSent(config, fields[k])]
<1>0. fields \in Seq(ToSet(fields))  BY DEF Sends
<1>1. ASSUME NEW k \in DOMAIN fields
      PROVE  /\ items # <<>> /\ HasNamed(items, fields[k].name)
             /\ Named(items, fields[k].name) = Control(config, fields[k])
  <2>1. PICK i \in DOMAIN config["controls"] :
          config["controls"][i].name = fields[k].name /\ Control(config, fields[k]) = config["controls"][i]
    BY ControlIs DEF Sends
  <2>. QED  BY <2>1, NamedForDevice
<1>2. sent \in Seq(ToSet(sent)) /\ DOMAIN sent = DOMAIN fields
  <2>1. PICK n \in Nat : DOMAIN fields = 1..n  BY <1>0
  <2>2. \A k \in 1..n : sent[k] \in ToSet(sent)  BY <2>1 DEF ToSet
  <2>. QED  BY <2>1, <2>2
<1>3. \A k, l \in DOMAIN sent : k # l => sent[k].name # sent[l].name
  BY DEF Sends, ControlSent, Field
<1>4. Assigned(<<>>, sent) = sent
  <2>. HIDE DEF sent
  <2>. QED  BY <1>2, <1>3, AssignedDistinct
<1>5. CASE items = <<>>
  <2>1. DOMAIN fields = {}  BY <1>1, <1>5
  <2>2. fields = sent /\ fields = <<>>  BY <1>0, <2>1
  <2>3. ToDevice(config, fields) = fields  BY <1>5 DEF ToDevice
  <2>. QED  BY <1>2, <2>2, <2>3
<1>6. CASE items # <<>>
  <2>1. ASSUME NEW k \in DOMAIN fields
        PROVE  (IF HasNamed(items, fields[k].name)
                THEN Field(DeviceName(Named(items, fields[k].name)),
                           ValueToDevice(Named(items, fields[k].name), fields[k].value))
                ELSE fields[k]) = ControlSent(config, fields[k])
    BY <1>1 DEF ControlSent
  <2>2. ToDevice(config, fields) = Assigned(<<>>, sent)
    BY <1>6, <2>1 DEF ToDevice
  <2>. QED  BY <1>2, <1>4, <2>2
<1>. QED  BY <1>5, <1>6

\* A control that is sent is reported for itself and heard as it was.
LEMMA ControlBack ==
    ASSUME NEW config, Formed(config), Clear(config),
           NEW f, f = Field(f.name, f.value), HasNamed(config["controls"], f.name),
           Settable(Control(config, f), f.value), ValidValue(Control(config, f), f.value),
           f.value # Null, IsValue(f.value)
    PROVE  /\ \E i \in DOMAIN config["controls"] : Own(config, "controls", i, ControlSent(config, f))
           /\ Knows(config, "controls", ControlSent(config, f))
           /\ Heard(config, "controls", ControlSent(config, f)) = f
<1>. DEFINE item == Control(config, f)
            v == ValueToDevice(item, f.value)
            sent == ControlSent(config, f)
<1>0. "controls" \in Sections  BY DEF Sections
<1>1. PICK i \in DOMAIN config["controls"] :
        config["controls"][i].name = f.name /\ item = config["controls"][i]
  BY ControlIs
<1>2. Clean(item)  BY <1>0, <1>1 DEF Formed
<1>3. /\ HasField(item, Field(DeviceName(item), v))
      /\ Translates(item) => v.text \in Sent(item) /\ item.values # <<>>
      /\ ValueFromDevice(item, v) = f.value
  BY <1>2, RoundTrip
<1>4. sent = Field(DeviceName(item), v) /\ sent.value = v
  BY DEF ControlSent, Field
<1>5. Own(config, "controls", i, sent)
  BY <1>1, <1>3, <1>4 DEF Own
<1>6. Taker(config["controls"], sent) = item /\ Knows(config, "controls", sent)
  BY <1>0, <1>1, <1>5, TakenBy
<1>7. Heard(config, "controls", sent) = Field(f.name, f.value)
  BY <1>1, <1>3, <1>4, <1>6 DEF Heard
<1>. QED  BY <1>5, <1>6, <1>7

(* Controls of any number that a Zigbee device reports as it was sent them are  *)
(* the ones that were sent, in their order, and nothing is taken for a command  *)
(* or a measurement (mapPayloadToDevice, categorizeAndMapPayloadFromDevice).     *)
THEOREM ReportsComeBack ==
    ASSUME NEW config, Formed(config), Clear(config), NEW fields, Sends(config, fields),
           \A k \in DOMAIN fields :
               /\ Settable(Control(config, fields[k]), fields[k].value)
               /\ ValidValue(Control(config, fields[k]), fields[k].value)
               /\ fields[k].value # Null /\ IsValue(fields[k].value)
    PROVE  Categorized(config, ToDevice(config, fields))
             = [s \in Sections |-> IF s = "controls" THEN fields ELSE <<>>]
<1>. DEFINE sent == ToDevice(config, fields)
<1>0. "controls" \in Sections  BY DEF Sections
<1>1. /\ sent = [k \in DOMAIN fields |-> ControlSent(config, fields[k])]
      /\ sent \in Seq(ToSet(sent)) /\ fields \in Seq(ToSet(fields))
  BY SentAs DEF Sends
<1>2. Len(sent) = Len(fields)
  <2>1. DOMAIN sent = DOMAIN fields  BY <1>1
  <2>. HIDE DEF sent
  <2>. QED  BY <1>1, <2>1
<1>3. ASSUME NEW k \in DOMAIN sent
      PROVE  /\ \E i \in DOMAIN config["controls"] : Own(config, "controls", i, sent[k])
             /\ Heard(config, "controls", sent[k]) = fields[k]
  <2>1. k \in DOMAIN fields /\ sent[k] = ControlSent(config, fields[k])  BY <1>1
  <2>2. fields[k] = Field(fields[k].name, fields[k].value) /\ HasNamed(config["controls"], fields[k].name)
    BY <2>1 DEF Sends
  <2>. QED  BY <2>1, <2>2, ControlBack
<1>4. \A k, l \in DOMAIN fields : k # l => fields[k].name # fields[l].name
  BY NamesDiffer
<1>5. HeardAs(config, "controls", sent, fields)
  <2>. HIDE DEF sent
  <2>. QED  BY <1>1, <1>2, <1>3, <1>4 DEF HeardAs
<1>6. SortedInto(config, "controls", sent, fields)
  BY <1>0, <1>5, Sorted
<1>. QED  BY <1>6 DEF SortedInto

(* -------------------------------- Parsing --------------------------------- *)

\* Parsing keeps the values of an item that have a name.
LEMMA NamedEntriesOf ==
    ASSUME NEW raw \in RawItems
    PROVE  /\ NamedEntries(raw) \in Seq(ToSet(NamedEntries(raw)))
           /\ \A i \in DOMAIN NamedEntries(raw) :
                  /\ NamedEntries(raw)[i] \in ToSet(raw.values)
                  /\ NamedEntries(raw)[i].name # Absent
<1>. DEFINE S == {v \in ToSet(raw.values) : v.name # Absent}
            U == ToSet(raw.values)
<1>1. raw.values \in Seq(U)  BY ItemsAssumption
<1>2. Kept(raw.values, S) \in Seq(U \cap S)
  <2>. HIDE DEF U, S
  <2>. QED  BY <1>1, KeptMembers
<1>3. NamedEntries(raw) = Kept(raw.values, S)
  BY DEF NamedEntries
<1>4. NamedEntries(raw) \in Seq(U \cap S)  BY <1>2, <1>3
<1>. QED  BY <1>4 DEF ToSet

\* What normalizeItem leaves of an item, field by field.
LEMMA NormalizedFields ==
    ASSUME NEW raw \in RawItems
    PROVE  LET item == Normalized(raw)
           IN  /\ item.name = raw.name /\ item.type = raw.type /\ item.path = raw.path
               /\ item.values = NamedEntries(raw)
               /\ item.default = IF ValidValue(item, raw.default) THEN raw.default ELSE Null
<1>. DEFINE base == [raw EXCEPT !.constraints = @ \cap ApplicableConstraints[raw.type],
                                !.values = NamedEntries(raw)]
            item == Normalized(raw)
<1>1. raw = [name |-> raw.name, path |-> raw.path, type |-> raw.type, values |-> raw.values,
             constraints |-> raw.constraints, default |-> raw.default, required |-> raw.required]
  BY ItemsAssumption
<1>2. base = [name |-> raw.name, path |-> raw.path, type |-> raw.type, values |-> NamedEntries(raw),
              constraints |-> raw.constraints \cap ApplicableConstraints[raw.type],
              default |-> raw.default, required |-> raw.required]
  <2>1. PICK n, p, t, v, c, d, r : raw = [name |-> n, path |-> p, type |-> t, values |-> v,
                                         constraints |-> c, default |-> d, required |-> r]
    BY <1>1
  <2>2. PICK e : e = NamedEntries(raw)  OBVIOUS
  <2>3. base = [raw EXCEPT !.constraints = @ \cap ApplicableConstraints[raw.type], !.values = e]
    BY <2>2
  <2>. HIDE DEF base
  <2>. QED  BY <2>1, <2>2, <2>3
<1>3. item = [base EXCEPT !.default = IF ValidValue(base, base.default) THEN base.default ELSE Null]
  BY DEF Normalized
<1>. HIDE DEF base, item
<1>4. /\ item.name = raw.name /\ item.type = raw.type /\ item.path = raw.path
      /\ item.values = NamedEntries(raw) /\ item.constraints = base.constraints
      /\ item.default = IF ValidValue(base, raw.default) THEN raw.default ELSE Null
  BY <1>2, <1>3
<1>5. /\ base.type = item.type /\ base.values = item.values /\ base.constraints = item.constraints
  BY <1>2, <1>4
<1>6. ValidValue(base, raw.default) = ValidValue(item, raw.default)
  BY <1>5 DEF ValidValue, EntryNames, Conforms
<1>7. /\ item.name = raw.name /\ item.type = raw.type /\ item.path = raw.path
      /\ item.values = NamedEntries(raw)
      /\ item.default = IF ValidValue(item, raw.default) THEN raw.default ELSE Null
  BY <1>4, <1>6
<1>. QED  BY <1>7 DEF item

\* It is clean, whatever the file says.
LEMMA NormalizedIsClean ==
    ASSUME NEW raw \in RawItems \cap Known
    PROVE  Clean(Normalized(raw))
<1>. DEFINE item == Normalized(raw)
<1>1. /\ item.name = raw.name /\ item.type = raw.type /\ item.path = raw.path
      /\ item.values = NamedEntries(raw)
      /\ item.default = IF ValidValue(item, raw.default) THEN raw.default ELSE Null
  BY NormalizedFields
<1>2. raw.name # Absent /\ raw.type \in ItemTypes  BY DEF Known
<1>3. IsValue(raw.default) /\ IsValue(Null)  BY ItemsAssumption DEF IsValue, Null, Value
<1>4. ValidValue(item, Null)  BY DEF ValidValue
<1>5. /\ item.values \in Seq(ToSet(item.values))
      /\ \A i \in DOMAIN item.values : item.values[i].name # Absent
  BY <1>1, NamedEntriesOf
<1>. HIDE DEF item
<1>6. Clean(item)
  BY <1>1, <1>2, <1>3, <1>4, <1>5 DEF Clean
<1>. QED  BY <1>6 DEF item

\* The type invariant.
PayloadsTyped == file \in [Sections -> Seq(RawItems)] /\ strict \in BOOLEAN

\* The items of the configuration are the known ones of the file, normalised.
LEMMA ConfigItems ==
    ASSUME PayloadsTyped, NEW s \in Sections
    PROVE  /\ Config[s] \in Seq(ToSet(Config[s]))
           /\ \A i \in DOMAIN Config[s] :
                  \E raw \in RawItems \cap Known : Config[s][i] = Normalized(raw)
<1>. DEFINE known == Kept(file[s], Known)
<1>1. file[s] \in Seq(RawItems)  BY DEF PayloadsTyped
<1>2. known \in Seq(RawItems \cap Known)  BY <1>1, KeptMembers
<1>3. Config[s] = [i \in DOMAIN known |-> Normalized(known[i])]
  BY DEF Config
<1>. HIDE DEF known
<1>4. PICK n \in Nat : DOMAIN known = 1..n  BY <1>2
<1>5. \A i \in 1..n : Config[s][i] \in ToSet(Config[s])  BY <1>3, <1>4 DEF ToSet
<1>6. Config[s] \in Seq(ToSet(Config[s]))
  BY <1>3, <1>4, <1>5
<1>. QED  BY <1>2, <1>3, <1>6

\* Every file makes a configuration of clean items.
LEMMA ConfigIsFormed ==
    ASSUME PayloadsTyped
    PROVE  Formed(Config)
  BY ConfigItems, NormalizedIsClean DEF Formed

(* Whatever is written, the file stays a sequence of declared items in each     *)
(* section (loadConfig, buildConfig).                                           *)
THEOREM PayloadsAreTyped == Spec => []PayloadsTyped
<1>1. Init => PayloadsTyped
  BY DEF Init, PayloadsTyped
<1>2. PayloadsTyped /\ [Next]_vars => PayloadsTyped'
  <2>. SUFFICES ASSUME PayloadsTyped, [Next]_vars PROVE PayloadsTyped'  OBVIOUS
  <2>1. ASSUME NEW s \in Sections, NEW raw \in RawItems, Declare(s, raw) PROVE PayloadsTyped'
    BY <2>1 DEF PayloadsTyped, Declare
  <2>2. CASE UNCHANGED vars
    BY <2>2 DEF PayloadsTyped, vars
  <2>. QED  BY <2>1, <2>2 DEF Next
<1>. QED  BY <1>1, <1>2, PTL DEF Spec

(* ---------------------- What is accepted and echoed ----------------------- *)

\* The defaults are those of the items, one by one, and each is accepted.
LEMMA DefaultsAre ==
    ASSUME NEW config, Formed(config), Clear(config), NEW s \in Sections
    PROVE  /\ Defaults(config, s) =
                 [i \in DOMAIN config[s] |-> Field(config[s][i].name, config[s][i].default)]
           /\ Defaults(config, s) \in Seq(ToSet(Defaults(config, s)))
           /\ \A k, l \in DOMAIN Defaults(config, s) :
                  k # l => Defaults(config, s)[k].name # Defaults(config, s)[l].name
           /\ \A k \in DOMAIN Defaults(config, s) : AcceptsField(config, s, Defaults(config, s)[k])
<1>. DEFINE defaults == [i \in DOMAIN config[s] |-> Field(config[s][i].name, config[s][i].default)]
<1>1. PICK n \in Nat : DOMAIN config[s] = 1..n  BY DEF Formed
<1>2. defaults \in Seq(ToSet(defaults))
  <2>1. \A i \in 1..n : defaults[i] \in ToSet(defaults)  BY <1>1 DEF ToSet
  <2>. QED  BY <1>1, <2>1
<1>3. \A i, j \in DOMAIN defaults : i # j => defaults[i].name # defaults[j].name
  BY ClearAt DEF Field
<1>4. Defaults(config, s) = defaults
  <2>1. Assigned(<<>>, defaults) = defaults
    <3>. HIDE DEF defaults
    <3>. QED  BY <1>2, <1>3, AssignedDistinct
  <2>. QED  BY <2>1 DEF Defaults
<1>5. ASSUME NEW k \in DOMAIN defaults PROVE AcceptsField(config, s, defaults[k])
  <2>1. k \in DOMAIN config[s] /\ defaults[k] = Field(config[s][k].name, config[s][k].default)
    OBVIOUS
  <2>2. /\ HasNamed(config[s], config[s][k].name) /\ Named(config[s], config[s][k].name) = config[s][k]
    BY <2>1, NamedInSection
  <2>3. ValidValue(config[s][k], config[s][k].default)
    BY <2>1 DEF Formed, Clean
  <2>. QED  BY <2>1, <2>2, <2>3 DEF AcceptsField, Field
<1>6. /\ Defaults(config, s) \in Seq(ToSet(Defaults(config, s)))
      /\ \A k, l \in DOMAIN Defaults(config, s) :
             k # l => Defaults(config, s)[k].name # Defaults(config, s)[l].name
      /\ \A k \in DOMAIN Defaults(config, s) : AcceptsField(config, s, Defaults(config, s)[k])
  <2>. HIDE DEF defaults
  <2>. QED  BY <1>2, <1>3, <1>4, <1>5
<1>. QED  BY <1>4, <1>6

(* The payload that a new device starts with is one that the validator accepts  *)
(* (buildDefaultPayloads, normalizeDefault), for every file with a clear         *)
(* configuration.                                                               *)
THEOREM DefaultsAreAccepted == Spec => []DefaultsAccepted
<1>1. ASSUME PayloadsTyped PROVE DefaultsAccepted
  <2>1. PICK config : config = Config  OBVIOUS
  <2>2. Formed(config)  BY <1>1, <2>1, ConfigIsFormed
  <2>3. Clear(config) => \A s \in Sections : \A k \in DOMAIN Defaults(config, s) :
            AcceptsField(config, s, Defaults(config, s)[k])
    BY <2>2, DefaultsAre
  <2>. QED  BY <2>1, <2>3 DEF DefaultsAccepted
<1>. QED  BY <1>1, PayloadsAreTyped, PTL

\* Nothing is dropped of a payload that is accepted.
LEMMA SanitizedAll ==
    ASSUME NEW config, NEW s, NEW fields, fields \in Seq(ToSet(fields)),
           \A k \in DOMAIN fields : AcceptsField(config, s, fields[k])
    PROVE  Sanitized(config, s, fields) = fields
<1>. DEFINE S == {f \in ToSet(fields) : AcceptsField(config, s, f)}
<1>1. \A k \in DOMAIN fields : fields[k] \in S  BY DEF ToSet
<1>2. Kept(fields, S) = fields
  <2>. HIDE DEF S
  <2>. QED  BY <1>1, KeptAll
<1>. QED  BY <1>2 DEF Sanitized

\* The payloads of the properties are fields of controls with values.
LEMMA PayloadFields ==
    ASSUME NEW config, NEW fields \in Payloads(config, "controls")
    PROVE  /\ fields \in Seq(ToSet(fields))
           /\ \A k \in DOMAIN fields :
                  /\ fields[k] = Field(fields[k].name, fields[k].value)
                  /\ fields[k].value \in Values /\ HasNamed(config["controls"], fields[k].name)
<1>. DEFINE F == {Field(config["controls"][i].name, v) : i \in DOMAIN config["controls"], v \in Values}
<1>1. \A f \in F : /\ f = Field(f.name, f.value) /\ f.value \in Values
                    /\ HasNamed(config["controls"], f.name)
  BY DEF Field, HasNamed
<1>2. fields \in Seq(F)
  <2>1. CASE \E f \in F : fields = <<f>>
    <3>. HIDE DEF F
    <3>. QED  BY <2>1
  <2>2. CASE \E p \in F \X F : fields = <<p[1], p[2]>>
    <3>. HIDE DEF F
    <3>. QED  BY <2>2
  <2>. QED  BY <2>1, <2>2 DEF Payloads
<1>. HIDE DEF F
<1>. QED  BY <1>1, <1>2 DEF ToSet

\* One that is acceptable can be sent, and each field is a valid value.
LEMMA AcceptableSent ==
    ASSUME NEW config, NEW fields \in Payloads(config, "controls"), Acceptable(config, fields)
    PROVE  /\ Sends(config, fields)
           /\ \A k \in DOMAIN fields :
                  /\ AcceptsField(config, "controls", fields[k])
                  /\ ValidValue(Control(config, fields[k]), fields[k].value)
                  /\ fields[k].value # Null /\ IsValue(fields[k].value)
<1>1. Sends(config, fields)
  BY PayloadFields DEF Sends, Control, ItemOf, Acceptable
<1>2. ASSUME NEW k \in DOMAIN fields
      PROVE  /\ AcceptsField(config, "controls", fields[k])
             /\ ValidValue(Control(config, fields[k]), fields[k].value)
             /\ fields[k].value # Null /\ IsValue(fields[k].value)
  <2>1. AcceptsField(config, "controls", fields[k])
    <3>1. fields[k] \in ToSet(fields)  BY DEF ToSet
    <3>2. {f.name : f \in {g \in ToSet(fields) : ~AcceptsField(config, "controls", g)}} = {}
      BY DEF Acceptable, PayloadErrors
    <3>. QED  BY <3>1, <3>2
  <2>2. HasNamed(config["controls"], fields[k].name) /\ fields[k].value \in Values
    BY PayloadFields
  <2>. QED  BY <2>1, <2>2, ValuesAssumption DEF AcceptsField, Control, Acceptable
<1>. QED  BY <1>1, <1>2

(* A Zigbee device that reports the controls it was sent leaves the stored ones *)
(* as they are (mapPayloadToDevice, categorizeAndMapPayloadFromDevice,          *)
(* sanitizePayload).                                                            *)
THEOREM ZigbeeEchoes == Spec => []ZigbeeEcho
<1>1. ASSUME PayloadsTyped PROVE ZigbeeEcho
  <2>1. PICK config : config = Config  OBVIOUS
  <2>2. Formed(config)  BY <1>1, <2>1, ConfigIsFormed
  <2>. SUFFICES ASSUME Clear(config), NEW fields \in Payloads(config, "controls"),
                       Acceptable(config, fields),
                       \A k \in DOMAIN fields :
                           Settable(ItemOf(config, "controls", fields[k]), fields[k].value)
                PROVE  LET heard == Categorized(config, ToDevice(config, fields))
                       IN  /\ ToSet(Sanitized(config, "controls", heard["controls"])) = ToSet(fields)
                           /\ heard["commands"] = <<>> /\ heard["measurements"] = <<>>
    BY <2>1 DEF ZigbeeEcho
  <2>3. /\ Sends(config, fields)
        /\ \A k \in DOMAIN fields : AcceptsField(config, "controls", fields[k])
        /\ \A k \in DOMAIN fields : ValidValue(Control(config, fields[k]), fields[k].value)
                                   /\ fields[k].value # Null /\ IsValue(fields[k].value)
    BY AcceptableSent
  <2>4. \A k \in DOMAIN fields : Settable(Control(config, fields[k]), fields[k].value)
    BY DEF ItemOf, Control
  <2>5. \A k \in DOMAIN fields :
           /\ Settable(Control(config, fields[k]), fields[k].value)
           /\ ValidValue(Control(config, fields[k]), fields[k].value)
           /\ fields[k].value # Null /\ IsValue(fields[k].value)
    BY <2>3, <2>4
  <2>6. Categorized(config, ToDevice(config, fields))
          = [s \in Sections |-> IF s = "controls" THEN fields ELSE <<>>]
    BY <2>2, <2>3, <2>5, ReportsComeBack
  <2>7. Sanitized(config, "controls", fields) = fields
    BY <2>3, PayloadFields, SanitizedAll
  <2>. QED  BY <2>6, <2>7 DEF Sections
<1>. QED  BY <1>1, PayloadsAreTyped, PTL

\* An item without values takes nothing, and no other takes it in its place.
LEMMA Untold ==
    ASSUME NEW config, Formed(config), Clear(config), NEW i \in DOMAIN config["controls"],
           Translates(config["controls"][i]), config["controls"][i].values = <<>>,
           NEW f, f.name = DeviceName(config["controls"][i])
    PROVE  ~Knows(config, "controls", f)
<1>. DEFINE item == config["controls"][i]
<1>0. "controls" \in Sections  BY DEF Sections
<1>1. SUFFICES ASSUME NEW j \in DOMAIN config["controls"], HasField(config["controls"][j], f)
               PROVE  FALSE
  BY DEF Knows
<1>2. CASE j = i
  <2>1. DOMAIN item.values = {}  OBVIOUS
  <2>. QED  BY <1>1, <1>2, <2>1 DEF HasField, HasPath, HasNamed
<1>3. CASE j # i
  <2>1. Apart(item, config["controls"][j])  BY <1>0, <1>3, ClearAt
  <2>. QED  BY <1>1, <2>1 DEF Apart, HasField
<1>. QED  BY <1>2, <1>3

(* So does a device on MQTT (mapPayloadFromDevice), with booleans and           *)
(* enumerations that declare no values, too: what is unknown stays as it is.    *)
THEOREM MqttEchoes == Spec => []MqttEcho
<1>1. ASSUME PayloadsTyped PROVE MqttEcho
  <2>1. PICK config : config = Config  OBVIOUS
  <2>2. Formed(config)  BY <1>1, <2>1, ConfigIsFormed
  <2>. SUFFICES ASSUME Clear(config), NEW fields \in Payloads(config, "controls"),
                       Acceptable(config, fields),
                       \A k \in DOMAIN fields :
                           \/ Settable(ItemOf(config, "controls", fields[k]), fields[k].value)
                           \/ /\ Translates(ItemOf(config, "controls", fields[k]))
                              /\ ItemOf(config, "controls", fields[k]).path = Absent
                              /\ ItemOf(config, "controls", fields[k]).values = <<>>
                PROVE  ToSet(Sanitized(config, "controls",
                           FromDevice(config, "controls", ToDevice(config, fields)))) = ToSet(fields)
    BY <2>1 DEF MqttEcho
  <2>. DEFINE sent == ToDevice(config, fields)
              back(k) == IF Knows(config, "controls", sent[k])
                         THEN Heard(config, "controls", sent[k]) ELSE sent[k]
  <2>3. /\ Sends(config, fields)
        /\ \A k \in DOMAIN fields : AcceptsField(config, "controls", fields[k])
        /\ \A k \in DOMAIN fields : ValidValue(Control(config, fields[k]), fields[k].value)
                                   /\ fields[k].value # Null /\ IsValue(fields[k].value)
    BY AcceptableSent
  <2>4. /\ sent = [k \in DOMAIN fields |-> ControlSent(config, fields[k])]
        /\ sent \in Seq(ToSet(sent)) /\ fields \in Seq(ToSet(fields))
    BY <2>2, <2>3, SentAs DEF Sends
  <2>5. ASSUME NEW k \in DOMAIN fields PROVE back(k) = fields[k]
    <3>1. sent[k] = ControlSent(config, fields[k])  BY <2>4
    <3>2. fields[k] = Field(fields[k].name, fields[k].value) /\ HasNamed(config["controls"], fields[k].name)
      BY <2>3 DEF Sends
    <3>3. CASE Settable(Control(config, fields[k]), fields[k].value)
      BY <2>2, <2>3, <3>1, <3>2, <3>3, ControlBack
    <3>4. CASE ~Settable(Control(config, fields[k]), fields[k].value)
      <4>1. PICK i \in DOMAIN config["controls"] :
              config["controls"][i].name = fields[k].name
                /\ Control(config, fields[k]) = config["controls"][i]
        BY <2>2, <3>2, ControlIs
      <4>. DEFINE item == config["controls"][i]
      <4>2. Translates(item) /\ item.path = Absent /\ item.values = <<>>
        BY <3>4, <4>1 DEF ItemOf, Control
      <4>3. DeviceName(item) = fields[k].name  BY <4>1, <4>2 DEF DeviceName, Given
      <4>4. ~HasNamed(item.values, fields[k].value.text)  BY <4>2 DEF HasNamed
      <4>5. ValueToDevice(item, fields[k].value) = fields[k].value
        BY <4>2, <4>4 DEF ValueToDevice
      <4>6. sent[k] = fields[k]
        BY <3>1, <3>2, <4>1, <4>3, <4>5 DEF ControlSent
      <4>7. ~Knows(config, "controls", fields[k])
        BY <2>2, <4>2, <4>3, Untold
      <4>. QED  BY <4>6, <4>7
    <3>. QED  BY <3>3, <3>4
  <2>6. DOMAIN sent = DOMAIN fields  BY <2>4
  <2>7. [k \in DOMAIN sent |-> back(k)] = fields
    <3>. HIDE DEF back, sent
    <3>. QED  BY <2>4, <2>5, <2>6
  <2>8. FromDevice(config, "controls", sent) = fields
    <3>1. Assigned(<<>>, fields) = fields
      BY <2>3, <2>4, NamesDiffer, AssignedDistinct
    <3>2. CASE config["controls"] = <<>>
      <4>1. DOMAIN fields = {}  BY <2>3, <3>2 DEF Sends, HasNamed
      <4>2. fields = <<>>  BY <2>4, <4>1
      <4>3. sent = <<>>
        <5>1. DOMAIN sent = {} /\ sent \in Seq(ToSet(sent))  BY <2>4, <2>6, <4>1
        <5>. HIDE DEF sent
        <5>. QED  BY <5>1
      <4>. HIDE DEF sent
      <4>. QED  BY <3>2, <4>2, <4>3 DEF FromDevice
    <3>3. CASE config["controls"] # <<>>
      BY <2>7, <3>1, <3>3 DEF FromDevice
    <3>. QED  BY <3>2, <3>3
  <2>9. Sanitized(config, "controls", fields) = fields
    BY <2>3, PayloadFields, SanitizedAll
  <2>. QED  BY <2>8, <2>9
<1>. QED  BY <1>1, PayloadsAreTyped, PTL

\* A boolean or an enumeration reads a value by its text.
LEMMA OnlyTextCounts ==
    ASSUME NEW item, Translates(item), NEW v, NEW w, v.text = w.text,
           HasPath(item.values, v.text) \/ HasNamed(item.values, v.text)
    PROVE  ValueFromDevice(item, v) = ValueFromDevice(item, w)
<1>1. item.type \in {"boolean", "enum"}  BY DEF Translates
<1>. QED  BY <1>1 DEF ValueFromDevice

\* What is sent for a value is the text of a value.
LEMMA SentIsValue ==
    ASSUME NEW raw \in RawItems, NEW item, item = Normalized(raw), NEW v \in Values, Translates(item)
    PROVE  \E w \in Values : w.text = ValueToDevice(item, v).text
<1>1. /\ item.values = NamedEntries(raw)
      /\ item.values \in Seq(ToSet(item.values))
      /\ \A i \in DOMAIN item.values : item.values[i] \in ToSet(raw.values)
  BY NormalizedFields, NamedEntriesOf
<1>2. CASE HasNamed(item.values, v.text)
  <2>1. PICK k \in DOMAIN item.values : Named(item.values, v.text) = item.values[k]
    BY <1>1, <1>2, NamedIs
  <2>2. ValueToDevice(item, v) = IF item.values[k].path = Absent THEN v ELSE Text(item.values[k].path)
    BY <1>2, <2>1 DEF ValueToDevice
  <2>3. CASE item.values[k].path = Absent
    BY <2>2, <2>3
  <2>4. CASE item.values[k].path # Absent
    <3>1. PICK w \in Values : w.text = item.values[k].path
      BY <1>1, <2>4, PathsAssumption
    <3>. QED  BY <2>2, <2>4, <3>1 DEF Text, Value
  <2>. QED  BY <2>3, <2>4
<1>3. CASE ~HasNamed(item.values, v.text)
  BY <1>3 DEF ValueToDevice
<1>. QED  BY <1>2, <1>3

\* A report of one field is heard as that item's.
HeardAlone(config, s, i, w) ==
    Categorized(config, <<Field(DeviceName(config[s][i]), w)>>)[s]
        = <<Field(config[s][i].name, ValueFromDevice(config[s][i], w))>>

\* One field that was meant for an item is heard by it.
LEMMA ReportedAlone ==
    ASSUME NEW config, Formed(config), Clear(config), NEW s \in Sections, NEW i \in DOMAIN config[s],
           NEW w, Own(config, s, i, Field(DeviceName(config[s][i]), w))
    PROVE  HeardAlone(config, s, i, w)
<1>. DEFINE item == config[s][i]
            f == Field(DeviceName(item), w)
            g == Field(item.name, ValueFromDevice(item, w))
<1>1. Taker(config[s], f) = item  BY TakenBy
<1>2. Heard(config, s, f) = g  BY <1>1 DEF Heard, Field
<1>3. Own(config, s, i, f)  OBVIOUS
<1>. HIDE DEF f, g
<1>. DEFINE sent == <<f>>
            fields == <<g>>
<1>4. /\ sent \in Seq(ToSet(sent)) /\ DOMAIN sent = {1} /\ sent[1] = f /\ Len(sent) = 1
      /\ fields \in Seq(ToSet(fields)) /\ DOMAIN fields = {1} /\ fields[1] = g /\ Len(fields) = 1
  BY DEF ToSet
<1>. HIDE DEF sent, fields
<1>5. HeardAs(config, s, sent, fields)
  BY <1>2, <1>3, <1>4 DEF HeardAs
<1>6. SortedInto(config, s, sent, fields)
  BY <1>5, Sorted
<1>7. Categorized(config, sent)[s] = fields  BY <1>6 DEF SortedInto
<1>. QED  BY <1>7 DEF sent, fields, f, g, HeardAlone

(* A condition that a scenario is saved with is one that the device can report  *)
(* (collectConditionErrors, validateConditions, and the mapper and sanitiser     *)
(* that reports pass through).                                                   *)
THEOREM ConditionsAreMeetable == Spec => []ConditionsMeetable
<1>1. ASSUME PayloadsTyped PROVE ConditionsMeetable
  <2>1. PICK config : config = Config  OBVIOUS
  <2>2. Formed(config)  BY <1>1, <2>1, ConfigIsFormed
  <2>. SUFFICES ASSUME Clear(config), NEW s \in Sections, NEW n \in ItemNames, NEW v \in Values,
                       ~ScenarioRefused(config, [t \in Sections |->
                            IF t = s THEN <<Field(n, v)>> ELSE <<>>]),
                       IF HasNamed(config[s], n)
                       THEN Reportable(Named(config[s], n), v) /\ v.type # "object" ELSE strict
                PROVE  /\ HasNamed(config[s], n)
                       /\ \E w \in Values : Field(n, v) \in ToSet(Sanitized(config, s,
                              Categorized(config, <<Field(DeviceName(Named(config[s], n)), w)>>)[s]))
    BY <2>1 DEF ConditionsMeetable
  <2>. DEFINE condition == Field(n, v)
              are == [t \in Sections |-> IF t = s THEN <<condition>> ELSE <<>>]
  <2>3. AcceptsField(config, s, condition)
    <3>1. ConditionErrors(config, s, <<condition>>) = {}
      <4>1. are[s] = <<condition>>  OBVIOUS
      <4>2. ConditionErrors(config, s, are[s]) = {}  BY DEF ScenarioRefused
      <4>. QED  BY <4>1, <4>2
    <3>2. condition \in ToSet(<<condition>>)  BY DEF ToSet
    <3>. HIDE DEF condition
    <3>. QED  BY <3>1, <3>2 DEF ConditionErrors
  <2>4. HasNamed(config[s], n)
    BY <2>3 DEF AcceptsField, Field
  <2>5. PICK i \in DOMAIN config[s] : config[s][i].name = n /\ Named(config[s], n) = config[s][i]
    <3>1. config[s] \in Seq(ToSet(config[s]))  BY <2>2 DEF Formed
    <3>. QED  BY <2>4, <3>1, NamedIs
  <2>. DEFINE item == config[s][i]
  <2>6. Reportable(item, v) /\ v.type # "object"  BY <2>4, <2>5
  <2>7. ValidValue(item, v)  BY <2>3, <2>4, <2>5 DEF AcceptsField, Field
  <2>8. Clean(item) /\ IsValue(v)  BY <2>2, ValuesAssumption DEF Formed
  <2>9. v # Null
    BY <2>6, <2>8 DEF Reportable, Clean, ItemTypes, Null, Value, Translates
  <2>10. \E w \in Values : /\ Own(config, s, i, Field(DeviceName(item), w))
                           /\ ValueFromDevice(item, w) = v
    <3>1. CASE ~Translates(item)
      <4>1. item.type \in {"number", "string", "object"} /\ v.type = item.type
        BY <2>6, <2>8, <3>1 DEF Clean, Translates, ItemTypes, Reportable
      <4>2. ValueFromDevice(item, v) = v
        BY <2>9, <3>1, <4>1 DEF ValueFromDevice, AsNumber
      <4>. QED  BY <3>1, <4>2 DEF Own, HasField, Field
    <3>2. CASE Translates(item)
      <4>. DEFINE sent == ValueToDevice(item, v)
      <4>1. Settable(item, v)  BY <2>6, <3>2 DEF Settable
      <4>2. /\ HasPath(item.values, sent.text) \/ HasNamed(item.values, sent.text)
            /\ sent.text \in Sent(item) /\ ValueFromDevice(item, sent) = v
        BY <2>7, <2>8, <2>9, <3>2, <4>1, TranslatedBack
      <4>3. PICK raw \in RawItems : item = Normalized(raw)
        BY <1>1, <2>1, ConfigItems
      <4>4. PICK w \in Values : w.text = sent.text
        BY <3>2, <4>3, SentIsValue
      <4>5. ValueFromDevice(item, w) = v
        BY <3>2, <4>2, <4>4, OnlyTextCounts
      <4>6. item.values # <<>>  BY <2>6, <3>2 DEF Reportable, Complete
      <4>7. Own(config, s, i, Field(DeviceName(item), w))
        <5>. HIDE DEF sent
        <5>. QED  BY <4>2, <4>4, <4>6 DEF Own, HasField, Field
      <4>. QED  BY <4>5, <4>7
    <3>. QED  BY <3>1, <3>2
  <2>11. PICK w \in Values : /\ Own(config, s, i, Field(DeviceName(item), w))
                            /\ ValueFromDevice(item, w) = v
    BY <2>10
  <2>12. Categorized(config, <<Field(DeviceName(item), w)>>)[s] = <<condition>>
    <3>1. Own(config, s, i, Field(DeviceName(config[s][i]), w))  BY <2>11
    <3>2. HeardAlone(config, s, i, w)  BY <2>2, <3>1, ReportedAlone
    <3>. QED  BY <2>5, <2>11, <3>2 DEF HeardAlone
  <2>13. Sanitized(config, s, <<condition>>) = <<condition>>
    <3>. DEFINE fields == <<condition>>
    <3>1. fields \in Seq(ToSet(fields)) /\ \A k \in DOMAIN fields : fields[k] = condition
      <4>. HIDE DEF condition
      <4>. QED  BY DEF ToSet
    <3>2. \A k \in DOMAIN fields : AcceptsField(config, s, fields[k])  BY <2>3, <3>1
    <3>. HIDE DEF fields
    <3>3. Sanitized(config, s, fields) = fields  BY <3>1, <3>2, SanitizedAll
    <3>. QED  BY <3>3 DEF fields
  <2>14. condition \in ToSet(<<condition>>)
    <3>. HIDE DEF condition
    <3>. QED  BY DEF ToSet
  <2>. QED  BY <2>4, <2>5, <2>12, <2>13, <2>14
<1>. QED  BY <1>1, PayloadsAreTyped, PTL

(* ------------------------------ Stored controls --------------------------- *)

\* Controls that a device stores: declared, accepted, with different names.
StoredControl(config, f) ==
    /\ f = Field(f.name, f.value) /\ IsValue(f.value)
    /\ HasNamed(config["controls"], f.name) /\ AcceptsField(config, "controls", f)
StoredControls(config, fields) ==
    /\ fields \in Seq(ToSet(fields))
    /\ \A k \in DOMAIN fields : StoredControl(config, fields[k])
    /\ \A k, l \in DOMAIN fields : k # l => fields[k].name # fields[l].name

\* A new device stores such controls.
LEMMA DefaultsStored ==
    ASSUME NEW config, Formed(config), Clear(config)
    PROVE  StoredControls(config, Defaults(config, "controls"))
<1>. DEFINE fields == Defaults(config, "controls")
<1>0. "controls" \in Sections  BY DEF Sections
<1>1. /\ fields = [i \in DOMAIN config["controls"] |->
                       Field(config["controls"][i].name, config["controls"][i].default)]
      /\ fields \in Seq(ToSet(fields))
      /\ \A k, l \in DOMAIN fields : k # l => fields[k].name # fields[l].name
      /\ \A k \in DOMAIN fields : AcceptsField(config, "controls", fields[k])
  BY <1>0, DefaultsAre
<1>2. ASSUME NEW k \in DOMAIN fields PROVE StoredControl(config, fields[k])
  <2>1. k \in DOMAIN config["controls"]
        /\ fields[k] = Field(config["controls"][k].name, config["controls"][k].default)
    BY <1>1
  <2>2. IsValue(config["controls"][k].default)  BY <1>0, <2>1 DEF Formed, Clean
  <2>3. HasNamed(config["controls"], config["controls"][k].name)  BY <2>1 DEF HasNamed
  <2>4. AcceptsField(config, "controls", fields[k])  BY <1>1
  <2>. QED  BY <2>1, <2>2, <2>3, <2>4 DEF StoredControl, Field
<1>. QED  BY <1>1, <1>2 DEF StoredControls

\* Merging a control that is accepted leaves such controls, with that one.
LEMMA MergedStored ==
    ASSUME NEW config, NEW stored, StoredControls(config, stored), NEW f, StoredControl(config, f)
    PROVE  /\ StoredControls(config, Merged(<<f>>, stored))
           /\ f \in ToSet(Merged(<<f>>, stored))
<1>. DEFINE U == ToSet(stored) \cup {f}
<1>0. stored \in Seq(U)
  <2>1. stored \in Seq(ToSet(stored))  BY DEF StoredControls
  <2>. QED  BY <2>1
<1>1. PICK after : after = Assign(stored, f)  OBVIOUS
<1>2. Merged(<<f>>, stored) = after
  BY <1>0, <1>1, AssignedOne DEF Merged
<1>3. /\ \A k \in DOMAIN stored : StoredControl(config, stored[k])
      /\ \A k, l \in DOMAIN stored : k # l => stored[k].name # stored[l].name
  BY DEF StoredControls
<1>4. PICK n \in Nat : n = Len(stored) /\ DOMAIN stored = 1..n  BY <1>0
<1>5. CASE HasNamed(stored, f.name)
  <2>1. after = [i \in DOMAIN stored |-> IF stored[i].name = f.name THEN f ELSE stored[i]]
    BY <1>1, <1>5 DEF Assign
  <2>2. \A k \in DOMAIN after : after[k] \in ToSet(after)  BY DEF ToSet
  <2>3. after \in Seq(ToSet(after))  BY <1>4, <2>1, <2>2
  <2>4. \A k \in DOMAIN after : StoredControl(config, after[k])  BY <1>3, <2>1
  <2>5. \A k, l \in DOMAIN after : k # l => after[k].name # after[l].name  BY <1>3, <2>1
  <2>6. PICK k \in DOMAIN stored : stored[k].name = f.name  BY <1>5 DEF HasNamed
  <2>7. f \in ToSet(after)  BY <2>1, <2>6 DEF ToSet
  <2>. QED  BY <1>2, <2>3, <2>4, <2>5, <2>7 DEF StoredControls
<1>6. CASE ~HasNamed(stored, f.name)
  <2>1. after = Append(stored, f)
    BY <1>1, <1>6 DEF Assign
  <2>2. /\ after \in Seq(U) /\ DOMAIN after = 1..n + 1 /\ after[n + 1] = f
        /\ \A k \in 1..n : after[k] = stored[k]
    BY <1>0, <1>4, <2>1
  <2>3. after \in Seq(ToSet(after))
    <3>1. \A k \in DOMAIN after : after[k] \in ToSet(after)  BY DEF ToSet
    <3>. QED  BY <2>2, <3>1
  <2>4. \A k \in DOMAIN after : k = n + 1 \/ k \in 1..n  BY <2>2
  <2>5. \A k \in DOMAIN after : StoredControl(config, after[k])
    BY <1>3, <1>4, <2>2, <2>4
  <2>6. \A k \in 1..n : stored[k].name # f.name  BY <1>4, <1>6 DEF HasNamed
  <2>7. \A k, l \in DOMAIN after : k # l => after[k].name # after[l].name
    BY <1>3, <1>4, <2>2, <2>4, <2>6
  <2>8. f \in ToSet(after)
    <3>1. n + 1 \in DOMAIN after  BY <2>2
    <3>. QED  BY <2>2, <3>1 DEF ToSet
  <2>. QED  BY <1>2, <2>3, <2>5, <2>7, <2>8 DEF StoredControls
<1>. QED  BY <1>5, <1>6

\* Merging a control puts it in the place of the stored one with its name.
LEMMA MergedMembers ==
    ASSUME NEW config, NEW stored, StoredControls(config, stored), NEW f
    PROVE  ToSet(Merged(<<f>>, stored)) = {f} \cup {g \in ToSet(stored) : g.name # f.name}
<1>. DEFINE U == ToSet(stored) \cup {f}
<1>1. stored \in Seq(U)
  <2>1. stored \in Seq(ToSet(stored))  BY DEF StoredControls
  <2>. QED  BY <2>1
<1>2. Merged(<<f>>, stored) = Assign(stored, f)
  BY <1>1, AssignedOne DEF Merged
<1>3. PICK n \in Nat : n = Len(stored) /\ DOMAIN stored = 1..n  BY <1>1
<1>4. CASE HasNamed(stored, f.name)
  <2>1. Assign(stored, f) = [i \in DOMAIN stored |-> IF stored[i].name = f.name THEN f ELSE stored[i]]
    BY <1>4 DEF Assign
  <2>2. PICK k \in DOMAIN stored : stored[k].name = f.name  BY <1>4 DEF HasNamed
  <2>. QED  BY <1>2, <2>1, <2>2 DEF ToSet
<1>5. CASE ~HasNamed(stored, f.name)
  <2>1. PICK after : after = Append(stored, f)  OBVIOUS
  <2>2. /\ DOMAIN after = 1..n + 1 /\ after[n + 1] = f
        /\ \A k \in 1..n : after[k] = stored[k]
    BY <1>1, <1>3, <2>1
  <2>3. \A k \in DOMAIN after : k = n + 1 \/ k \in 1..n  BY <2>2
  <2>4. \A k \in 1..n : k \in DOMAIN after /\ n + 1 \in DOMAIN after  BY <2>2
  <2>5. n + 1 \in DOMAIN after  BY <2>2
  <2>6. \A k \in 1..n : stored[k].name # f.name  BY <1>3, <1>5 DEF HasNamed
  <2>7. ToSet(after) = {f} \cup ToSet(stored)
    BY <1>3, <2>2, <2>3, <2>4, <2>5 DEF ToSet
  <2>8. \A g \in ToSet(stored) : g.name # f.name  BY <1>3, <2>6 DEF ToSet
  <2>9. Merged(<<f>>, stored) = after  BY <1>2, <1>5, <2>1 DEF Assign
  <2>. QED  BY <2>7, <2>8, <2>9
<1>. QED  BY <1>4, <1>5

\* A payload of one field without errors has an accepted field.
LEMMA FitsOne ==
    ASSUME NEW config, NEW f, PayloadErrors(config, "controls", <<f>>) = {}
    PROVE  AcceptsField(config, "controls", f)
<1>1. f \in ToSet(<<f>>)  BY DEF ToSet
<1>. QED  BY <1>1 DEF PayloadErrors

\* The payloads of a source or an action that speak of one control.
SetTo(f) == [Nowhere EXCEPT !["controls"] = <<f>>]

\* It speaks of controls alone.
LEMMA SetToFields ==
    ASSUME NEW f
    PROVE  /\ SetTo(f)["controls"] = <<f>> /\ SetTo(f)["measurements"] = Absent
           /\ SetTo(f)["commands"] = Absent
  BY DEF SetTo, Nowhere, Sections

\* What a device may hold are such controls, and those of them that the brand refuses
\* are there from its start.
LEMMA HoldingsStored ==
    ASSUME NEW config, Formed(config), Clear(config), NEW stored \in Holdings(config)
    PROVE  /\ StoredControls(config, stored)
           /\ ToSet(stored) \cap BrandRefused \subseteq FromStart(config, stored)
<1>. DEFINE start == Defaults(config, "controls")
<1>1. StoredControls(config, start)  BY DefaultsStored
<1>2. CASE stored = start
  BY <1>1, <1>2 DEF FromStart
<1>3. ASSUME NEW f \in Fields(config), stored = Executed(config, start, Action(Device, SetTo(f))),
             stored # start
      PROVE  StoredControls(config, stored) /\ ToSet(stored) \cap BrandRefused = {}
  <2>1. /\ PayloadErrors(config, "controls", <<f>>) = {}
        /\ stored = Merged(<<f>>, start) /\ ~BrandRefuses(Merged(<<f>>, start))
    BY <1>3, SetToFields DEF Executed, Updated, Action
  <2>2. StoredControl(config, f)
    BY <2>1, FitsOne, ValuesAssumption DEF Fields, StoredControl, Field, HasNamed
  <2>3. StoredControls(config, Merged(<<f>>, start))  BY <1>1, <2>2, MergedStored
  <2>. QED  BY <2>1, <2>3 DEF BrandRefuses
<1>4. stored = start \/ \E f \in Fields(config) : stored = Executed(config, start, Action(Device, SetTo(f)))
  BY DEF Holdings, SetTo
<1>. QED  BY <1>2, <1>3, <1>4

\* A report of all stored controls changes none of them.
LEMMA EchoKeeps ==
    ASSUME NEW config, Formed(config), Clear(config), NEW stored, StoredControls(config, stored),
           Sendable(config, Stripped(stored))
    PROVE  Echo(config, stored) = stored
<1>. DEFINE U == ToSet(stored)
            S == {f \in U : f.value # Null}
            fields == Stripped(stored)
<1>1. stored \in Seq(U)  BY DEF StoredControls
<1>2. fields \in Seq(U \cap S)
  <2>1. Kept(stored, S) \in Seq(U \cap S)
    <3>. HIDE DEF U, S
    <3>. QED  BY <1>1, KeptMembers
  <2>. QED  BY <2>1 DEF Stripped
<1>3. fields \in Seq(ToSet(fields)) /\ fields \in Seq(U)
  <2>. HIDE DEF fields, U, S
  <2>1. \A k \in DOMAIN fields : fields[k] \in ToSet(fields)  BY DEF ToSet
  <2>. QED  BY <1>2, <2>1
<1>4. \A k \in DOMAIN fields : StoredControl(config, fields[k]) /\ fields[k].value # Null
  <2>1. \A k \in DOMAIN fields : fields[k] \in U /\ fields[k].value # Null
    <3>. HIDE DEF fields
    <3>. QED  BY <1>2
  <2>2. \A f \in U : StoredControl(config, f)  BY DEF StoredControls, ToSet
  <2>. HIDE DEF fields, U, S
  <2>. QED  BY <2>1, <2>2
<1>. HIDE DEF fields
<1>5. \A k \in DOMAIN fields : Settable(Control(config, fields[k]), fields[k].value)
  BY DEF Sendable, ItemOf, Control, fields
<1>6. Sends(config, fields)
  <2>1. \A k, l \in DOMAIN fields : k # l =>
           DeviceName(Control(config, fields[k])) # DeviceName(Control(config, fields[l]))
    BY DEF Sendable, ItemOf, Control, fields
  <2>. QED  BY <1>3, <1>4, <2>1 DEF Sends, StoredControl
<1>7. \A k \in DOMAIN fields :
         /\ Settable(Control(config, fields[k]), fields[k].value)
         /\ ValidValue(Control(config, fields[k]), fields[k].value)
         /\ fields[k].value # Null /\ IsValue(fields[k].value)
  BY <1>4, <1>5 DEF StoredControl, AcceptsField, Control
<1>8. Categorized(config, ToDevice(config, fields))["controls"] = fields
  BY <1>6, <1>7, ReportsComeBack DEF Sections
<1>9. Sanitized(config, "controls", fields) = fields
  BY <1>3, <1>4, SanitizedAll DEF StoredControl
<1>10. Assigned(stored, fields) = stored
  <2>1. \A k, l \in DOMAIN stored : k # l => stored[k].name # stored[l].name
    BY DEF StoredControls
  <2>. QED  BY <1>1, <1>3, <2>1, AssignedAgain
<1>. QED  BY <1>8, <1>9, <1>10 DEF Echo, Updated, Merged, fields

\* An action that was saved is of a device that is there, and is not refused.
LEMMA SavedFits ==
    ASSUME NEW config, NEW f, NEW d,
           Saved(config, <<DeviceSource(d, SetTo(f))>>, <<>>),
           Saved(config, <<CronSource>>, <<Action(d, SetTo(f))>>)
    PROVE  d = Device /\ <<f>> # Absent /\ PayloadErrors(config, "controls", <<f>>) = {}
<1>. DEFINE source == DeviceSource(d, SetTo(f))
            action == Action(d, SetTo(f))
<1>1. source \in ToSet(<<source>>) /\ action \in ToSet(<<action>>)
  <2>. HIDE DEF source, action
  <2>. QED  BY DEF ToSet
<1>2. source.type = "device" /\ source.device = d /\ action.set = SetTo(f)
  BY DEF DeviceSource, Action
<1>3. d \in Resolved(<<source>>, <<>>)
  BY <1>1, <1>2 DEF Saved, Validated
<1>4. d = Device  BY <1>3 DEF Resolved
<1>5. /\ UnfitPayloads(config, action) = {}
      /\ ~Empty(action.set["controls"]) \/ ~Empty(action.set["measurements"])
  BY <1>1 DEF Saved, Validated, Storable
<1>6. <<f>> # Absent
  BY <1>2, <1>5, SetToFields DEF Empty
<1>7. PayloadErrors(config, "controls", <<f>>) = {}
  BY <1>2, <1>5, <1>6, SetToFields DEF UnfitPayloads
<1>. QED  BY <1>4, <1>6, <1>7

\* A condition on a control is met by controls with that field.
LEMMA IsMetBy ==
    ASSUME NEW f, f.value.type # "object", NEW d, NEW controls, f \in ToSet(controls)
    PROVE  IsMet(DeviceSource(d, SetTo(f)), controls)
<1>1. DeviceSource(d, SetTo(f)).are["controls"] = <<f>>
  BY SetToFields DEF DeviceSource
<1>2. \A g \in ToSet(<<f>>) : g = f  BY DEF ToSet
<1>. QED  BY <1>1, <1>2 DEF IsMet

\* What an execution leaves of a device that held these controls.
DoneOrRefused(config, f, d, stored) ==
    LET after == Executed(config, stored, Action(d, SetTo(f)))
        waiting == DeviceSource(d, SetTo(f))
    IN  /\ d = Device
        /\ Objections(config, f, stored) # {} => after = stored
        /\ Objections(config, f, stored) = {} =>
              IsMet(waiting, after) /\ IsMet(waiting, Echo(config, after))

(* A scenario that was saved does what it says, unless the brand refuses         *)
(* (validateScenario, executeScenario, mergeValidateControls,                   *)
(* deviceConditionIsMet): the condition on what its action sets is met after    *)
(* the execution, and still after the device reported all the controls it was   *)
(* sent; the brand's DTO refuses the execution, which then changes nothing, only *)
(* for the value that is set or for the default of another control that has     *)
(* still not been replaced.                                                     *)
THEOREM ActionsMeet == Spec => []ActionMeets
<1>1. ASSUME PayloadsTyped PROVE ActionMeets
  <2>1. PICK config : config = Config  OBVIOUS
  <2>2. Formed(config)  BY <1>1, <2>1, ConfigIsFormed
  <2>3. ASSUME Clear(config), NEW f \in Fields(config), NEW d \in {Device, Gone},
               NEW stored \in Holdings(config), f.value.type # "object",
               Saved(config, <<DeviceSource(d, SetTo(f))>>, <<>>),
               Saved(config, <<CronSource>>, <<Action(d, SetTo(f))>>),
               Sendable(config, Stripped(Merged(<<f>>, stored)))
        PROVE  DoneOrRefused(config, f, d, stored)
    <3>. DEFINE after == Merged(<<f>>, stored)
    <3>1. d = Device /\ <<f>> # Absent /\ PayloadErrors(config, "controls", <<f>>) = {}
      BY <2>3, SavedFits
    <3>2. StoredControl(config, f)
      BY <2>3, <3>1, FitsOne, ValuesAssumption DEF Fields, StoredControl, Field, HasNamed
    <3>3. /\ StoredControls(config, stored)
          /\ ToSet(stored) \cap BrandRefused \subseteq FromStart(config, stored)
      BY <2>2, <2>3, HoldingsStored
    <3>4. StoredControls(config, after) /\ f \in ToSet(after)
      BY <3>2, <3>3, MergedStored
    <3>5. BrandRefuses(after) <=> Objections(config, f, stored) # {}
      <4>1. ToSet(after) = {f} \cup {g \in ToSet(stored) : g.name # f.name}
        BY <3>3, MergedMembers
      <4>. HIDE DEF after
      <4>. QED  BY <3>3, <4>1 DEF BrandRefuses, Objections, FromStart
    <3>6. Executed(config, stored, Action(d, SetTo(f))) = IF BrandRefuses(after) THEN stored ELSE after
      BY <3>1, SetToFields DEF Executed, Updated, Action
    <3>7. Echo(config, after) = after
      BY <2>2, <2>3, <3>4, EchoKeeps
    <3>8. IsMet(DeviceSource(d, SetTo(f)), after)
      BY <2>3, <3>4, IsMetBy
    <3>. HIDE DEF after
    <3>9. CASE Objections(config, f, stored) = {}
      BY <3>1, <3>5, <3>6, <3>7, <3>8, <3>9 DEF DoneOrRefused
    <3>10. CASE Objections(config, f, stored) # {}
      BY <3>1, <3>5, <3>6, <3>10 DEF DoneOrRefused
    <3>. QED  BY <3>9, <3>10
  <2>4. ASSUME Clear(Config), NEW f \in Fields(Config), NEW d \in {Device, Gone},
               NEW stored \in Holdings(Config), f.value.type # "object",
               Saved(Config, <<DeviceSource(d, SetTo(f))>>, <<>>),
               Saved(Config, <<CronSource>>, <<Action(d, SetTo(f))>>),
               Sendable(Config, Stripped(Merged(<<f>>, stored)))
        PROVE  DoneOrRefused(Config, f, d, stored)
    BY <2>1, <2>3, <2>4
  <2>. QED  BY <2>4, Zenon DEF ActionMeets, DoneOrRefused, SetTo
<1>. QED  BY <1>1, PayloadsAreTyped, PTL

(* ------------------------ Expressions of a trigger ------------------------ *)

\* Induction over sequences, from the left.
LEMMA Appending ==
    ASSUME NEW U, NEW T, <<>> \in T, \A s \in Seq(U), t \in U : s \in T => Append(s, t) \in T
    PROVE  \A s \in Seq(U) : s \in T
<1>. DEFINE L == {n \in Nat : \A s \in Seq(U) : Len(s) = n => s \in T}
<1>1. 0 \in L
  <2>1. ASSUME NEW s \in Seq(U), Len(s) = 0 PROVE s = <<>>  BY <2>1
  <2>. QED  BY <2>1
<1>2. ASSUME NEW n \in Nat, n \in L PROVE n + 1 \in L
  <2>1. SUFFICES ASSUME NEW s \in Seq(U), Len(s) = n + 1 PROVE s \in T  OBVIOUS
  <2>. DEFINE front == SubSeq(s, 1, n)
  <2>2. front \in Seq(U) /\ Len(front) = n /\ s[n + 1] \in U  BY <2>1
  <2>3. s = Append(front, s[n + 1])  BY <2>1
  <2>4. front \in T  BY <1>2, <2>2
  <2>. HIDE DEF front
  <2>. QED  BY <2>2, <2>3, <2>4
<1>3. \A n \in Nat : n \in L
  <2>. HIDE DEF L
  <2>. QED  BY <1>1, <1>2, Stepwise
<1>. QED  BY <1>3

(* ------------------------------ The two loops ----------------------------- *)

\* What the parser is after each of the tokens.
ParsedSteps(p, tokens, f) ==
    f = [k \in 0..Len(tokens) |-> IF k = 0 THEN p ELSE ParseToken(f[k-1], tokens[k])]

\* That function exists, so the one that Parsed chooses is one.
LEMMA ParsedIs ==
    ASSUME NEW U, NEW tokens \in Seq(U), NEW p
    PROVE  \E f : ParsedSteps(p, tokens, f) /\ Parsed(p, tokens) = f[Len(tokens)]
<1>. DEFINE n == Len(tokens)
            Iter(m, f) == f = [k \in 0..m |-> IF k = 0 THEN p ELSE ParseToken(f[k-1], tokens[k])]
            T == {m \in Nat : m <= n => \E f : Iter(m, f)}
            after == CHOOSE f : Iter(n, f)
<1>1. 0 \in T
  <2>. DEFINE f == [k \in 0..0 |-> p]
  <2>1. Iter(0, f)  OBVIOUS
  <2>. HIDE DEF Iter
  <2>. QED  BY <2>1
<1>2. ASSUME NEW m \in Nat, m \in T PROVE m + 1 \in T
  <2>1. SUFFICES ASSUME m + 1 <= n PROVE \E f : Iter(m + 1, f)
    <3>. HIDE DEF Iter
    <3>. QED  OBVIOUS
  <2>2. PICK f : Iter(m, f)
    <3>. HIDE DEF Iter
    <3>. QED  BY <1>2, <2>1
  <2>. DEFINE h == [k \in 0..m + 1 |-> IF k = m + 1 THEN ParseToken(f[m], tokens[m + 1]) ELSE f[k]]
  <2>3. ASSUME NEW k \in 0..m + 1
        PROVE  h[k] = IF k = 0 THEN p ELSE ParseToken(h[k-1], tokens[k])
    <3>1. CASE k = m + 1
      BY <3>1
    <3>2. CASE k # m + 1
      <4>1. k \in 0..m /\ (k # 0 => k - 1 \in 0..m /\ k - 1 # m + 1)  BY <3>2
      <4>2. f[k] = IF k = 0 THEN p ELSE ParseToken(f[k-1], tokens[k])  BY <2>2, <4>1
      <4>. QED  BY <4>1, <4>2
    <3>. QED  BY <3>1, <3>2
  <2>4. Iter(m + 1, h)  BY <2>3
  <2>. HIDE DEF h, Iter
  <2>. QED  BY <2>4
<1>3. \E f : Iter(n, f)
  <2>. HIDE DEF Iter
  <2>1. \A m \in Nat : m \in T
    <3>. HIDE DEF T
    <3>. QED  BY <1>1, <1>2, Stepwise
  <2>. QED  BY <2>1
<1>4. Iter(n, after)
  <2>. HIDE DEF Iter
  <2>. QED  BY <1>3
<1>5. Parsed(p, tokens) = after[n]
  BY DEF Parsed
<1>. HIDE DEF after
<1>. QED  BY <1>4, <1>5 DEF ParsedSteps

LEMMA ParsedNone == ASSUME NEW p PROVE Parsed(p, <<>>) = p
<1>1. <<>> \in Seq({}) /\ Len(<<>>) = 0  OBVIOUS
<1>2. PICK f : ParsedSteps(p, <<>>, f) /\ Parsed(p, <<>>) = f[0]
  BY <1>1, ParsedIs
<1>. QED  BY <1>1, <1>2 DEF ParsedSteps

LEMMA ParsedAppend ==
    ASSUME NEW U, NEW s \in Seq(U), NEW t \in U, NEW p
    PROVE  Parsed(p, Append(s, t)) = ParseToken(Parsed(p, s), t)
<1>. DEFINE n == Len(s)
            r == Append(s, t)
<1>1. n \in Nat /\ r \in Seq(U) /\ Len(r) = n + 1 /\ r[n + 1] = t /\ \A k \in 1..n : r[k] = s[k]
  OBVIOUS
<1>2. PICK f : ParsedSteps(p, s, f) /\ Parsed(p, s) = f[n]  BY ParsedIs
<1>3. PICK g : ParsedSteps(p, r, g) /\ Parsed(p, r) = g[n + 1]
  <2>. HIDE DEF r
  <2>. QED  BY <1>1, ParsedIs
<1>. HIDE DEF r
<1>. DEFINE T == {k \in Nat : k <= n => f[k] = g[k]}
<1>4. \A k \in 0..n : f[k] = IF k = 0 THEN p ELSE ParseToken(f[k-1], s[k])
  BY <1>2 DEF ParsedSteps
<1>5. \A k \in 0..n + 1 : g[k] = IF k = 0 THEN p ELSE ParseToken(g[k-1], r[k])
  BY <1>1, <1>3 DEF ParsedSteps
<1>6. 0 \in T  BY <1>1, <1>4, <1>5
<1>7. ASSUME NEW k \in Nat, k \in T PROVE k + 1 \in T
  <2>1. SUFFICES ASSUME k + 1 <= n PROVE f[k + 1] = g[k + 1]  OBVIOUS
  <2>2. f[k] = g[k] /\ k + 1 \in 0..n /\ k + 1 \in 0..n + 1 /\ r[k + 1] = s[k + 1]
    BY <1>1, <1>7, <2>1
  <2>. QED  BY <1>4, <1>5, <2>2
<1>8. f[n] = g[n]
  <2>1. \A k \in Nat : k \in T
    <3>. HIDE DEF T
    <3>. QED  BY <1>6, <1>7, Stepwise
  <2>. QED  BY <1>1, <2>1
<1>9. g[n + 1] = ParseToken(g[n], r[n + 1])  BY <1>1, <1>5
<1>. QED  BY <1>1, <1>2, <1>3, <1>8, <1>9 DEF r

\* The same of the evaluator.
EvaluatedSteps(e, items, conditions, f) ==
    f = [k \in 0..Len(items) |->
            IF k = 0 THEN e ELSE EvaluateItem(f[k-1], items[k], conditions)]

LEMMA EvaluatedIs ==
    ASSUME NEW U, NEW items \in Seq(U), NEW e, NEW c
    PROVE  \E f : EvaluatedSteps(e, items, c, f) /\ Evaluated(e, items, c) = f[Len(items)]
<1>. DEFINE n == Len(items)
            Iter(m, f) == f = [k \in 0..m |-> IF k = 0 THEN e ELSE EvaluateItem(f[k-1], items[k], c)]
            T == {m \in Nat : m <= n => \E f : Iter(m, f)}
            after == CHOOSE f : Iter(n, f)
<1>1. 0 \in T
  <2>. DEFINE f == [k \in 0..0 |-> e]
  <2>1. Iter(0, f)  OBVIOUS
  <2>. HIDE DEF Iter
  <2>. QED  BY <2>1
<1>2. ASSUME NEW m \in Nat, m \in T PROVE m + 1 \in T
  <2>1. SUFFICES ASSUME m + 1 <= n PROVE \E f : Iter(m + 1, f)
    <3>. HIDE DEF Iter
    <3>. QED  OBVIOUS
  <2>2. PICK f : Iter(m, f)
    <3>. HIDE DEF Iter
    <3>. QED  BY <1>2, <2>1
  <2>. DEFINE h == [k \in 0..m + 1 |-> IF k = m + 1 THEN EvaluateItem(f[m], items[m + 1], c) ELSE f[k]]
  <2>3. ASSUME NEW k \in 0..m + 1
        PROVE  h[k] = IF k = 0 THEN e ELSE EvaluateItem(h[k-1], items[k], c)
    <3>1. CASE k = m + 1
      BY <3>1
    <3>2. CASE k # m + 1
      <4>1. k \in 0..m /\ (k # 0 => k - 1 \in 0..m /\ k - 1 # m + 1)  BY <3>2
      <4>2. f[k] = IF k = 0 THEN e ELSE EvaluateItem(f[k-1], items[k], c)  BY <2>2, <4>1
      <4>. QED  BY <4>1, <4>2
    <3>. QED  BY <3>1, <3>2
  <2>4. Iter(m + 1, h)  BY <2>3
  <2>. HIDE DEF h, Iter
  <2>. QED  BY <2>4
<1>3. \E f : Iter(n, f)
  <2>. HIDE DEF Iter
  <2>1. \A m \in Nat : m \in T
    <3>. HIDE DEF T
    <3>. QED  BY <1>1, <1>2, Stepwise
  <2>. QED  BY <2>1
<1>4. Iter(n, after)
  <2>. HIDE DEF Iter
  <2>. QED  BY <1>3
<1>5. Evaluated(e, items, c) = after[n]
  BY DEF Evaluated
<1>. HIDE DEF after
<1>. QED  BY <1>4, <1>5 DEF EvaluatedSteps

LEMMA EvaluatedNone == ASSUME NEW e, NEW c PROVE Evaluated(e, <<>>, c) = e
<1>1. <<>> \in Seq({}) /\ Len(<<>>) = 0  OBVIOUS
<1>2. PICK f : EvaluatedSteps(e, <<>>, c, f) /\ Evaluated(e, <<>>, c) = f[0]
  BY <1>1, EvaluatedIs
<1>. QED  BY <1>1, <1>2 DEF EvaluatedSteps

LEMMA EvaluatedAppend ==
    ASSUME NEW U, NEW s \in Seq(U), NEW t \in U, NEW e, NEW c
    PROVE  Evaluated(e, Append(s, t), c) = EvaluateItem(Evaluated(e, s, c), t, c)
<1>. DEFINE n == Len(s)
            r == Append(s, t)
<1>1. n \in Nat /\ r \in Seq(U) /\ Len(r) = n + 1 /\ r[n + 1] = t /\ \A k \in 1..n : r[k] = s[k]
  OBVIOUS
<1>2. PICK f : EvaluatedSteps(e, s, c, f) /\ Evaluated(e, s, c) = f[n]  BY EvaluatedIs
<1>3. PICK g : EvaluatedSteps(e, r, c, g) /\ Evaluated(e, r, c) = g[n + 1]
  <2>. HIDE DEF r
  <2>. QED  BY <1>1, EvaluatedIs
<1>. HIDE DEF r
<1>. DEFINE T == {k \in Nat : k <= n => f[k] = g[k]}
<1>4. \A k \in 0..n : f[k] = IF k = 0 THEN e ELSE EvaluateItem(f[k-1], s[k], c)
  BY <1>2 DEF EvaluatedSteps
<1>5. \A k \in 0..n + 1 : g[k] = IF k = 0 THEN e ELSE EvaluateItem(g[k-1], r[k], c)
  BY <1>1, <1>3 DEF EvaluatedSteps
<1>6. 0 \in T  BY <1>1, <1>4, <1>5
<1>7. ASSUME NEW k \in Nat, k \in T PROVE k + 1 \in T
  <2>1. SUFFICES ASSUME k + 1 <= n PROVE f[k + 1] = g[k + 1]  OBVIOUS
  <2>2. f[k] = g[k] /\ k + 1 \in 0..n /\ k + 1 \in 0..n + 1 /\ r[k + 1] = s[k + 1]
    BY <1>1, <1>7, <2>1
  <2>. QED  BY <1>4, <1>5, <2>2
<1>8. f[n] = g[n]
  <2>1. \A k \in Nat : k \in T
    <3>. HIDE DEF T
    <3>. QED  BY <1>6, <1>7, Stepwise
  <2>. QED  BY <1>1, <2>1
<1>9. g[n + 1] = EvaluateItem(g[n], r[n + 1], c)  BY <1>1, <1>5
<1>. QED  BY <1>1, <1>2, <1>3, <1>8, <1>9 DEF r

\* Sequences are evaluated one after the other.
LEMMA EvaluatedOne ==
    ASSUME NEW t, NEW e, NEW c
    PROVE  Evaluated(e, <<t>>, c) = EvaluateItem(e, t, c)
<1>. DEFINE s == <<>>
<1>1. s \in Seq({t}) /\ t \in {t}  OBVIOUS
<1>2. Append(s, t) = <<t>>  OBVIOUS
<1>3. Evaluated(e, s, c) = e  BY EvaluatedNone
<1>. HIDE DEF s
<1>4. Evaluated(e, Append(s, t), c) = EvaluateItem(Evaluated(e, s, c), t, c)
  BY <1>1, EvaluatedAppend
<1>. QED  BY <1>2, <1>3, <1>4

LEMMA EvaluatedConcat ==
    ASSUME NEW U, NEW s \in Seq(U), NEW t \in Seq(U), NEW e, NEW c
    PROVE  Evaluated(e, s \o t, c) = Evaluated(Evaluated(e, s, c), t, c)
<1>. DEFINE T == {r \in Seq(U) : Evaluated(e, s \o r, c) = Evaluated(Evaluated(e, s, c), r, c)}
<1>1. <<>> \in T
  <2>1. s \o <<>> = s  OBVIOUS
  <2>. QED  BY <2>1, EvaluatedNone
<1>2. ASSUME NEW r \in Seq(U), NEW x \in U, r \in T PROVE Append(r, x) \in T
  <2>1. s \o Append(r, x) = Append(s \o r, x) /\ s \o r \in Seq(U)  OBVIOUS
  <2>2. Evaluated(e, s \o Append(r, x), c) = EvaluateItem(Evaluated(e, s \o r, c), x, c)
    <3>1. PICK q : q = s \o r  OBVIOUS
    <3>2. q \in Seq(U) /\ s \o Append(r, x) = Append(q, x)  BY <2>1, <3>1
    <3>3. Evaluated(e, Append(q, x), c) = EvaluateItem(Evaluated(e, q, c), x, c)
      BY <3>2, EvaluatedAppend
    <3>. QED  BY <3>1, <3>2, <3>3
  <2>3. Evaluated(Evaluated(e, s, c), Append(r, x), c)
          = EvaluateItem(Evaluated(Evaluated(e, s, c), r, c), x, c)
    BY EvaluatedAppend
  <2>. QED  BY <1>2, <2>2, <2>3
<1>3. t \in T
  <2>. HIDE DEF T
  <2>. QED  BY <1>1, <1>2, Appending
<1>. QED  BY <1>3

LEMMA EvaluatedThen ==
    ASSUME NEW U, NEW s \in Seq(U), NEW t \in U, NEW e, NEW c
    PROVE  Evaluated(e, s \o <<t>>, c) = EvaluateItem(Evaluated(e, s, c), t, c)
<1>1. s \o <<t>> = Append(s, t)  OBVIOUS
<1>2. Evaluated(e, Append(s, t), c) = EvaluateItem(Evaluated(e, s, c), t, c)  BY EvaluatedAppend
<1>. QED  BY <1>1, <1>2

LEMMA EvaluatedFrom ==
    ASSUME NEW U, NEW s \in Seq(U), NEW t \in U, NEW e, NEW c
    PROVE  Evaluated(e, <<t>> \o s, c) = Evaluated(EvaluateItem(e, t, c), s, c)
<1>1. PICK one : one = <<t>>  OBVIOUS
<1>2. one \in Seq(U)  BY <1>1
<1>3. Evaluated(e, one \o s, c) = Evaluated(Evaluated(e, one, c), s, c)  BY <1>2, EvaluatedConcat
<1>. QED  BY <1>1, <1>3, EvaluatedOne

(* ------------------------------- Monotonicity ----------------------------- *)

Loops == [result : Verdicts, operator : {"none", "AND", "OR"}]

\* A loop is behind another if its verdict is the other's, or less.
Below(a, b) == a = b \/ b = "met" \/ (a = "unmet" /\ b = "undefined")
Behind(l, m) == Below(l.result, m.result) /\ l.operator = m.operator
Unmet(c, l) == (\A i \in DOMAIN c : ~c[i]) => l.result # "met"

AtMost(c, d, n) == c \in [1..n -> BOOLEAN] /\ d \in [1..n -> BOOLEAN] /\ \A i \in 1..n : c[i] => d[i]

\* Under c, s takes l to l2; under d, which has more conditions met, m to m2.
Leads(s, c, d, l, m, l2, m2) ==
    /\ Behind(l2, m2) /\ Unmet(c, l2)
    /\ \A o \in Seq(Loops) : Evaluated(Evaluator(l, o), s, c) = Evaluator(l2, o)
    /\ \A o \in Seq(Loops) : Evaluated(Evaluator(m, o), s, d) = Evaluator(m2, o)
Steady(s, c, d) ==
    /\ s \in Seq(Tokens)
    /\ \A l, m \in Loops : Behind(l, m) /\ Unmet(c, l) => \E l2, m2 \in Loops : Leads(s, c, d, l, m, l2, m2)

LEMMA KindsDiffer ==
    /\ Open \notin Operands /\ Close \notin Operands /\ Open \notin Operators /\ Close \notin Operators
    /\ Open # Close
    /\ \A t \in Operators : t \notin Operands /\ t.kind \in {"AND", "OR"}
<1>1. Open.kind = "(" /\ Close.kind = ")"  BY DEF Open, Close, Token
<1>2. \A t \in Operands : t.kind = "operand"  BY DEF Operands, Token
<1>3. \A t \in Operators : t.kind \in {"AND", "OR"}  BY DEF Operators, Token
<1>. QED  BY <1>1, <1>2, <1>3

LEMMA JudgingKeeps ==
    ASSUME NEW c, NEW l \in Loops, NEW m \in Loops, Behind(l, m), Unmet(c, l),
           NEW a \in Verdicts, NEW b \in Verdicts, Below(a, b), (\A i \in DOMAIN c : ~c[i]) => a # "met"
    PROVE  /\ Judging(l, a) \in Loops /\ Judging(m, b) \in Loops
           /\ Behind(Judging(l, a), Judging(m, b)) /\ Unmet(c, Judging(l, a))
<1>1. PICK r \in Verdicts, x \in {"none", "AND", "OR"} : l = [result |-> r, operator |-> x]
  BY DEF Loops
<1>2. PICK q \in Verdicts : m = [result |-> q, operator |-> x]
  BY <1>1 DEF Loops, Behind
<1>3. Below(r, q) /\ ((\A i \in DOMAIN c : ~c[i]) => r # "met")
  BY <1>1, <1>2 DEF Behind, Unmet
<1>. DEFINE r2 == IF r # "undefined" /\ x # "none" THEN Combine(x, r, a) ELSE a
            q2 == IF q # "undefined" /\ x # "none" THEN Combine(x, q, b) ELSE b
<1>4. Judging(l, a) = [result |-> r2, operator |-> x] /\ Judging(m, b) = [result |-> q2, operator |-> x]
  BY <1>1, <1>2 DEF Judging, Loop
<1>5. r2 \in Verdicts /\ q2 \in Verdicts /\ Below(r2, q2)
  BY <1>3 DEF Combine, Verdicts, Below
<1>6. (\A i \in DOMAIN c : ~c[i]) => r2 # "met"
  BY <1>3 DEF Combine, Verdicts
<1>. HIDE DEF r2, q2
<1>. QED  BY <1>4, <1>5, <1>6 DEF Loops, Behind, Unmet

LEMMA ConditionsAre ==
    ASSUME NEW n \in Nat, NEW c, NEW d, AtMost(c, d, n), NEW k
    PROVE  /\ ConditionOf(k, c) \in Verdicts /\ ConditionOf(k, d) \in Verdicts
           /\ Below(ConditionOf(k, c), ConditionOf(k, d))
           /\ (\A i \in DOMAIN c : ~c[i]) => ConditionOf(k, c) # "met"
  BY DEF AtMost, ConditionOf, Verdict, Verdicts, Below

LEMMA SteadyNone ==
    ASSUME NEW c, NEW d
    PROVE  Steady(<<>>, c, d)
  BY EvaluatedNone DEF Steady, Leads

LEMMA SteadyConcat ==
    ASSUME NEW c, NEW d, NEW s, NEW t, Steady(s, c, d), Steady(t, c, d)
    PROVE  Steady(s \o t, c, d)
<1>1. s \in Seq(Tokens) /\ t \in Seq(Tokens) /\ s \o t \in Seq(Tokens)  BY DEF Steady
<1>2. ASSUME NEW l \in Loops, NEW m \in Loops, Behind(l, m), Unmet(c, l)
      PROVE  \E l2, m2 \in Loops : Leads(s \o t, c, d, l, m, l2, m2)
  <2>1. PICK l1, m1 \in Loops : Leads(s, c, d, l, m, l1, m1)
    BY <1>2 DEF Steady
  <2>2. PICK l2, m2 \in Loops : Leads(t, c, d, l1, m1, l2, m2)
    BY <2>1 DEF Steady, Leads
  <2>3. ASSUME NEW o \in Seq(Loops) PROVE Evaluated(Evaluator(l, o), s \o t, c) = Evaluator(l2, o)
    BY <1>1, <2>1, <2>2, EvaluatedConcat DEF Leads
  <2>4. ASSUME NEW o \in Seq(Loops) PROVE Evaluated(Evaluator(m, o), s \o t, d) = Evaluator(m2, o)
    BY <1>1, <2>1, <2>2, EvaluatedConcat DEF Leads
  <2>5. Leads(s \o t, c, d, l, m, l2, m2)
    BY <2>2, <2>3, <2>4 DEF Leads
  <2>. QED  BY <2>5
<1>. QED  BY <1>1, <1>2 DEF Steady

LEMMA SteadyOne ==
    ASSUME NEW n \in Nat, NEW c, NEW d, AtMost(c, d, n), NEW t \in Operands \cup Operators
    PROVE  Steady(<<t>>, c, d)
<1>1. <<t>> \in Seq(Tokens)  BY DEF Tokens
<1>2. t # Open /\ t # Close  BY KindsDiffer
<1>3. ASSUME NEW l \in Loops, NEW m \in Loops, Behind(l, m), Unmet(c, l)
      PROVE  \E l2, m2 \in Loops : Leads(<<t>>, c, d, l, m, l2, m2)
  <2>1. CASE t \in Operators
    <3>. DEFINE l2 == Loop(l.result, t.kind)
                m2 == Loop(m.result, t.kind)
    <3>1. l2 \in Loops /\ m2 \in Loops /\ l2.result = l.result /\ m2.result = m.result
          /\ l2.operator = m2.operator
      BY <2>1, KindsDiffer DEF Loops, Loop
    <3>2. \A o : /\ EvaluateItem(Evaluator(l, o), t, c) = Evaluator(l2, o)
                 /\ EvaluateItem(Evaluator(m, o), t, d) = Evaluator(m2, o)
      BY <1>2, <2>1 DEF EvaluateItem, Evaluator
    <3>. HIDE DEF l2, m2
    <3>3. Leads(<<t>>, c, d, l, m, l2, m2)
      BY <1>3, <3>1, <3>2, EvaluatedOne DEF Leads, Behind, Unmet
    <3>. QED  BY <3>1, <3>3
  <2>2. CASE t \notin Operators
    <3>. DEFINE l2 == Judging(l, ConditionOf(t.n, c))
                m2 == Judging(m, ConditionOf(t.n, d))
    <3>1. l2 \in Loops /\ m2 \in Loops /\ Behind(l2, m2) /\ Unmet(c, l2)
      BY <1>3, ConditionsAre, JudgingKeeps
    <3>2. \A o : /\ EvaluateItem(Evaluator(l, o), t, c) = Evaluator(l2, o)
                 /\ EvaluateItem(Evaluator(m, o), t, d) = Evaluator(m2, o)
      BY <1>2, <2>2 DEF EvaluateItem, Evaluator
    <3>. HIDE DEF l2, m2
    <3>3. Leads(<<t>>, c, d, l, m, l2, m2)
      BY <3>1, <3>2, EvaluatedOne DEF Leads
    <3>. QED  BY <3>1, <3>3
  <2>. QED  BY <2>1, <2>2
<1>. QED  BY <1>1, <1>3 DEF Steady

LEMMA LoopIs == NewLoop \in Loops
  BY DEF NewLoop, Loop, Loops, Verdicts

\* A group is a loop of its own, whose result is judged by the one outside.
LEMMA EvaluatedGroup ==
    ASSUME NEW c, NEW s \in Seq(Tokens), NEW e
    PROVE  /\ Group(s) \in Seq(Tokens)
           /\ Evaluated(e, Group(s), c)
                = EvaluateItem(Evaluated(EvaluateItem(e, Open, c), s, c), Close, c)
<1>1. PICK a \in Tokens : a = Open  BY DEF Tokens
<1>2. PICK z \in Tokens : z = Close  BY DEF Tokens
<1>. DEFINE x == <<a>> \o s
<1>3. x \in Seq(Tokens) /\ x \o <<z>> \in Seq(Tokens) /\ Group(s) = x \o <<z>>
  BY <1>1, <1>2 DEF Group
<1>4. Evaluated(e, x, c) = Evaluated(EvaluateItem(e, a, c), s, c)
  BY EvaluatedFrom
<1>. HIDE DEF x
<1>5. Evaluated(e, x \o <<z>>, c) = EvaluateItem(Evaluated(e, x, c), z, c)
  BY <1>3, EvaluatedThen
<1>. QED  BY <1>1, <1>2, <1>3, <1>4, <1>5

LEMMA GroupIs ==
    ASSUME NEW c, NEW s \in Seq(Tokens), NEW l \in Loops, NEW r \in Loops,
           \A o \in Seq(Loops) : Evaluated(Evaluator(NewLoop, o), s, c) = Evaluator(r, o)
    PROVE  /\ Group(s) \in Seq(Tokens)
           /\ \A o \in Seq(Loops) :
                  Evaluated(Evaluator(l, o), Group(s), c) = Evaluator(Judging(l, r.result), o)
<1>1. ASSUME NEW o \in Seq(Loops)
      PROVE  Evaluated(Evaluator(l, o), Group(s), c) = Evaluator(Judging(l, r.result), o)
  <2>. DEFINE q == Append(o, l)
  <2>1. q \in Seq(Loops) /\ Last(q) = l /\ Front(q) = o  BY DEF Last, Front
  <2>2. EvaluateItem(Evaluator(l, o), Open, c) = Evaluator(NewLoop, q)
    BY KindsDiffer DEF EvaluateItem, Evaluator
  <2>. HIDE DEF q
  <2>3. EvaluateItem(Evaluator(r, q), Close, c) = Evaluator(Judging(l, r.result), o)
    BY <2>1, KindsDiffer DEF EvaluateItem, Evaluator
  <2>4. Evaluated(Evaluator(NewLoop, q), s, c) = Evaluator(r, q)  BY <2>1
  <2>. QED  BY <2>2, <2>3, <2>4, EvaluatedGroup
<1>. QED  BY <1>1, EvaluatedGroup

LEMMA SteadyGroup ==
    ASSUME NEW n \in Nat, NEW c, NEW d, AtMost(c, d, n), NEW s, Steady(s, c, d)
    PROVE  Steady(Group(s), c, d)
<1>1. s \in Seq(Tokens)  BY DEF Steady
<1>2. ASSUME NEW l \in Loops, NEW m \in Loops, Behind(l, m), Unmet(c, l)
      PROVE  \E l2, m2 \in Loops : Leads(Group(s), c, d, l, m, l2, m2)
  <2>1. Behind(NewLoop, NewLoop) /\ Unmet(c, NewLoop)
    BY DEF Behind, Below, Unmet, NewLoop, Loop
  <2>2. PICK r, q \in Loops : Leads(s, c, d, NewLoop, NewLoop, r, q)
    BY <2>1, LoopIs DEF Steady
  <2>. DEFINE l2 == Judging(l, r.result)
              m2 == Judging(m, q.result)
  <2>3. l2 \in Loops /\ m2 \in Loops /\ Behind(l2, m2) /\ Unmet(c, l2)
    <3>1. r.result \in Verdicts /\ q.result \in Verdicts  BY DEF Loops
    <3>2. Below(r.result, q.result) /\ ((\A i \in DOMAIN c : ~c[i]) => r.result # "met")
      BY <2>2 DEF Leads, Behind, Unmet
    <3>. QED  BY <1>2, <3>1, <3>2, JudgingKeeps
  <2>4. \A o \in Seq(Loops) : Evaluated(Evaluator(l, o), Group(s), c) = Evaluator(l2, o)
    BY <1>1, <2>2, GroupIs DEF Leads
  <2>5. \A o \in Seq(Loops) : Evaluated(Evaluator(m, o), Group(s), d) = Evaluator(m2, o)
    BY <1>1, <2>2, GroupIs DEF Leads
  <2>. HIDE DEF l2, m2
  <2>6. Leads(Group(s), c, d, l, m, l2, m2)
    BY <2>3, <2>4, <2>5 DEF Leads
  <2>. QED  BY <2>3, <2>6
<1>3. Group(s) \in Seq(Tokens)
  BY <1>1 DEF Group, Tokens
<1>. QED  BY <1>2, <1>3 DEF Steady

(* ---------------------------------- Parsing ------------------------------- *)

\* All that a parser holds is steady, groups and what waits in its callers too.
SteadyCalls(c, d) ==
    {call \in [parsed : Seq(Tokens), waiting : Seq(Tokens), groups : Nat] :
        Steady(call.parsed, c, d) /\ Steady(call.waiting, c, d)}
SteadyParsers(c, d) ==
    [call : SteadyCalls(c, d), callers : Seq(SteadyCalls(c, d)), ended : BOOLEAN]

LEMMA SteadyFlushed ==
    ASSUME NEW n \in Nat, NEW c, NEW d, AtMost(c, d, n), NEW call \in SteadyCalls(c, d)
    PROVE  Steady(Flushed(call), c, d)
<1>1. Steady(call.parsed, c, d) /\ Steady(call.waiting, c, d)
  BY DEF SteadyCalls
<1>. DEFINE last == IF call.groups > 1 THEN Group(call.waiting) ELSE call.waiting
<1>2. Steady(last, c, d)
  <2>1. Steady(Group(call.waiting), c, d)  BY <1>1, SteadyGroup
  <2>2. last = Group(call.waiting) \/ last = call.waiting  OBVIOUS
  <2>. HIDE DEF last
  <2>. QED  BY <1>1, <2>1, <2>2
<1>3. Flushed(call) = call.parsed \o last  BY DEF Flushed
<1>. HIDE DEF last
<1>4. Steady(call.parsed \o last, c, d)
  <2>1. PICK a : a = call.parsed  OBVIOUS
  <2>2. Steady(a, c, d)  BY <1>1, <2>1
  <2>3. Steady(a \o last, c, d)  BY <1>2, <2>2, SteadyConcat
  <2>. QED  BY <2>1, <2>3
<1>. QED  BY <1>3, <1>4

LEMMA CallIs ==
    ASSUME NEW c, NEW d, NEW p, NEW w, NEW g \in Nat, Steady(p, c, d), Steady(w, c, d)
    PROVE  Call(p, w, g) \in SteadyCalls(c, d)
  BY DEF SteadyCalls, Call, Steady

LEMMA SteadyAppend ==
    ASSUME NEW n \in Nat, NEW c, NEW d, AtMost(c, d, n), NEW s, Steady(s, c, d),
           NEW t \in Operands \cup Operators
    PROVE  Steady(Append(s, t), c, d)
<1>1. s \in Seq(Tokens) /\ t \in Tokens  BY DEF Steady, Tokens
<1>2. Append(s, t) = s \o <<t>>  BY <1>1
<1>3. PICK one : one = <<t>>  OBVIOUS
<1>4. Steady(one, c, d)  BY <1>3, SteadyOne
<1>5. Steady(s \o one, c, d)  BY <1>4, SteadyConcat
<1>. QED  BY <1>2, <1>3, <1>5

LEMMA ParsingIsSteady ==
    ASSUME NEW n \in Nat, NEW c, NEW d, AtMost(c, d, n), NEW p \in SteadyParsers(c, d),
           NEW t \in Tokens
    PROVE  ParseToken(p, t) \in SteadyParsers(c, d)
<1>. DEFINE C == SteadyCalls(c, d)
<1>1. p.call \in C /\ p.callers \in Seq(C) /\ p.ended \in BOOLEAN
  BY DEF SteadyParsers
<1>2. \A call \in C, callers \in Seq(C), ended \in BOOLEAN :
        Parser(call, callers, ended) \in SteadyParsers(c, d)
  BY DEF SteadyParsers, Parser
<1>3. \A call \in C : Steady(call.parsed, c, d) /\ Steady(call.waiting, c, d) /\ call.groups \in Nat
  BY DEF SteadyCalls
<1>4. Steady(Flushed(p.call), c, d)  BY <1>1, SteadyFlushed
<1>5. Steady(<<>>, c, d)  BY SteadyNone
<1>6. CASE p.ended
  BY <1>6 DEF ParseToken
<1>7. CASE ~p.ended /\ t = Open
  <2>1. ParseToken(p, t) = Calling(p)  BY <1>7, KindsDiffer DEF ParseToken
  <2>2. NewCall \in C  BY <1>5, CallIs DEF NewCall
  <2>3. Append(p.callers, p.call) \in Seq(C)  BY <1>1
  <2>. QED  BY <1>1, <1>2, <2>1, <2>2, <2>3 DEF Calling
<1>8. CASE ~p.ended /\ t = Close
  <2>1. ParseToken(p, t) = Returning(p)  BY <1>8, KindsDiffer DEF ParseToken
  <2>2. CASE p.callers = <<>>
    <3>1. Returning(p) = Parser(p.call, p.callers, TRUE)  BY <2>2 DEF Returning
    <3>. QED  BY <1>1, <1>2, <2>1, <3>1
  <2>3. CASE p.callers # <<>>
    <3>1. Last(p.callers) \in C /\ Front(p.callers) \in Seq(C)  BY <1>1, <2>3 DEF Last, Front
    <3>2. PICK caller \in C : caller = Last(p.callers)  BY <3>1
    <3>. DEFINE x == caller.waiting \o Group(Flushed(p.call))
                g == caller.groups + 1
    <3>3. Steady(x, c, d)
      <4>1. PICK w : w = caller.waiting  OBVIOUS
      <4>2. PICK v : v = Group(Flushed(p.call))  OBVIOUS
      <4>3. Steady(w, c, d) /\ Steady(v, c, d)  BY <1>3, <1>4, <4>1, <4>2, SteadyGroup
      <4>4. Steady(w \o v, c, d)  BY <4>3, SteadyConcat
      <4>. QED  BY <4>1, <4>2, <4>4
    <3>4. g \in Nat /\ Steady(caller.parsed, c, d)  BY <1>3
    <3>5. Returning(p) = Parser(Call(caller.parsed, x, g), Front(p.callers), p.ended)
      BY <2>3, <3>2 DEF Returning
    <3>. HIDE DEF x, g
    <3>6. Call(caller.parsed, x, g) \in C
      <4>1. PICK a : a = caller.parsed  OBVIOUS
      <4>. QED  BY <3>3, <3>4, <4>1, CallIs
    <3>. QED  BY <1>1, <1>2, <2>1, <3>1, <3>5, <3>6
  <2>. QED  BY <2>2, <2>3
<1>9. CASE ~p.ended /\ t \in Operators
  <2>. DEFINE x == Append(Flushed(p.call), t)
  <2>1. ParseToken(p, t) = Parser(Call(x, <<>>, 0), p.callers, p.ended)
    BY <1>9, KindsDiffer DEF ParseToken, ParsingOperator
  <2>2. Steady(x, c, d)
    <3>1. PICK f : f = Flushed(p.call)  OBVIOUS
    <3>2. Steady(Append(f, t), c, d)  BY <1>4, <1>9, <3>1, SteadyAppend
    <3>. QED  BY <3>1, <3>2
  <2>. HIDE DEF x
  <2>3. Call(x, <<>>, 0) \in C  BY <1>5, <2>2, CallIs
  <2>. QED  BY <1>1, <1>2, <2>1, <2>3
<1>10. CASE ~p.ended /\ t \in Operands
  <2>. DEFINE x == Append(p.call.parsed, t)
              w == p.call.waiting
              g == p.call.groups
  <2>1. ParseToken(p, t) = Parser(Call(x, w, g), p.callers, p.ended)
    BY <1>10, KindsDiffer DEF ParseToken, ParsingOperand
  <2>2. Steady(x, c, d)
    <3>1. PICK f : f = p.call.parsed  OBVIOUS
    <3>2. Steady(Append(f, t), c, d)  BY <1>1, <1>3, <1>10, <3>1, SteadyAppend
    <3>. QED  BY <3>1, <3>2
  <2>3. Steady(w, c, d) /\ g \in Nat  BY <1>1, <1>3
  <2>. HIDE DEF x, w, g
  <2>4. Call(x, w, g) \in C  BY <2>2, <2>3, CallIs
  <2>. QED  BY <1>1, <1>2, <2>1, <2>4
<1>. QED  BY <1>1, <1>6, <1>7, <1>8, <1>9, <1>10 DEF Tokens

LEMMA ParsedIsSteady ==
    ASSUME NEW n \in Nat, NEW c, NEW d, AtMost(c, d, n), NEW p \in SteadyParsers(c, d),
           NEW s \in Seq(Tokens)
    PROVE  Parsed(p, s) \in SteadyParsers(c, d)
<1>. DEFINE T == {r \in Seq(Tokens) : Parsed(p, r) \in SteadyParsers(c, d)}
<1>1. <<>> \in T  BY ParsedNone
<1>2. ASSUME NEW r \in Seq(Tokens), NEW t \in Tokens, r \in T PROVE Append(r, t) \in T
  <2>1. Parsed(p, Append(r, t)) = ParseToken(Parsed(p, r), t)  BY ParsedAppend
  <2>. QED  BY <1>2, <2>1, ParsingIsSteady
<1>. HIDE DEF T
<1>3. s \in T  BY <1>1, <1>2, Appending
<1>. QED  BY <1>3 DEF T

LEMMA ParseIsSteady ==
    ASSUME NEW n \in Nat, NEW c, NEW d, AtMost(c, d, n), NEW s \in Seq(Tokens)
    PROVE  Steady(Parse(s), c, d)
<1>. DEFINE p == Parsed(NewParser, s)
            r == [k \in DOMAIN p.callers |-> Close]
<1>1. NewParser \in SteadyParsers(c, d)
  <2>1. Call(<<>>, <<>>, 0) \in SteadyCalls(c, d)  BY SteadyNone, CallIs
  <2>. QED  BY <2>1 DEF NewParser, NewCall, Parser, SteadyParsers
<1>2. p \in SteadyParsers(c, d)  BY <1>1, ParsedIsSteady
<1>. HIDE DEF p
<1>3. r \in Seq(Tokens)
  <2>1. p.callers \in Seq(SteadyCalls(c, d))  BY <1>2 DEF SteadyParsers
  <2>. QED  BY <2>1 DEF Tokens
<1>. HIDE DEF r
<1>4. Parsed(p, r).call \in SteadyCalls(c, d)
  <2>1. Parsed(p, r) \in SteadyParsers(c, d)  BY <1>2, <1>3, ParsedIsSteady
  <2>. QED  BY <2>1 DEF SteadyParsers
<1>5. Steady(Flushed(Parsed(p, r).call), c, d)  BY <1>4, SteadyFlushed
<1>. QED  BY <1>5 DEF Parse, p, r

\* What is evaluated grows with the conditions, and is not met by none.
LEMMA EvaluateGrows ==
    ASSUME NEW n \in Nat, NEW c, NEW d, AtMost(c, d, n), NEW s \in Seq(Tokens)
    PROVE  /\ Evaluate(s, c) = "met" => Evaluate(s, d) = "met"
           /\ (\A i \in DOMAIN c : ~c[i]) => Evaluate(s, c) # "met"
<1>1. Behind(NewLoop, NewLoop) /\ Unmet(c, NewLoop)
  BY DEF Behind, Below, Unmet, NewLoop, Loop
<1>2. PICK l, m \in Loops : Leads(Parse(s), c, d, NewLoop, NewLoop, l, m)
  BY <1>1, LoopIs, ParseIsSteady DEF Steady
<1>. DEFINE o == <<>>
<1>3. o \in Seq(Loops)  OBVIOUS
<1>4. Evaluate(s, c) = Evaluator(l, o).loop.result /\ Evaluate(s, d) = Evaluator(m, o).loop.result
  <2>1. Evaluate(s, c) = Evaluated(Evaluator(NewLoop, o), Parse(s), c).loop.result
    BY DEF Evaluate
  <2>2. Evaluate(s, d) = Evaluated(Evaluator(NewLoop, o), Parse(s), d).loop.result
    BY DEF Evaluate
  <2>. HIDE DEF o
  <2>. QED  BY <1>2, <1>3, <2>1, <2>2 DEF Leads
<1>. HIDE DEF o
<1>5. Evaluate(s, c) = l.result /\ Evaluate(s, d) = m.result
  BY <1>4 DEF Evaluator
<1>. QED  BY <1>2, <1>5 DEF Leads, Behind, Below, Unmet

(* --------------------------------- Balances ------------------------------- *)

\* How a token changes the balance.
Weight(t) == IF t = Open THEN 1 ELSE IF t = Close THEN -1 ELSE 0

Where(f, x, i, j) == {k \in i..j : f[k] = x}
Many(f, x, i, j) == Cardinality(Where(f, x, i, j))

LEMMA BalanceIs ==
    ASSUME NEW f, NEW i, NEW j
    PROVE  Balance(f, i, j) = Many(f, Open, i, j) - Many(f, Close, i, j)
  BY DEF Balance, Many, Where

LEMMA ManyType ==
    ASSUME NEW f, NEW x, NEW i \in Nat, NEW j \in Nat
    PROVE  IsFiniteSet(Where(f, x, i, j)) /\ Many(f, x, i, j) \in Nat
<1>1. IsFiniteSet(i..j)  BY FS_Interval
<1>2. Where(f, x, i, j) \subseteq i..j  BY DEF Where
<1>3. IsFiniteSet(Where(f, x, i, j))  BY <1>1, <1>2, FS_Subset
<1>. QED  BY <1>3, FS_CardinalityType DEF Many

LEMMA ManySplit ==
    ASSUME NEW f, NEW x, NEW i \in Nat, NEW m \in Nat, NEW j \in Nat, i <= m + 1, m <= j
    PROVE  Many(f, x, i, j) = Many(f, x, i, m) + Many(f, x, m + 1, j)
<1>1. PICK A : A = Where(f, x, i, m)  OBVIOUS
<1>2. PICK B : B = Where(f, x, m + 1, j)  OBVIOUS
<1>3. Where(f, x, i, j) = A \cup B /\ A \cap B = {}
  BY <1>1, <1>2 DEF Where
<1>4. IsFiniteSet(A) /\ Cardinality(A) \in Nat /\ IsFiniteSet(B) /\ Cardinality(B) \in Nat
  BY <1>1, <1>2, ManyType DEF Many
<1>5. Cardinality(A \cup B) = Cardinality(A) + Cardinality(B) - Cardinality(A \cap B)
  BY <1>4, FS_Union
<1>6. Cardinality(A \cap B) = 0  BY <1>3, FS_EmptySet
<1>. QED  BY <1>1, <1>2, <1>3, <1>4, <1>5, <1>6 DEF Many

LEMMA BalanceType ==
    ASSUME NEW f, NEW i \in Nat, NEW j \in Nat
    PROVE  Balance(f, i, j) \in Int
<1>1. \A x : Many(f, x, i, j) \in Nat  BY ManyType
<1>. QED  BY <1>1, BalanceIs

LEMMA BalanceSplit ==
    ASSUME NEW f, NEW i \in Nat, NEW m \in Nat, NEW j \in Nat, i <= m + 1, m <= j
    PROVE  /\ Balance(f, i, j) \in Int
           /\ Balance(f, i, j) = Balance(f, i, m) + Balance(f, m + 1, j)
<1>1. m + 1 \in Nat  OBVIOUS
<1>2. \A x : /\ Many(f, x, i, j) \in Nat /\ Many(f, x, i, m) \in Nat /\ Many(f, x, m + 1, j) \in Nat
             /\ Many(f, x, i, j) = Many(f, x, i, m) + Many(f, x, m + 1, j)
  BY <1>1, ManyType, ManySplit
<1>. QED  BY <1>2, BalanceIs

LEMMA BalanceOne ==
    ASSUME NEW f, NEW i \in Nat
    PROVE  Balance(f, i, i) = Weight(f[i])
<1>. DEFINE P(x) == {k \in i..i : f[k] = x}
<1>1. ASSUME NEW x PROVE Cardinality(P(x)) = IF f[i] = x THEN 1 ELSE 0
  <2>1. CASE f[i] = x
    <3>1. P(x) = {i}  BY <2>1
    <3>. QED  BY <2>1, <3>1, FS_Singleton
  <2>2. CASE f[i] # x
    <3>1. P(x) = {}  BY <2>2
    <3>. QED  BY <2>2, <3>1, FS_EmptySet
  <2>. QED  BY <2>1, <2>2
<1>2. Balance(f, i, i) = Cardinality(P(Open)) - Cardinality(P(Close))  BY DEF Balance
<1>3. Open # Close
  <2>1. Open.kind = "(" /\ Close.kind = ")"  BY DEF Open, Close, Token
  <2>. QED  BY <2>1
<1>. HIDE DEF P
<1>. QED  BY <1>1, <1>2, <1>3 DEF Weight

LEMMA BalanceEmpty ==
    ASSUME NEW f, NEW i \in Nat
    PROVE  Balance(f, i + 1, i) = 0
<1>1. \A x : Where(f, x, i + 1, i) = {}  BY DEF Where
<1>2. \A x : Many(f, x, i + 1, i) = 0  BY <1>1, FS_EmptySet DEF Many
<1>. QED  BY <1>2, BalanceIs

LEMMA BalanceStep ==
    ASSUME NEW f, NEW i \in Nat, NEW k \in Nat, i <= k
    PROVE  Balance(f, i, k + 1) = Balance(f, i, k) + Weight(f[k + 1])
<1>1. k + 1 \in Nat  OBVIOUS
<1>2. Balance(f, i, k + 1) = Balance(f, i, k) + Balance(f, k + 1, k + 1)
  BY <1>1, BalanceSplit
<1>3. Balance(f, k + 1, k + 1) = Weight(f[k + 1])  BY <1>1, BalanceOne
<1>. QED  BY <1>2, <1>3

LEMMA BalanceSame ==
    ASSUME NEW f, NEW g, NEW i \in Nat, NEW j \in Nat, \A k \in i..j : f[k] = g[k]
    PROVE  Balance(f, i, j) = Balance(g, i, j)
<1>1. \A x : Where(f, x, i, j) = Where(g, x, i, j)  BY DEF Where
<1>. QED  BY <1>1, BalanceIs DEF Many

(* ------------------------------ The readings ------------------------------ *)

\* The parts of an expression, and the operators outside parentheses in one.
Spans(n) == (1..n+1) \X (0..n)
Outer(tokens, i, j) == {k \in i..j : tokens[k] \in Operators /\ Balance(tokens, i, k) = 0}
\* What the span s reads, if f says what shorter ones do.
Reads(tokens, met, f, s) ==
    LET outer == Outer(tokens, s[1], s[2])
        last == Max(outer)
        left == f[<<s[1], last - 1>>]
        right == f[<<last + 1, s[2]>>]
    IN  CASE outer # {} -> IF tokens[last].kind = "OR" THEN left \/ right ELSE left /\ right
          [] outer = {} /\ s[1] < s[2] -> f[<<s[1] + 1, s[2] - 1>>]
          [] OTHER -> tokens[s[1]].n \in met

LEMMA LastOuter ==
    ASSUME NEW f, NEW i \in Nat, NEW j \in Nat, Outer(f, i, j) # {}
    PROVE  /\ Max(Outer(f, i, j)) \in Outer(f, i, j)
           /\ \A k \in Outer(f, i, j) : k <= Max(Outer(f, i, j))
<1>. DEFINE T == Outer(f, i, j)
            U == {m \in Nat : \A y \in T : m >= y}
<1>1. T \subseteq i..j  BY DEF Outer
<1>. HIDE DEF T
<1>2. j \in U  BY <1>1
<1>3. PICK x \in U : \A y \in U : x <= y
  <2>1. U \subseteq Nat /\ U # {}  BY <1>2
  <2>. HIDE DEF U
  <2>. QED  BY <2>1, LeastElement
<1>4. x \in T
  <2>1. SUFFICES ASSUME x \notin T PROVE FALSE  OBVIOUS
  <2>2. PICK t \in T : t \in i..j  BY <1>1 DEF T
  <2>3. x >= t /\ x # t  BY <1>3, <2>1, <2>2
  <2>4. x - 1 \in Nat  BY <1>3, <2>2, <2>3
  <2>5. \A y \in T : x - 1 >= y
    <3>1. SUFFICES ASSUME NEW y \in T PROVE x - 1 >= y  OBVIOUS
    <3>2. y \in i..j /\ x >= y /\ x # y  BY <1>1, <1>3, <2>1
    <3>. QED  BY <3>2
  <2>6. x - 1 \in U  BY <2>4, <2>5
  <2>. QED  BY <1>3, <2>6
<1>5. \A y \in T : x >= y  BY <1>3
<1>6. \A y \in T : y \in Nat  BY <1>1
<1>. DEFINE y == Max(T)
<1>7. y \in T /\ \A t \in T : y >= t
  BY <1>4, <1>5 DEF Max
<1>. QED  BY <1>6, <1>7 DEF T

LEMMA ReadsLess ==
    ASSUME NEW n \in Nat, NEW tokens, NEW met, NEW s \in Spans(n), NEW f, NEW g,
           \A r \in Spans(n) : r[2] - r[1] < s[2] - s[1] => f[r] = g[r]
    PROVE  Reads(tokens, met, f, s) = Reads(tokens, met, g, s)
<1>. DEFINE i == s[1]
            j == s[2]
            outer == Outer(tokens, i, j)
            last == Max(outer)
<1>1. i \in 1..n+1 /\ j \in 0..n /\ s = <<i, j>>  BY DEF Spans
<1>. HIDE DEF i, j
<1>2. CASE outer # {}
  <2>1. last \in i..j
    <3>1. i \in Nat /\ j \in Nat  BY <1>1
    <3>2. last \in Outer(tokens, i, j)  BY <1>2, <3>1, LastOuter
    <3>. QED  BY <3>2 DEF Outer
  <2>. HIDE DEF last
  <2>2. <<i, last - 1>> \in Spans(n) /\ <<last + 1, j>> \in Spans(n)  BY <1>1, <2>1 DEF Spans
  <2>3. f[<<i, last - 1>>] = g[<<i, last - 1>>]
    <3>. DEFINE r == <<i, last - 1>>
    <3>1. r[2] - r[1] < s[2] - s[1]  BY <1>1, <2>1
    <3>. HIDE DEF r
    <3>. QED  BY <2>2, <3>1 DEF r
  <2>4. f[<<last + 1, j>>] = g[<<last + 1, j>>]
    <3>. DEFINE r == <<last + 1, j>>
    <3>1. r[2] - r[1] < s[2] - s[1]  BY <1>1, <2>1
    <3>. HIDE DEF r
    <3>. QED  BY <2>2, <3>1 DEF r
  <2>. QED  BY <1>1, <1>2, <2>3, <2>4 DEF Reads, last, i, j
<1>3. CASE outer = {} /\ i < j
  <2>1. <<i + 1, j - 1>> \in Spans(n)  BY <1>1, <1>3 DEF Spans
  <2>2. f[<<i + 1, j - 1>>] = g[<<i + 1, j - 1>>]
    <3>. DEFINE r == <<i + 1, j - 1>>
    <3>1. r[2] - r[1] < s[2] - s[1]  BY <1>1, <1>3
    <3>. HIDE DEF r
    <3>. QED  BY <2>1, <3>1 DEF r
  <2>. QED  BY <1>3, <2>2 DEF Reads, i, j
<1>4. CASE outer = {} /\ ~(i < j)
  BY <1>4 DEF Reads, i, j
<1>. QED  BY <1>2, <1>3, <1>4

\* f is right on all spans shorter than w - n - 1.
LevelRead(n, tokens, met, w, f) ==
    \A s \in Spans(n) : s[2] - s[1] + n + 1 < w => f[s] = Reads(tokens, met, f, s)

LEMMA LevelsExist ==
    ASSUME NEW n \in Nat, NEW tokens, NEW met
    PROVE  \A w \in Nat : \E f : LevelRead(n, tokens, met, w, f)
<1>. DEFINE T == {w \in Nat : \E f : LevelRead(n, tokens, met, w, f)}
            L(s) == s[2] - s[1] + n + 1
<1>1. \A s \in Spans(n) : L(s) \in Nat
  <2>1. ASSUME NEW s \in Spans(n) PROVE L(s) \in Nat
    <3>1. s[1] \in 1..n+1 /\ s[2] \in 0..n  BY DEF Spans
    <3>. QED  BY <3>1
  <2>. QED  BY <2>1
<1>2. 0 \in T
  <2>1. LevelRead(n, tokens, met, 0, 0)
    <3>1. \A s \in Spans(n) : ~(L(s) < 0)  BY <1>1
    <3>. QED  BY <3>1 DEF LevelRead
  <2>. QED  BY <2>1
<1>3. ASSUME NEW w \in Nat, w \in T PROVE w + 1 \in T
  <2>1. PICK f : LevelRead(n, tokens, met, w, f)  BY <1>3
  <2>. DEFINE g == [s \in Spans(n) |-> IF L(s) = w THEN Reads(tokens, met, f, s) ELSE f[s]]
  <2>2. \A s \in Spans(n) : L(s) < w => g[s] = f[s]  BY <1>1
  <2>3. \A s \in Spans(n) : L(s) = w => g[s] = Reads(tokens, met, f, s)  OBVIOUS
  <2>. HIDE DEF g
  <2>4. ASSUME NEW s \in Spans(n), L(s) < w + 1 PROVE g[s] = Reads(tokens, met, g, s)
    <3>1. s[1] \in 1..n+1 /\ s[2] \in 0..n  BY DEF Spans
    <3>2. ASSUME NEW r \in Spans(n), r[2] - r[1] < s[2] - s[1] PROVE g[r] = f[r]
      <4>1. r[1] \in 1..n+1 /\ r[2] \in 0..n  BY DEF Spans
      <4>2. L(r) < w  BY <2>4, <3>1, <3>2, <4>1
      <4>. QED  BY <2>2, <4>2
    <3>3. Reads(tokens, met, g, s) = Reads(tokens, met, f, s)
      <4>. HIDE DEF L
      <4>. QED  BY <3>2, ReadsLess
    <3>4. CASE L(s) = w  BY <2>3, <3>3, <3>4
    <3>5. CASE L(s) # w
      <4>1. L(s) < w  BY <1>1, <2>4, <3>5
      <4>2. f[s] = Reads(tokens, met, f, s)  BY <2>1, <4>1 DEF LevelRead
      <4>. QED  BY <2>2, <3>3, <4>1, <4>2
    <3>. QED  BY <3>4, <3>5
  <2>5. LevelRead(n, tokens, met, w + 1, g)  BY <2>4 DEF LevelRead
  <2>. QED  BY <2>5
<1>. HIDE DEF T
<1>4. \A w \in Nat : w \in T  BY <1>2, <1>3, Stepwise
<1>. QED  BY <1>4 DEF T

ReadSteps(n, tokens, met, f) == f = [s \in Spans(n) |-> Reads(tokens, met, f, s)]

LEMMA ReadingIs ==
    ASSUME NEW tokens, NEW n \in Nat, Len(tokens) = n, NEW met
    PROVE  \E f : /\ \A s \in Spans(n) : f[s] = Reads(tokens, met, f, s)
                 /\ Reading(tokens, met) = f[<<1, n>>]
<1>1. PICK f : LevelRead(n, tokens, met, 2 * n + 2, f)  BY LevelsExist
<1>. DEFINE h == [s \in Spans(n) |-> Reads(tokens, met, f, s)]
<1>2. ASSUME NEW s \in Spans(n) PROVE f[s] = Reads(tokens, met, f, s)
  <2>1. s[1] \in 1..n+1 /\ s[2] \in 0..n  BY DEF Spans
  <2>2. s[2] - s[1] + n + 1 < 2 * n + 2  BY <2>1
  <2>. QED  BY <1>1, <2>2 DEF LevelRead
<1>3. \A s \in Spans(n) : h[s] = f[s]  BY <1>2
<1>4. \A s \in Spans(n) : h[s] = Reads(tokens, met, h, s)
  <2>1. ASSUME NEW s \in Spans(n) PROVE h[s] = Reads(tokens, met, h, s)
    <3>1. h[s] = Reads(tokens, met, f, s)  OBVIOUS
    <3>. HIDE DEF h
    <3>2. Reads(tokens, met, f, s) = Reads(tokens, met, h, s)  BY <1>3, ReadsLess
    <3>. QED  BY <3>1, <3>2
  <2>. QED  BY <2>1
<1>5. ReadSteps(n, tokens, met, h)
  <2>1. h = [s \in Spans(n) |-> h[s]]  OBVIOUS
  <2>. HIDE DEF h
  <2>. QED  BY <1>4, <2>1 DEF ReadSteps
<1>. DEFINE reads == CHOOSE g : ReadSteps(n, tokens, met, g)
<1>6. ReadSteps(n, tokens, met, reads)
  <2>. HIDE DEF h
  <2>. QED  BY <1>5
<1>7. Reading(tokens, met) = reads[<<1, n>>]
  BY DEF Reading, ReadSteps, Reads, Outer, Spans
<1>. HIDE DEF reads
<1>8. \A s \in Spans(n) : reads[s] = Reads(tokens, met, reads, s)
  BY <1>6 DEF ReadSteps
<1>. QED  BY <1>7, <1>8

(* ---------------------------- Whole expressions --------------------------- *)

\* The tokens that end an operand. An expression is whole if its parentheses match.
Ends(t) == t = Close \/ t \in Operands
Whole(f, i, j) ==
    /\ i <= j /\ Starts(f[i]) /\ Ends(f[j])
    /\ \A k \in i..j-1 : Follows(f[k], f[k+1])
    /\ \A k \in i..j : f[k] \in Tokens /\ Balance(f, i, k) >= 0
    /\ Balance(f, i, j) = 0

LEMMA WeightIs ==
    /\ Weight(Open) = 1 /\ Weight(Close) = -1
    /\ \A t \in Tokens : Weight(t) \in Int
    /\ \A t \in Operators \cup Operands : Weight(t) = 0
    /\ \A t \in Tokens : Weight(t) = 1 => t = Open
    /\ \A t \in Tokens : Weight(t) = -1 => t = Close
  BY KindsDiffer DEF Weight

LEMMA FollowsIs ==
    ASSUME NEW t \in Tokens, NEW u \in Tokens, Follows(t, u)
    PROVE  /\ u = Close \/ u \in Operators => Ends(t)
           /\ Ends(t) => u = Close \/ u \in Operators
           /\ ~Ends(t) => Starts(u)
           /\ t \in Operators => Starts(u)
  BY KindsDiffer DEF Follows, Starts, Ends, Tokens

LEMMA WholeOne ==
    ASSUME NEW f, NEW i \in Nat, Whole(f, i, i)
    PROVE  f[i] \in Operands
  BY KindsDiffer DEF Whole, Starts, Ends

\* A whole expression is two around its last outer operator ...
LEMMA WholeAround ==
    ASSUME NEW f, NEW i \in Nat, NEW j \in Nat, Whole(f, i, j),
           NEW p \in Outer(f, i, j), \A k \in Outer(f, i, j) : k <= p
    PROVE  /\ p \in i+1..j-1 /\ f[p] \in Operators
           /\ Whole(f, i, p - 1) /\ Whole(f, p + 1, j) /\ Outer(f, p + 1, j) = {}
<1>1. p \in i..j /\ f[p] \in Operators /\ Balance(f, i, p) = 0  BY DEF Outer
<1>2. p # i /\ p # j
  BY <1>1, KindsDiffer DEF Whole, Starts, Ends
<1>3. p \in i+1..j-1  BY <1>1, <1>2
<1>4. \A k \in i..j-1 : Follows(f[k], f[k+1])  BY DEF Whole
<1>5. \A k \in i..j : f[k] \in Tokens /\ Balance(f, i, k) >= 0 /\ Balance(f, i, k) \in Int
  BY BalanceType DEF Whole
<1>6. Whole(f, i, p - 1)
  <2>1. Follows(f[p-1], f[p])
    <3>1. p - 1 \in i..j-1 /\ (p - 1) + 1 = p  BY <1>3
    <3>. QED  BY <1>4, <3>1
  <2>2. Ends(f[p-1])  BY <1>1, <1>3, <1>5, <2>1, FollowsIs
  <2>3. Balance(f, i, p - 1) = 0
    <3>1. PICK q \in Nat : q = p - 1 /\ i <= q /\ p = q + 1  BY <1>3
    <3>2. Balance(f, i, q + 1) = Balance(f, i, q) + Weight(f[q + 1])  BY <3>1, BalanceStep
    <3>3. Weight(f[p]) = 0  BY <1>1, WeightIs
    <3>4. Balance(f, i, p - 1) \in Int  BY <1>3, <1>5
    <3>. QED  BY <1>1, <3>1, <3>2, <3>3, <3>4
  <2>. QED  BY <1>3, <1>4, <1>5, <2>2, <2>3 DEF Whole
<1>7. \A k \in p+1..j : Balance(f, p + 1, k) = Balance(f, i, k)
  <2>1. ASSUME NEW k \in p+1..j PROVE Balance(f, p + 1, k) = Balance(f, i, k)
    <3>1. Balance(f, i, k) = Balance(f, i, p) + Balance(f, p + 1, k)
      BY <1>3, BalanceSplit
    <3>2. Balance(f, p + 1, k) \in Int  BY <1>3, BalanceType
    <3>. QED  BY <1>1, <3>1, <3>2
  <2>. QED  BY <2>1
<1>8. Whole(f, p + 1, j)
  <2>1. Starts(f[p+1])
    <3>1. p \in i..j-1 /\ p + 1 \in i..j  BY <1>3
    <3>2. Follows(f[p], f[p+1])  BY <1>4, <3>1
    <3>. QED  BY <1>1, <1>5, <3>1, <3>2, FollowsIs
  <2>2. Ends(f[j]) /\ Balance(f, i, j) = 0  BY DEF Whole
  <2>. QED  BY <1>3, <1>4, <1>5, <1>7, <2>1, <2>2 DEF Whole
<1>9. Outer(f, p + 1, j) = {}
  <2>1. ASSUME NEW k \in Outer(f, p + 1, j) PROVE FALSE
    <3>1. k \in p+1..j /\ f[k] \in Operators /\ Balance(f, p + 1, k) = 0  BY DEF Outer
    <3>2. k \in Outer(f, i, j)  BY <1>3, <1>7, <3>1 DEF Outer
    <3>. QED  BY <1>3, <3>1, <3>2
  <2>. QED  BY <2>1
<1>. QED  BY <1>1, <1>3, <1>6, <1>8, <1>9

\* ... or, without one, a pair of parentheses around a whole expression.
LEMMA WholeInside ==
    ASSUME NEW f, NEW i \in Nat, NEW j \in Nat, Whole(f, i, j), Outer(f, i, j) = {}, i < j
    PROVE  /\ f[i] = Open /\ f[j] = Close /\ i + 1 \in i..j-1
           /\ Whole(f, i + 1, j - 1)
<1>1. \A k \in i..j-1 : Follows(f[k], f[k+1])  BY DEF Whole
<1>2. \A k \in i..j : f[k] \in Tokens /\ Balance(f, i, k) >= 0 /\ Balance(f, i, k) \in Int
  BY BalanceType DEF Whole
<1>3. \A k \in i..j-1 : Balance(f, i, k + 1) = Balance(f, i, k) + Weight(f[k + 1])
  BY BalanceStep
\* Where the balance comes back to nothing inside, an operator would follow.
<1>4. ASSUME NEW k \in i..j-1, Ends(f[k]), Balance(f, i, k) = 0 PROVE FALSE
  <2>1. k + 1 \in i..j  OBVIOUS
  <2>2. f[k + 1] = Close \/ f[k + 1] \in Operators  BY <1>1, <1>2, <1>4, <2>1, FollowsIs
  <2>3. f[k + 1] # Close  BY <1>2, <1>3, <1>4, <2>1, WeightIs
  <2>4. Balance(f, i, k + 1) = 0  BY <1>3, <1>4, <2>2, <2>3, WeightIs
  <2>5. k + 1 \in Outer(f, i, j)  BY <2>1, <2>2, <2>3, <2>4 DEF Outer
  <2>. QED  BY <2>5
<1>5. Balance(f, i, i) = Weight(f[i])  BY BalanceOne
<1>6. f[i] = Open
  <2>1. SUFFICES ASSUME f[i] \in Operands PROVE FALSE  BY DEF Whole, Starts
  <2>2. Balance(f, i, i) = 0  BY <1>5, <2>1, WeightIs
  <2>. QED  BY <1>4, <2>1, <2>2 DEF Ends
<1>7. \A k \in i..j-1 : Balance(f, i, k) >= 1
  <2>. DEFINE T == {m \in Nat : i + m <= j - 1 => Balance(f, i, i + m) >= 1}
  <2>1. 0 \in T
    <3>1. i + 0 = i  OBVIOUS
    <3>. QED  BY <1>5, <1>6, <3>1, WeightIs
  <2>2. ASSUME NEW m \in Nat, m \in T PROVE m + 1 \in T
    <3>1. SUFFICES ASSUME i + (m + 1) <= j - 1 PROVE Balance(f, i, i + (m + 1)) >= 1  OBVIOUS
    <3>. DEFINE k == i + m
    <3>2. k \in i..j-1 /\ k + 1 \in i..j-1 /\ k + 1 \in i..j /\ i + (m + 1) = k + 1  BY <3>1
    <3>3. Balance(f, i, k) >= 1  BY <2>2, <3>1
    <3>. HIDE DEF k
    <3>4. Balance(f, i, k + 1) = Balance(f, i, k) + Weight(f[k + 1])  BY <1>3, <3>2
    <3>5. SUFFICES ASSUME Balance(f, i, k + 1) = 0 PROVE FALSE  BY <1>2, <3>2
    <3>6. f[k + 1] = Close
      BY <1>2, <3>2, <3>3, <3>4, <3>5, WeightIs DEF Weight
    <3>. QED  BY <1>4, <3>2, <3>5, <3>6 DEF Ends
  <2>3. \A m \in Nat : m \in T
    <3>. HIDE DEF T
    <3>. QED  BY <2>1, <2>2, Stepwise
  <2>4. ASSUME NEW k \in i..j-1 PROVE Balance(f, i, k) >= 1
    <3>1. k - i \in T /\ i + (k - i) = k  BY <2>3
    <3>. QED  BY <3>1
  <2>. QED  BY <2>4
<1>8. f[j] = Close
  <2>1. j - 1 \in i..j-1 /\ (j - 1) + 1 = j /\ j \in i..j  OBVIOUS
  <2>2. Balance(f, i, j) = Balance(f, i, j - 1) + Weight(f[j])  BY <1>3, <2>1
  <2>3. Balance(f, i, j) = 0  BY DEF Whole
  <2>. QED  BY <1>2, <1>7, <2>1, <2>2, <2>3 DEF Weight
<1>9. Starts(f[i+1]) /\ i + 1 \in i..j-1
  <2>1. i \in i..j-1 /\ i + 1 \in i..j  OBVIOUS
  <2>2. Follows(f[i], f[i+1])  BY <1>1, <2>1
  <2>3. Starts(f[i+1])  BY <1>6, <2>2, KindsDiffer DEF Follows
  <2>4. i + 1 # j  BY <1>8, <2>3, KindsDiffer DEF Starts
  <2>. QED  BY <2>1, <2>3, <2>4
<1>10. Ends(f[j-1])
  <2>1. j - 1 \in i..j-1 /\ (j - 1) + 1 = j /\ j \in i..j /\ j - 1 \in i..j  OBVIOUS
  <2>2. Follows(f[j-1], f[j])  BY <1>1, <2>1
  <2>. QED  BY <1>2, <1>8, <2>1, <2>2, FollowsIs
<1>11. ASSUME NEW k \in i+1..j PROVE Balance(f, i + 1, k) = Balance(f, i, k) - 1
  <2>1. Balance(f, i, k) = Balance(f, i, i) + Balance(f, i + 1, k)  BY BalanceSplit
  <2>2. Balance(f, i + 1, k) \in Int  BY BalanceType
  <2>. QED  BY <1>5, <1>6, <2>1, <2>2, WeightIs
<1>12. Balance(f, i + 1, j - 1) = 0
  <2>1. j - 1 \in i..j-1 /\ (j - 1) + 1 = j /\ j - 1 \in i+1..j /\ j - 1 \in i..j  BY <1>9
  <2>2. Balance(f, i, j) = Balance(f, i, j - 1) + Weight(f[j])  BY <1>3, <2>1
  <2>3. Balance(f, i, j) = 0  BY DEF Whole
  <2>4. Balance(f, i, j - 1) = 1  BY <1>2, <1>8, <2>1, <2>2, <2>3, WeightIs
  <2>. QED  BY <1>11, <2>1, <2>4
<1>13. \A k \in i+1..j-1 : f[k] \in Tokens /\ Balance(f, i + 1, k) >= 0
  BY <1>2, <1>7, <1>11
<1>14. \A k \in i+1..(j-1)-1 : Follows(f[k], f[k+1])  BY <1>1
<1>15. Whole(f, i + 1, j - 1)
  BY <1>9, <1>10, <1>12, <1>13, <1>14 DEF Whole
<1>. QED  BY <1>6, <1>8, <1>9, <1>15

LEMMA ConcatIs ==
    ASSUME NEW U, NEW a \in Seq(U), NEW r \in Seq(U)
    PROVE  /\ a \o r \in Seq(U) /\ Len(a \o r) = Len(a) + Len(r)
           /\ \A k \in 1..Len(a) : (a \o r)[k] = a[k]
           /\ \A k \in 1..Len(r) : (a \o r)[Len(a) + k] = r[k]
  OBVIOUS

LEMMA ConsIs ==
    ASSUME NEW U, NEW t \in U, NEW b \in Seq(U)
    PROVE  /\ <<t>> \o b \in Seq(U) /\ Len(<<t>> \o b) = Len(b) + 1
           /\ (<<t>> \o b)[1] = t
           /\ \A k \in 1..Len(b) : (<<t>> \o b)[k + 1] = b[k]
  OBVIOUS

\* A part of a sequence, split around the item at p.
LEMMA PartSplit ==
    ASSUME NEW U, NEW f \in Seq(U), NEW i \in 1..Len(f), NEW j \in i..Len(f), NEW p \in i..j
    PROVE  /\ SubSeq(f, i, p - 1) \in Seq(U) /\ SubSeq(f, p + 1, j) \in Seq(U) /\ f[p] \in U
           /\ SubSeq(f, i, j) = SubSeq(f, i, p - 1) \o (<<f[p]>> \o SubSeq(f, p + 1, j))
<1>1. f[p] \in U  OBVIOUS
<1>2. PICK a \in Seq(U) : /\ a = SubSeq(f, i, p - 1) /\ Len(a) = p - i
                          /\ \A k \in 1..p-i : a[k] = f[i + k - 1]
  <2>1. /\ SubSeq(f, i, p - 1) \in Seq(U) /\ Len(SubSeq(f, i, p - 1)) = p - i
        /\ \A k \in 1..p-i : SubSeq(f, i, p - 1)[k] = f[i + k - 1]
    OBVIOUS
  <2>. QED  BY <2>1
<1>3. PICK b \in Seq(U) : /\ b = SubSeq(f, p + 1, j) /\ Len(b) = j - p
                          /\ \A k \in 1..j-p : b[k] = f[p + k]
  <2>1. /\ SubSeq(f, p + 1, j) \in Seq(U) /\ Len(SubSeq(f, p + 1, j)) = j - p
        /\ \A k \in 1..j-p : SubSeq(f, p + 1, j)[k] = f[p + k]
    OBVIOUS
  <2>. QED  BY <2>1
<1>4. PICK s \in Seq(U) : /\ s = SubSeq(f, i, j) /\ Len(s) = j - i + 1
                          /\ \A k \in 1..j-i+1 : s[k] = f[i + k - 1]
  <2>1. /\ SubSeq(f, i, j) \in Seq(U) /\ Len(SubSeq(f, i, j)) = j - i + 1
        /\ \A k \in 1..j-i+1 : SubSeq(f, i, j)[k] = f[i + k - 1]
    OBVIOUS
  <2>. QED  BY <2>1
<1>5. PICK t \in U : t = f[p]  BY <1>1
<1>6. PICK r \in Seq(U) : /\ r = <<t>> \o b /\ Len(r) = j - p + 1 /\ r[1] = t
                          /\ \A k \in 1..j-p : r[k + 1] = b[k]
  <2>1. /\ <<t>> \o b \in Seq(U) /\ Len(<<t>> \o b) = Len(b) + 1 /\ (<<t>> \o b)[1] = t
        /\ \A k \in 1..Len(b) : (<<t>> \o b)[k + 1] = b[k]
    BY ConsIs
  <2>. QED  BY <1>3, <2>1
<1>7. PICK q : q = a \o r  OBVIOUS
<1>10. /\ q \in Seq(U) /\ Len(q) = Len(a) + Len(r)
       /\ \A k \in 1..Len(a) : q[k] = a[k]
       /\ \A k \in 1..Len(r) : q[Len(a) + k] = r[k]
  BY <1>7, ConcatIs
<1>8. ASSUME NEW k \in 1..j-i+1 PROVE q[k] = s[k]
  <2>1. CASE k <= p - i
    BY <1>2, <1>4, <1>10, <2>1
  <2>2. CASE k = p - i + 1
    <3>1. q[Len(a) + 1] = r[1]
      <4>1. 1 \in 1..Len(r)  BY <1>6
      <4>. QED  BY <1>10, <4>1
    <3>2. s[k] = f[p] /\ Len(a) + 1 = k  BY <1>2, <1>4, <2>2
    <3>. QED  BY <1>5, <1>6, <3>1, <3>2
  <2>3. CASE k > p - i + 1
    <3>. DEFINE h == k - (p - i) - 1
    <3>1. h \in 1..j-p /\ h + 1 \in 1..j-p+1 /\ k = (p - i) + (h + 1) /\ p + h = i + k - 1
      BY <2>3
    <3>. HIDE DEF h
    <3>2. q[k] = r[h + 1]
      <4>1. h + 1 \in 1..Len(r) /\ k = Len(a) + (h + 1)  BY <1>2, <1>6, <3>1
      <4>. QED  BY <1>10, <4>1
    <3>3. r[h + 1] = b[h] /\ b[h] = f[p + h]  BY <1>3, <1>6, <3>1
    <3>. QED  BY <1>4, <3>1, <3>2, <3>3
  <2>. QED  BY <2>1, <2>2, <2>3
<1>9. q = s
  <2>1. Len(q) = j - i + 1  BY <1>2, <1>6, <1>10
  <2>2. q \in Seq(U) /\ s \in Seq(U) /\ Len(s) = Len(q)  BY <1>4, <1>10, <2>1
  <2>3. \A k \in 1..Len(q) : q[k] = s[k]  BY <1>8, <2>1
  <2>. QED  BY <2>2, <2>3
<1>. QED  BY <1>1, <1>2, <1>3, <1>4, <1>5, <1>6, <1>7, <1>9

LEMMA EvaluatedSplit ==
    ASSUME NEW f \in Seq(Tokens), NEW i \in 1..Len(f), NEW j \in i..Len(f), NEW p \in i..j,
           NEW e, NEW c
    PROVE  Evaluated(e, SubSeq(f, i, j), c)
             = Evaluated(EvaluateItem(Evaluated(e, SubSeq(f, i, p - 1), c), f[p], c),
                         SubSeq(f, p + 1, j), c)
<1>6. PICK a : a = SubSeq(f, i, p - 1)  OBVIOUS
<1>7. PICK b : b = SubSeq(f, p + 1, j)  OBVIOUS
<1>8. PICK t : t = f[p]  OBVIOUS
<1>1. a \in Seq(Tokens) /\ b \in Seq(Tokens) /\ t \in Tokens /\ SubSeq(f, i, j) = a \o (<<t>> \o b)
  BY <1>6, <1>7, <1>8, PartSplit
<1>2. PICK r : r = <<t>> \o b  OBVIOUS
<1>3. r \in Seq(Tokens)  BY <1>1, <1>2, ConsIs
<1>4. Evaluated(e, a \o r, c) = Evaluated(Evaluated(e, a, c), r, c)  BY <1>1, <1>3, EvaluatedConcat
<1>5. \A x : Evaluated(x, r, c) = Evaluated(EvaluateItem(x, t, c), b, c)
  BY <1>1, <1>2, EvaluatedFrom
<1>. QED  BY <1>1, <1>2, <1>4, <1>5, <1>6, <1>7, <1>8

\* The part from i to j gives a new loop the result v ...
Results(f, c, i, j, v) ==
    \E l \in Loops : /\ l.result = v
                     /\ \A o \in Seq(Loops) :
                            Evaluated(Evaluator(NewLoop, o), SubSeq(f, i, j), c) = Evaluator(l, o)
\* ... and acts on any loop as an operand with verdict v does.
Judges(f, c, i, j, v) ==
    \A l \in Loops, o \in Seq(Loops) :
        Evaluated(Evaluator(l, o), SubSeq(f, i, j), c) = Evaluator(Judging(l, v), o)

LEMMA JudgingIs ==
    ASSUME NEW v \in {"met", "unmet"}
    PROVE  /\ Judging(NewLoop, v) \in Loops /\ Judging(NewLoop, v).result = v
           /\ \A l \in Loops : Judging(l, v) \in Loops
  BY DEF Judging, NewLoop, Loop, Loops, Verdicts, Combine

LEMMA JudgesResults ==
    ASSUME NEW f, NEW c, NEW i, NEW j, NEW v \in {"met", "unmet"}, Judges(f, c, i, j, v)
    PROVE  Results(f, c, i, j, v)
  BY JudgingIs, LoopIs DEF Judges, Results

LEMMA SubSeqNone ==
    ASSUME NEW f \in Seq(Tokens), NEW i \in 1..Len(f)
    PROVE  SubSeq(f, i, i - 1) = <<>> /\ SubSeq(f, i + 1, i) = <<>>
  OBVIOUS

LEMMA JudgesOne ==
    ASSUME NEW f \in Seq(Tokens), NEW c, NEW i \in 1..Len(f), f[i] \in Operands
    PROVE  Judges(f, c, i, i, ConditionOf(f[i].n, c))
<1>. DEFINE v == ConditionOf(f[i].n, c)
<1>1. ASSUME NEW l \in Loops, NEW o \in Seq(Loops)
      PROVE  Evaluated(Evaluator(l, o), SubSeq(f, i, i), c) = Evaluator(Judging(l, v), o)
  <2>1. Evaluated(Evaluator(l, o), SubSeq(f, i, i), c)
          = Evaluated(EvaluateItem(Evaluated(Evaluator(l, o), SubSeq(f, i, i - 1), c), f[i], c),
                      SubSeq(f, i + 1, i), c)
    BY EvaluatedSplit
  <2>2. Evaluated(Evaluator(l, o), SubSeq(f, i, i), c) = EvaluateItem(Evaluator(l, o), f[i], c)
    BY <2>1, SubSeqNone, EvaluatedNone
  <2>3. EvaluateItem(Evaluator(l, o), f[i], c) = Evaluator(Judging(l, v), o)
    BY KindsDiffer DEF EvaluateItem, Evaluator
  <2>. QED  BY <2>2, <2>3
<1>. QED  BY <1>1 DEF Judges

LEMMA JudgesInside ==
    ASSUME NEW f \in Seq(Tokens), NEW c, NEW i \in 1..Len(f), NEW j \in i+1..Len(f),
           f[i] = Open, f[j] = Close, NEW v, Results(f, c, i + 1, j - 1, v)
    PROVE  Judges(f, c, i, j, v)
<1>1. PICK r \in Loops : /\ r.result = v
                         /\ \A o \in Seq(Loops) :
                              Evaluated(Evaluator(NewLoop, o), SubSeq(f, i + 1, j - 1), c) = Evaluator(r, o)
  BY DEF Results
<1>2. ASSUME NEW l \in Loops, NEW o \in Seq(Loops)
      PROVE  Evaluated(Evaluator(l, o), SubSeq(f, i, j), c) = Evaluator(Judging(l, v), o)
  <2>. DEFINE q == Append(o, l)
              e == Evaluator(l, o)
  <2>1. q \in Seq(Loops) /\ Last(q) = l /\ Front(q) = o  BY DEF Last, Front
  <2>2. EvaluateItem(e, Open, c) = Evaluator(NewLoop, q)
    BY KindsDiffer DEF EvaluateItem, Evaluator
  <2>. HIDE DEF q
  <2>3. EvaluateItem(Evaluator(r, q), Close, c) = Evaluator(Judging(l, v), o)
    BY <1>1, <2>1, KindsDiffer DEF EvaluateItem, Evaluator
  <2>4. Evaluated(Evaluator(NewLoop, q), SubSeq(f, i + 1, j - 1), c) = Evaluator(r, q)
    BY <1>1, <2>1
  <2>. HIDE DEF e
  <2>5. Evaluated(e, SubSeq(f, i, j - 1), c)
          = Evaluated(EvaluateItem(Evaluated(e, SubSeq(f, i, i - 1), c), f[i], c),
                      SubSeq(f, i + 1, j - 1), c)
    <3>1. i \in i..j-1 /\ j - 1 \in i..Len(f)  OBVIOUS
    <3>. QED  BY <3>1, EvaluatedSplit
  <2>6. Evaluated(e, SubSeq(f, i, j - 1), c) = Evaluator(r, q)
    BY <2>2, <2>4, <2>5, SubSeqNone, EvaluatedNone
  <2>7. Evaluated(e, SubSeq(f, i, j), c)
          = Evaluated(EvaluateItem(Evaluated(e, SubSeq(f, i, j - 1), c), f[j], c),
                      SubSeq(f, j + 1, j), c)
    <3>1. j \in i..j /\ j \in i..Len(f)  OBVIOUS
    <3>. QED  BY <3>1, EvaluatedSplit
  <2>8. Evaluated(e, SubSeq(f, i, j), c) = EvaluateItem(Evaluator(r, q), Close, c)
    <3>1. j \in 1..Len(f)  OBVIOUS
    <3>. QED  BY <2>6, <2>7, <3>1, SubSeqNone, EvaluatedNone
  <2>. QED  BY <2>3, <2>8 DEF e
<1>. QED  BY <1>2 DEF Judges

LEMMA ResultsAround ==
    ASSUME NEW f \in Seq(Tokens), NEW c, NEW i \in 1..Len(f), NEW j \in i..Len(f),
           NEW p \in i+1..j-1, f[p] \in Operators, NEW v \in {"met", "unmet"}, NEW w \in {"met", "unmet"},
           Results(f, c, i, p - 1, v), Judges(f, c, p + 1, j, w)
    PROVE  Results(f, c, i, j, Combine(f[p].kind, v, w))
<1>1. PICK l \in Loops : /\ l.result = v
                         /\ \A o \in Seq(Loops) :
                              Evaluated(Evaluator(NewLoop, o), SubSeq(f, i, p - 1), c) = Evaluator(l, o)
  BY DEF Results
<1>. DEFINE m == Loop(v, f[p].kind)
            r == Judging(m, w)
<1>2. m \in Loops /\ r \in Loops /\ r.result = Combine(f[p].kind, v, w)
  BY KindsDiffer DEF Loops, Loop, Judging, Combine, Verdicts
<1>3. \A o : EvaluateItem(Evaluator(l, o), f[p], c) = Evaluator(m, o)
  BY <1>1, KindsDiffer DEF EvaluateItem, Evaluator
<1>. HIDE DEF m
<1>4. \A o \in Seq(Loops) : Evaluated(Evaluator(m, o), SubSeq(f, p + 1, j), c) = Evaluator(r, o)
  BY <1>2 DEF Judges
<1>. HIDE DEF r
<1>5. ASSUME NEW o \in Seq(Loops)
      PROVE  Evaluated(Evaluator(NewLoop, o), SubSeq(f, i, j), c) = Evaluator(r, o)
  <2>1. Evaluated(Evaluator(NewLoop, o), SubSeq(f, i, j), c)
          = Evaluated(EvaluateItem(Evaluated(Evaluator(NewLoop, o), SubSeq(f, i, p - 1), c), f[p], c),
                      SubSeq(f, p + 1, j), c)
    <3>1. p \in i..j  OBVIOUS
    <3>. QED  BY <3>1, EvaluatedSplit
  <2>. QED  BY <1>1, <1>3, <1>4, <2>1
<1>. QED  BY <1>2, <1>5 DEF Results

\* A whole part is evaluated as r reads it, and judged as an operand if it is one.
ReadRight(f, c, r, i, j) ==
    Whole(f, i, j) => /\ Results(f, c, i, j, Verdict(r[<<i, j>>]))
                      /\ Outer(f, i, j) = {} => Judges(f, c, i, j, Verdict(r[<<i, j>>]))
ReadsAll(f, c, r) == \A s \in Spans(Len(f)) : r[s] = Reads(f, {k \in DOMAIN c : c[k] = TRUE}, r, s)
\* Every operand names a condition.
Naming(f, c) ==
    \A k \in 1..Len(f) : f[k] \in Operands => f[k].n \in DOMAIN c /\ c[f[k].n] \in BOOLEAN

LEMMA VerdictIs == \A b : Verdict(b) \in {"met", "unmet"}
  BY DEF Verdict

\* Reading and evaluating go alike, if they do for all shorter parts.
LEMMA SpanStep ==
    ASSUME NEW f \in Seq(Tokens), NEW c, NEW r, Naming(f, c), ReadsAll(f, c, r),
           NEW i \in 1..Len(f), NEW j \in i..Len(f),
           \A a \in 1..Len(f) : \A b \in a..Len(f) : b - a < j - i => ReadRight(f, c, r, a, b)
    PROVE  ReadRight(f, c, r, i, j)
<1>. SUFFICES ASSUME Whole(f, i, j)
              PROVE  /\ Results(f, c, i, j, Verdict(r[<<i, j>>]))
                     /\ Outer(f, i, j) = {} => Judges(f, c, i, j, Verdict(r[<<i, j>>]))
  BY DEF ReadRight
<1>1. i \in Nat /\ j \in Nat /\ i <= j /\ j <= Len(f) /\ Len(f) \in Nat  OBVIOUS
<1>. DEFINE s == <<i, j>>
            v == r[s]
            met == {k \in DOMAIN c : c[k] = TRUE}
<1>2. s \in Spans(Len(f)) /\ s[1] = i /\ s[2] = j  BY DEF Spans
<1>3. v = Reads(f, met, r, s)  BY <1>2 DEF ReadsAll
<1>. HIDE DEF v, s
<1>4. CASE Outer(f, i, j) # {}
  <2>. DEFINE p == Max(Outer(f, i, j))
  <2>1. p \in Outer(f, i, j) /\ \A k \in Outer(f, i, j) : k <= p  BY <1>1, <1>4, LastOuter
  <2>. DEFINE left == r[<<i, p - 1>>]
              right == r[<<p + 1, j>>]
  <2>2. v = IF f[p].kind = "OR" THEN left \/ right ELSE left /\ right
    BY <1>2, <1>3, <1>4 DEF Reads
  <2>. HIDE DEF p
  <2>3. /\ p \in i+1..j-1 /\ f[p] \in Operators
        /\ Whole(f, i, p - 1) /\ Whole(f, p + 1, j) /\ Outer(f, p + 1, j) = {}
    BY <1>1, <2>1, WholeAround
  <2>4. Results(f, c, i, p - 1, Verdict(left))
    <3>1. p - 1 \in i..Len(f) /\ (p - 1) - i < j - i  BY <1>1, <2>3
    <3>2. ReadRight(f, c, r, i, p - 1)  BY <3>1
    <3>. QED  BY <2>3, <3>2 DEF ReadRight
  <2>5. Judges(f, c, p + 1, j, Verdict(right))
    <3>1. p + 1 \in 1..Len(f) /\ j \in p+1..Len(f) /\ j - (p + 1) < j - i  BY <1>1, <2>3
    <3>2. ReadRight(f, c, r, p + 1, j)  BY <3>1
    <3>. QED  BY <2>3, <3>2 DEF ReadRight
  <2>. HIDE DEF left, right
  <2>6. Results(f, c, i, j, Combine(f[p].kind, Verdict(left), Verdict(right)))
    <3>1. PICK a \in {"met", "unmet"} : a = Verdict(left)  BY VerdictIs
    <3>2. PICK b \in {"met", "unmet"} : b = Verdict(right)  BY VerdictIs
    <3>3. Results(f, c, i, p - 1, a) /\ Judges(f, c, p + 1, j, b)  BY <2>4, <2>5, <3>1, <3>2
    <3>4. p \in i+1..j-1 /\ f[p] \in Operators  BY <2>3
    <3>5. Results(f, c, i, j, Combine(f[p].kind, a, b))  BY <3>3, <3>4, ResultsAround
    <3>. QED  BY <3>1, <3>2, <3>5
  <2>7. Combine(f[p].kind, Verdict(left), Verdict(right)) = Verdict(v)
    <3>1. CASE f[p].kind = "OR"
      <4>1. v = (left \/ right)  BY <2>2, <3>1
      <4>2. Verdict(v) = IF Verdict(left) = "met" THEN Verdict(left) ELSE Verdict(right)
        BY <4>1 DEF Verdict
      <4>. QED  BY <3>1, <4>2 DEF Combine
    <3>2. CASE f[p].kind = "AND"
      <4>1. v = (left /\ right)  BY <2>2, <3>2
      <4>2. Verdict(v) = IF Verdict(left) = "met" THEN Verdict(right) ELSE Verdict(left)
        BY <4>1 DEF Verdict
      <4>. QED  BY <3>2, <4>2 DEF Combine
    <3>. QED  BY <2>3, <3>1, <3>2, KindsDiffer
  <2>. QED  BY <1>4, <2>6, <2>7 DEF v, s
<1>5. CASE Outer(f, i, j) = {} /\ i < j
  <2>1. v = r[<<i + 1, j - 1>>]  BY <1>2, <1>3, <1>5 DEF Reads
  <2>2. f[i] = Open /\ f[j] = Close /\ i + 1 \in i..j-1 /\ Whole(f, i + 1, j - 1)
    BY <1>1, <1>5, WholeInside
  <2>3. Results(f, c, i + 1, j - 1, Verdict(v))
    <3>1. i + 1 \in 1..Len(f) /\ j - 1 \in i+1..Len(f) /\ (j - 1) - (i + 1) < j - i
      BY <1>1, <2>2
    <3>2. ReadRight(f, c, r, i + 1, j - 1)  BY <3>1
    <3>. QED  BY <2>1, <2>2, <3>2 DEF ReadRight
  <2>4. Judges(f, c, i, j, Verdict(v))
    <3>1. j \in i+1..Len(f)  BY <1>5
    <3>. QED  BY <2>2, <2>3, <3>1, JudgesInside
  <2>. QED  BY <2>4, VerdictIs, JudgesResults DEF v, s
<1>6. CASE Outer(f, i, j) = {} /\ i = j
  <2>1. v = (f[i].n \in met)  BY <1>2, <1>3, <1>6 DEF Reads
  <2>2. f[i] \in Operands  BY <1>1, <1>6, WholeOne
  <2>3. Verdict(v) = ConditionOf(f[i].n, c)
    <3>1. f[i].n \in DOMAIN c /\ c[f[i].n] \in BOOLEAN  BY <2>2 DEF Naming
    <3>. QED  BY <2>1, <3>1 DEF Verdict, ConditionOf
  <2>4. Judges(f, c, i, j, Verdict(v))  BY <1>6, <2>2, <2>3, JudgesOne
  <2>. QED  BY <2>4, VerdictIs, JudgesResults DEF v, s
<1>. QED  BY <1>1, <1>4, <1>5, <1>6

LEMMA SpansRead ==
    ASSUME NEW f \in Seq(Tokens), NEW c, NEW r, Naming(f, c), ReadsAll(f, c, r)
    PROVE  \A i \in 1..Len(f) : \A j \in i..Len(f) : ReadRight(f, c, r, i, j)
<1>. DEFINE T == {w \in Nat : \A i \in 1..Len(f) : \A j \in i..Len(f) :
                                  j - i < w => ReadRight(f, c, r, i, j)}
<1>1. 0 \in T  OBVIOUS
<1>2. ASSUME NEW w \in Nat, w \in T PROVE w + 1 \in T
  <2>1. SUFFICES ASSUME NEW i \in 1..Len(f), NEW j \in i..Len(f), j - i < w + 1
                 PROVE  ReadRight(f, c, r, i, j)
    OBVIOUS
  <2>2. \A a \in 1..Len(f) : \A b \in a..Len(f) : b - a < j - i => ReadRight(f, c, r, a, b)
    <3>1. SUFFICES ASSUME NEW a \in 1..Len(f), NEW b \in a..Len(f), b - a < j - i
                   PROVE  ReadRight(f, c, r, a, b)
      OBVIOUS
    <3>2. b - a < w  BY <2>1, <3>1
    <3>. QED  BY <1>2, <3>2
  <2>. HIDE DEF T
  <2>. QED  BY <2>2, SpanStep
<1>3. \A w \in Nat : w \in T
  <2>. HIDE DEF T
  <2>. QED  BY <1>1, <1>2, Stepwise
<1>4. ASSUME NEW i \in 1..Len(f), NEW j \in i..Len(f) PROVE ReadRight(f, c, r, i, j)
  <2>1. (j - i) + 1 \in T  BY <1>3
  <2>. QED  BY <2>1
<1>. QED  BY <1>4

\* A whole expression is evaluated the way it reads.
LEMMA WholeReads ==
    ASSUME NEW f \in Seq(Tokens), f # <<>>, NEW c, Naming(f, c), Whole(f, 1, Len(f))
    PROVE  Results(f, c, 1, Len(f), Verdict(Reading(f, {k \in DOMAIN c : c[k] = TRUE})))
<1>. DEFINE n == Len(f)
            met == {k \in DOMAIN c : c[k] = TRUE}
<1>1. n \in Nat /\ 1 \in 1..n /\ n \in 1..n  OBVIOUS
<1>2. PICK r : /\ \A s \in Spans(n) : r[s] = Reads(f, met, r, s)
               /\ Reading(f, met) = r[<<1, n>>]
  <2>. HIDE DEF met
  <2>. QED  BY <1>1, ReadingIs
<1>3. ReadsAll(f, c, r)  BY <1>2 DEF ReadsAll
<1>4. ReadRight(f, c, r, 1, n)  BY <1>1, <1>3, SpansRead
<1>. QED  BY <1>2, <1>4 DEF ReadRight

(* ------------------- The parser beside the evaluator --------------------- *)

LEMMA ParsedConcat ==
    ASSUME NEW U, NEW s \in Seq(U), NEW t \in Seq(U), NEW p
    PROVE  Parsed(p, s \o t) = Parsed(Parsed(p, s), t)
<1>. DEFINE T == {r \in Seq(U) : Parsed(p, s \o r) = Parsed(Parsed(p, s), r)}
<1>1. <<>> \in T
  <2>1. s \o <<>> = s  OBVIOUS
  <2>. QED  BY <2>1, ParsedNone
<1>2. ASSUME NEW r \in Seq(U), NEW x \in U, r \in T PROVE Append(r, x) \in T
  <2>1. PICK q : q = s \o r  OBVIOUS
  <2>2. q \in Seq(U) /\ s \o Append(r, x) = Append(q, x)  BY <2>1
  <2>3. Parsed(p, Append(q, x)) = ParseToken(Parsed(p, q), x)  BY <2>2, ParsedAppend
  <2>4. Parsed(Parsed(p, s), Append(r, x)) = ParseToken(Parsed(Parsed(p, s), r), x)
    BY ParsedAppend
  <2>5. Append(r, x) \in Seq(U)  OBVIOUS
  <2>6. Parsed(p, s \o Append(r, x)) = Parsed(Parsed(p, s), Append(r, x))
    BY <1>2, <2>1, <2>2, <2>3, <2>4
  <2>. QED  BY <2>5, <2>6
<1>3. t \in T
  <2>. HIDE DEF T
  <2>. QED  BY <1>1, <1>2, Appending
<1>. QED  BY <1>3

Calls == [parsed : Seq(Tokens), waiting : Seq(Tokens), groups : Nat]
\* What a call has parsed takes a new loop to l.
Reaches(call, l, c) ==
    /\ call \in Calls /\ call.groups \in {0, 1} /\ l \in Loops
    /\ \A o \in Seq(Loops) :
           Evaluated(Evaluator(NewLoop, o), Flushed(call), c) = Evaluator(l, o)
Fresh(call) == call.waiting = <<>> /\ call.groups = 0
\* Each call of the parser has reached the loop of the same depth.
Parallel(p, e, c) ==
    /\ p.ended = FALSE /\ Reaches(p.call, e.loop, c)
    /\ p.callers \in Seq(Calls) /\ e.outer \in Seq(Loops) /\ Len(e.outer) = Len(p.callers)
    /\ \A k \in 1..Len(p.callers) : Reaches(p.callers[k], e.outer[k], c) /\ Fresh(p.callers[k])

LEMMA JudgingLoop ==
    ASSUME NEW l \in Loops, NEW v \in Verdicts
    PROVE  Judging(l, v) \in Loops
  BY DEF Judging, Loop, Loops, Verdicts, Combine

LEMMA FlushedIs ==
    ASSUME NEW call \in Calls, call.groups \in {0, 1}
    PROVE  /\ Flushed(call) = call.parsed \o call.waiting
           /\ Flushed(call) \in Seq(Tokens)
           /\ Fresh(call) => Flushed(call) = call.parsed
  BY DEF Calls, Flushed, Fresh

LEMMA FreshCallIs ==
    ASSUME NEW r \in Seq(Tokens)
    PROVE  /\ Call(r, <<>>, 0) \in Calls /\ Call(r, <<>>, 0).groups = 0
           /\ Fresh(Call(r, <<>>, 0)) /\ Flushed(Call(r, <<>>, 0)) = r
<1>1. PICK z \in Seq(Tokens) : z = <<>> /\ r \o z = r
  <2>1. <<>> \in Seq(Tokens) /\ r \o <<>> = r  OBVIOUS
  <2>. QED  BY <2>1
<1>2. PICK call : call = [parsed |-> r, waiting |-> z, groups |-> 0]  OBVIOUS
<1>3. call.parsed = r /\ call.waiting = z /\ call.groups = 0 /\ call \in Calls
  BY <1>2 DEF Calls
<1>4. Flushed(call) = r /\ Fresh(call)  BY <1>1, <1>3 DEF Flushed, Fresh
<1>5. call = Call(r, <<>>, 0)  BY <1>1, <1>2 DEF Call
<1>. QED  BY <1>3, <1>4, <1>5

LEMMA CallingInParallel ==
    ASSUME NEW p, NEW e, NEW c, Parallel(p, e, c), Fresh(p.call)
    PROVE  /\ Parallel(Calling(p), EvaluateItem(e, Open, c), c) /\ Fresh(Calling(p).call)
           /\ Len(Calling(p).callers) = Len(p.callers) + 1
<1>. DEFINE callers == Append(p.callers, p.call)
            outer == Append(e.outer, e.loop)
<1>1. /\ Reaches(p.call, e.loop, c) /\ p.callers \in Seq(Calls) /\ e.outer \in Seq(Loops)
      /\ Len(e.outer) = Len(p.callers) /\ p.ended = FALSE
      /\ \A k \in 1..Len(p.callers) : Reaches(p.callers[k], e.outer[k], c) /\ Fresh(p.callers[k])
  BY DEF Parallel
<1>2. p.call \in Calls /\ e.loop \in Loops  BY <1>1 DEF Reaches
<1>3. /\ callers \in Seq(Calls) /\ outer \in Seq(Loops)
      /\ Len(callers) = Len(p.callers) + 1 /\ Len(outer) = Len(callers)
      /\ \A k \in 1..Len(p.callers) : callers[k] = p.callers[k] /\ outer[k] = e.outer[k]
      /\ callers[Len(p.callers) + 1] = p.call /\ outer[Len(p.callers) + 1] = e.loop
  BY <1>1, <1>2
<1>4. Calling(p) = Parser(NewCall, callers, FALSE)  BY <1>1 DEF Calling
<1>5. EvaluateItem(e, Open, c) = Evaluator(NewLoop, outer)  BY KindsDiffer DEF EvaluateItem
<1>6. NewCall \in Calls /\ NewCall.groups = 0 /\ NewCall.waiting = <<>> /\ Flushed(NewCall) = <<>>
  BY DEF NewCall, Call, Calls, Flushed
<1>7. Reaches(NewCall, NewLoop, c)  BY <1>6, LoopIs, EvaluatedNone DEF Reaches
<1>8. Fresh(NewCall)  BY <1>6 DEF Fresh
<1>. HIDE DEF callers, outer
<1>9. ASSUME NEW k \in 1..Len(callers) PROVE Reaches(callers[k], outer[k], c) /\ Fresh(callers[k])
  <2>1. Len(p.callers) \in Nat  BY <1>1
  <2>2. CASE k \in 1..Len(p.callers)  BY <1>1, <1>3, <2>2
  <2>3. CASE k = Len(p.callers) + 1  BY <1>1, <1>3, <2>3
  <2>. QED  BY <1>3, <2>1, <2>2, <2>3
<1>10. Parallel(Parser(NewCall, callers, FALSE), Evaluator(NewLoop, outer), c)
  BY <1>3, <1>7, <1>9 DEF Parallel, Parser, Evaluator
<1>11. Parser(NewCall, callers, FALSE).call = NewCall /\ Parser(NewCall, callers, FALSE).callers = callers
  BY DEF Parser
<1>. QED  BY <1>3, <1>4, <1>5, <1>8, <1>10, <1>11

LEMMA OperatorInParallel ==
    ASSUME NEW p, NEW e, NEW c, Parallel(p, e, c), NEW t \in Operators
    PROVE  /\ Parallel(ParsingOperator(p, t), EvaluateItem(e, t, c), c)
           /\ Fresh(ParsingOperator(p, t).call)
           /\ Len(ParsingOperator(p, t).callers) = Len(p.callers)
<1>1. /\ Reaches(p.call, e.loop, c) /\ p.callers \in Seq(Calls) /\ e.outer \in Seq(Loops)
      /\ Len(e.outer) = Len(p.callers) /\ p.ended = FALSE
      /\ \A k \in 1..Len(p.callers) : Reaches(p.callers[k], e.outer[k], c) /\ Fresh(p.callers[k])
  BY DEF Parallel
<1>. DEFINE s == Flushed(p.call)
            call == Call(Append(s, t), <<>>, 0)
            l == Loop(e.loop.result, t.kind)
<1>2. s \in Seq(Tokens) /\ t \in Tokens  BY <1>1, FlushedIs DEF Reaches, Tokens
<1>3. \A o \in Seq(Loops) : Evaluated(Evaluator(NewLoop, o), s, c) = Evaluator(e.loop, o)
  BY <1>1 DEF Reaches
<1>. HIDE DEF s
<1>4. l \in Loops  BY <1>1, KindsDiffer DEF Reaches, Loops, Loop
<1>5. \A x : EvaluateItem(Evaluator(e.loop, x), t, c) = Evaluator(l, x)
  BY KindsDiffer DEF EvaluateItem, Evaluator
<1>6. EvaluateItem(e, t, c) = Evaluator(l, e.outer)
  BY KindsDiffer DEF EvaluateItem
<1>. HIDE DEF l
<1>7. call \in Calls /\ call.groups = 0 /\ Fresh(call) /\ Flushed(call) = Append(s, t)
  <2>1. Append(s, t) \in Seq(Tokens)
    <3>1. s \in Seq(Tokens) /\ t \in Tokens  BY <1>2
    <3>. HIDE DEF call
    <3>. QED  BY <3>1
  <2>2. PICK r \in Seq(Tokens) : r = Append(s, t)
    <3>. HIDE DEF call
    <3>. QED  BY <2>1
  <2>. QED  BY <2>2, FreshCallIs
<1>8. ParsingOperator(p, t) = Parser(call, p.callers, FALSE)
  BY <1>1 DEF ParsingOperator, s
<1>. HIDE DEF call
<1>9. \A o \in Seq(Loops) : Evaluated(Evaluator(NewLoop, o), Append(s, t), c) = Evaluator(l, o)
  <2>1. ASSUME NEW o \in Seq(Loops)
        PROVE  Evaluated(Evaluator(NewLoop, o), Append(s, t), c) = Evaluator(l, o)
    <3>1. Evaluated(Evaluator(NewLoop, o), Append(s, t), c)
            = EvaluateItem(Evaluated(Evaluator(NewLoop, o), s, c), t, c)
      BY <1>2, EvaluatedAppend
    <3>. QED  BY <1>3, <1>5, <3>1
  <2>. QED  BY <2>1
<1>10. Reaches(call, l, c)  BY <1>4, <1>7, <1>9 DEF Reaches
<1>11. Fresh(call)  BY <1>7
<1>12. Parallel(Parser(call, p.callers, FALSE), Evaluator(l, e.outer), c)
  BY <1>1, <1>10 DEF Parallel, Parser, Evaluator
<1>13. Parser(call, p.callers, FALSE).call = call /\ Parser(call, p.callers, FALSE).callers = p.callers
  BY DEF Parser
<1>. QED  BY <1>6, <1>8, <1>11, <1>12, <1>13

LEMMA OperandInParallel ==
    ASSUME NEW p, NEW e, NEW c, Parallel(p, e, c), Fresh(p.call), NEW t \in Operands
    PROVE  /\ Parallel(ParsingOperand(p, t), EvaluateItem(e, t, c), c)
           /\ Len(ParsingOperand(p, t).callers) = Len(p.callers)
<1>1. /\ Reaches(p.call, e.loop, c) /\ p.callers \in Seq(Calls) /\ e.outer \in Seq(Loops)
      /\ Len(e.outer) = Len(p.callers) /\ p.ended = FALSE
      /\ \A k \in 1..Len(p.callers) : Reaches(p.callers[k], e.outer[k], c) /\ Fresh(p.callers[k])
  BY DEF Parallel
<1>. DEFINE s == p.call.parsed
            call == Call(Append(s, t), <<>>, 0)
            l == Judging(e.loop, ConditionOf(t.n, c))
<1>2. s \in Seq(Tokens) /\ t \in Tokens /\ s = Flushed(p.call)
  BY <1>1, FlushedIs DEF Reaches, Calls, Tokens
<1>3. \A o \in Seq(Loops) : Evaluated(Evaluator(NewLoop, o), s, c) = Evaluator(e.loop, o)
  BY <1>1, <1>2 DEF Reaches
<1>8. ParsingOperand(p, t) = Parser(call, p.callers, FALSE)
  BY <1>1 DEF ParsingOperand, Fresh
<1>. HIDE DEF s
<1>4. l \in Loops
  <2>1. ConditionOf(t.n, c) \in Verdicts  BY DEF ConditionOf, Verdict, Verdicts
  <2>2. e.loop \in Loops  BY <1>1 DEF Reaches
  <2>. QED  BY <2>1, <2>2, JudgingLoop
<1>5. \A x : EvaluateItem(Evaluator(e.loop, x), t, c) = Evaluator(l, x)
  BY KindsDiffer DEF EvaluateItem, Evaluator
<1>6. EvaluateItem(e, t, c) = Evaluator(l, e.outer)
  BY KindsDiffer DEF EvaluateItem
<1>. HIDE DEF l
<1>7. call \in Calls /\ call.groups = 0 /\ Fresh(call) /\ Flushed(call) = Append(s, t)
  <2>1. Append(s, t) \in Seq(Tokens)
    <3>1. s \in Seq(Tokens) /\ t \in Tokens  BY <1>2
    <3>. HIDE DEF call
    <3>. QED  BY <3>1
  <2>2. PICK r \in Seq(Tokens) : r = Append(s, t)
    <3>. HIDE DEF call
    <3>. QED  BY <2>1
  <2>. QED  BY <2>2, FreshCallIs
<1>. HIDE DEF call
<1>9. \A o \in Seq(Loops) : Evaluated(Evaluator(NewLoop, o), Append(s, t), c) = Evaluator(l, o)
  <2>1. ASSUME NEW o \in Seq(Loops)
        PROVE  Evaluated(Evaluator(NewLoop, o), Append(s, t), c) = Evaluator(l, o)
    <3>1. Evaluated(Evaluator(NewLoop, o), Append(s, t), c)
            = EvaluateItem(Evaluated(Evaluator(NewLoop, o), s, c), t, c)
      BY <1>2, EvaluatedAppend
    <3>. QED  BY <1>3, <1>5, <3>1
  <2>. QED  BY <2>1
<1>10. Reaches(call, l, c)  BY <1>4, <1>7, <1>9 DEF Reaches
<1>12. Parallel(Parser(call, p.callers, FALSE), Evaluator(l, e.outer), c)
  BY <1>1, <1>10 DEF Parallel, Parser, Evaluator
<1>13. Parser(call, p.callers, FALSE).call = call /\ Parser(call, p.callers, FALSE).callers = p.callers
  BY DEF Parser
<1>. QED  BY <1>6, <1>8, <1>12, <1>13

\* A closing parenthesis ends a call and a loop.
LEMMA ReturningInParallel ==
    ASSUME NEW p, NEW e, NEW c, Parallel(p, e, c), p.callers # <<>>
    PROVE  /\ Parallel(Returning(p), EvaluateItem(e, Close, c), c)
           /\ Len(Returning(p).callers) = Len(p.callers) - 1
<1>1. /\ Reaches(p.call, e.loop, c) /\ p.callers \in Seq(Calls) /\ e.outer \in Seq(Loops)
      /\ Len(e.outer) = Len(p.callers) /\ p.ended = FALSE
      /\ \A k \in 1..Len(p.callers) : Reaches(p.callers[k], e.outer[k], c) /\ Fresh(p.callers[k])
  BY DEF Parallel
<1>. DEFINE n == Len(p.callers)
            callers == Front(p.callers)
            outer == Front(e.outer)
<1>2. n \in Nat /\ n # 0 /\ n \in 1..n  BY <1>1
<1>3. /\ callers \in Seq(Calls) /\ Len(callers) = n - 1
      /\ \A k \in 1..n-1 : callers[k] = p.callers[k]
  BY <1>1, <1>2 DEF Front
<1>4. /\ outer \in Seq(Loops) /\ Len(outer) = n - 1
      /\ \A k \in 1..n-1 : outer[k] = e.outer[k]
  BY <1>1, <1>2 DEF Front
<1>5. PICK caller \in Calls : caller = Last(p.callers) /\ caller = p.callers[n]
  BY <1>1, <1>2 DEF Last
<1>6. PICK m \in Loops : m = Last(e.outer) /\ m = e.outer[n]
  BY <1>1, <1>2 DEF Last
<1>7. Reaches(caller, m, c) /\ Fresh(caller)  BY <1>1, <1>2, <1>5, <1>6
<1>8. PICK x : x = Flushed(p.call)  OBVIOUS
<1>9. x \in Seq(Tokens)  BY <1>1, <1>8, FlushedIs DEF Reaches
<1>10. PICK g : g = Group(x)  OBVIOUS
<1>. DEFINE l == Judging(m, e.loop.result)
<1>11. /\ g \in Seq(Tokens)
       /\ \A o \in Seq(Loops) : Evaluated(Evaluator(m, o), g, c) = Evaluator(l, o)
  <2>1. e.loop \in Loops  BY <1>1 DEF Reaches
  <2>2. \A o \in Seq(Loops) : Evaluated(Evaluator(NewLoop, o), x, c) = Evaluator(e.loop, o)
    BY <1>1, <1>8 DEF Reaches
  <2>3. PICK r \in Loops : r = e.loop  BY <2>1
  <2>. QED  BY <1>9, <1>10, <2>2, <2>3, GroupIs
<1>12. l \in Loops
  <2>1. e.loop.result \in Verdicts  BY <1>1 DEF Reaches, Loops
  <2>. QED  BY <2>1, JudgingLoop
<1>13. PICK s \in Seq(Tokens) : s = caller.parsed  BY DEF Calls
<1>14. \A o \in Seq(Loops) : Evaluated(Evaluator(NewLoop, o), s, c) = Evaluator(m, o)
  BY <1>7, <1>13, FlushedIs DEF Reaches
<1>. DEFINE back == Call(s, g, 1)
<1>15. back \in Calls /\ back.groups = 1 /\ Flushed(back) = s \o g
  BY <1>11 DEF Call, Calls, Flushed
<1>16. Returning(p) = Parser(back, callers, FALSE)
  <2>1. caller.waiting \o g = g /\ caller.groups + 1 = 1  BY <1>7, <1>11 DEF Fresh
  <2>. HIDE DEF callers
  <2>2. Returning(p) = Parser(Call(caller.parsed, caller.waiting \o g, caller.groups + 1), Front(p.callers), FALSE)
    BY <1>1, <1>5, <1>8, <1>10 DEF Returning
  <2>. QED  BY <1>13, <2>1, <2>2 DEF callers
<1>17. EvaluateItem(e, Close, c) = Evaluator(l, outer)
  BY <1>6, KindsDiffer DEF EvaluateItem
<1>. HIDE DEF back, l, callers, outer
<1>18. Reaches(back, l, c)
  <2>1. ASSUME NEW o \in Seq(Loops)
        PROVE  Evaluated(Evaluator(NewLoop, o), s \o g, c) = Evaluator(l, o)
    <3>1. Evaluated(Evaluator(NewLoop, o), s \o g, c) = Evaluated(Evaluated(Evaluator(NewLoop, o), s, c), g, c)
      BY <1>11, EvaluatedConcat
    <3>. QED  BY <1>11, <1>14, <3>1
  <2>. QED  BY <1>12, <1>15, <2>1 DEF Reaches
<1>19. \A k \in 1..Len(callers) : Reaches(callers[k], outer[k], c) /\ Fresh(callers[k])
  BY <1>1, <1>2, <1>3, <1>4
<1>20. Parallel(Parser(back, callers, FALSE), Evaluator(l, outer), c)
  BY <1>3, <1>4, <1>18, <1>19 DEF Parallel, Parser, Evaluator
<1>21. Parser(back, callers, FALSE).callers = callers  BY DEF Parser
<1>. QED  BY <1>3, <1>16, <1>17, <1>20, <1>21

\* How many groups are open, and whether an operand has to come.
Level(s) == Balance(s, 1, Len(s))
Awaits(s) == s = <<>> \/ ~Ends(s[Len(s)])
\* After s, the parser has a call for each loop of the evaluator.
Beside(s, c) ==
    LET p == Parsed(NewParser, s)
    IN  /\ Parallel(p, Evaluated(Evaluator(NewLoop, <<>>), s, c), c)
        /\ Len(p.callers) = Level(s)
        /\ Awaits(s) => Fresh(p.call)

\* A token that may follow, in the parser and the evaluator.
LEMMA TokenInParallel ==
    ASSUME NEW p, NEW e, NEW c, Parallel(p, e, c), NEW t \in Tokens,
           Starts(t) => Fresh(p.call), t = Close => p.callers # <<>>
    PROVE  /\ Parallel(ParseToken(p, t), EvaluateItem(e, t, c), c)
           /\ Len(ParseToken(p, t).callers) = Len(p.callers) + Weight(t)
           /\ ~Ends(t) => Fresh(ParseToken(p, t).call)
<1>1. p.ended = FALSE /\ Len(p.callers) \in Nat  BY DEF Parallel
<1>2. CASE t = Open
  <2>1. ParseToken(p, t) = Calling(p)  BY <1>1, <1>2, KindsDiffer DEF ParseToken
  <2>2. Fresh(p.call)  BY <1>2 DEF Starts
  <2>3. /\ Parallel(Calling(p), EvaluateItem(e, Open, c), c) /\ Fresh(Calling(p).call)
        /\ Len(Calling(p).callers) = Len(p.callers) + 1
    BY <2>2, CallingInParallel
  <2>. QED  BY <1>1, <1>2, <2>1, <2>3, WeightIs
<1>3. CASE t = Close
  <2>1. ParseToken(p, t) = Returning(p)  BY <1>1, <1>3, KindsDiffer DEF ParseToken
  <2>2. /\ Parallel(Returning(p), EvaluateItem(e, Close, c), c)
        /\ Len(Returning(p).callers) = Len(p.callers) - 1
    BY <1>3, ReturningInParallel
  <2>. QED  BY <1>1, <1>3, <2>1, <2>2, WeightIs DEF Ends
<1>4. CASE t \in Operators
  <2>1. ParseToken(p, t) = ParsingOperator(p, t)  BY <1>1, <1>4, KindsDiffer DEF ParseToken
  <2>2. Weight(t) = 0  BY <1>4, WeightIs
  <2>3. /\ Parallel(ParsingOperator(p, t), EvaluateItem(e, t, c), c)
        /\ Fresh(ParsingOperator(p, t).call)
        /\ Len(ParsingOperator(p, t).callers) = Len(p.callers)
    BY <1>4, OperatorInParallel
  <2>. QED  BY <1>1, <2>1, <2>2, <2>3
<1>5. CASE t \in Operands
  <2>1. ParseToken(p, t) = ParsingOperand(p, t)  BY <1>1, <1>5, KindsDiffer DEF ParseToken
  <2>2. Weight(t) = 0 /\ Fresh(p.call) /\ Ends(t)  BY <1>5, WeightIs DEF Starts, Ends
  <2>3. /\ Parallel(ParsingOperand(p, t), EvaluateItem(e, t, c), c)
        /\ Len(ParsingOperand(p, t).callers) = Len(p.callers)
    BY <1>5, <2>2, OperandInParallel
  <2>. QED  BY <1>1, <2>1, <2>2, <2>3
<1>. QED  BY <1>2, <1>3, <1>4, <1>5 DEF Tokens

LEMMA AppendIs ==
    ASSUME NEW U, NEW s \in Seq(U), NEW t \in U
    PROVE  /\ Append(s, t) \in Seq(U) /\ Len(Append(s, t)) = Len(s) + 1 /\ Append(s, t) # <<>>
           /\ \A k \in 1..Len(s) : Append(s, t)[k] = s[k]
           /\ Append(s, t)[Len(s) + 1] = t
  OBVIOUS

LEMMA ViableBefore ==
    ASSUME NEW s \in Seq(Tokens), NEW t \in Tokens, Viable(Append(s, t)), NoSurplus(Append(s, t))
    PROVE  /\ Viable(s) /\ NoSurplus(s)
           /\ Starts(t) => Awaits(s)
           /\ Level(Append(s, t)) = Level(s) + Weight(t)
           /\ Level(s) \in Int /\ Level(Append(s, t)) >= 0
<1>. DEFINE n == Len(s)
<1>1. PICK r : r = Append(s, t)  OBVIOUS
<1>2. /\ r \in Seq(Tokens) /\ Len(r) = n + 1 /\ r # <<>> /\ n \in Nat
      /\ \A k \in 1..n : r[k] = s[k]
      /\ r[n + 1] = t
  BY <1>1, AppendIs
<1>3. Viable(r) /\ NoSurplus(r)  BY <1>1
<1>4. Viable(s)
  <2>1. s # <<>> => Starts(s[1])  BY <1>2, <1>3 DEF Viable
  <2>2. ASSUME NEW i \in 1..n-1 PROVE Follows(s[i], s[i+1])
    <3>1. i \in 1..n /\ i + 1 \in 1..n /\ i \in 1..Len(r)-1  BY <1>2
    <3>2. Follows(r[i], r[i+1])  BY <1>3, <3>1 DEF Viable
    <3>. QED  BY <1>2, <3>1, <3>2
  <2>. QED  BY <2>1, <2>2 DEF Viable
<1>5. \A i \in 0..n : Balance(s, 1, i) = Balance(r, 1, i)
  <2>1. ASSUME NEW i \in 0..n PROVE Balance(s, 1, i) = Balance(r, 1, i)
    <3>1. \A k \in 1..i : s[k] = r[k]  BY <1>2
    <3>2. PICK m \in Nat : m = i  BY <1>2
    <3>3. \A k \in 1..m : s[k] = r[k]  BY <3>1, <3>2
    <3>4. 1 \in Nat  OBVIOUS
    <3>5. Balance(s, 1, m) = Balance(r, 1, m)
      <4>. HIDE DEF n
      <4>. QED  BY <3>3, <3>4, BalanceSame
    <3>. QED  BY <3>2, <3>5
  <2>. QED  BY <2>1
<1>6. NoSurplus(s)
  <2>1. ASSUME NEW i \in 1..n PROVE Balance(s, 1, i) >= 0
    <3>1. i \in 0..n /\ i \in 1..Len(r)  BY <1>2
    <3>. QED  BY <1>3, <1>5, <3>1 DEF NoSurplus
  <2>. QED  BY <2>1 DEF NoSurplus
<1>7. Starts(t) => Awaits(s)
  <2>1. SUFFICES ASSUME Starts(t), s # <<>>, Ends(s[n]) PROVE FALSE  BY DEF Awaits
  <2>2. n \in 1..Len(r)-1 /\ n \in 1..n  BY <1>2, <2>1
  <2>3. Follows(s[n], t)  BY <1>2, <1>3, <2>2 DEF Viable
  <2>4. s[n] \in Tokens  BY <2>2
  <2>5. t = Close \/ t \in Operators  BY <2>1, <2>3, <2>4, FollowsIs
  <2>. QED  BY <2>1, <2>5, KindsDiffer DEF Starts
<1>8. Level(r) = Level(s) + Weight(t) /\ Level(s) \in Int
  <2>1. CASE n = 0
    <3>1. Balance(r, 1, 1) = Weight(r[1])  BY BalanceOne
    <3>2. Balance(s, 0 + 1, 0) = 0  BY BalanceEmpty
    <3>3. Weight(t) \in Int  BY WeightIs
    <3>4. Level(r) = Weight(t)  BY <1>2, <2>1, <3>1 DEF Level
    <3>5. Level(s) = 0  BY <2>1, <3>2 DEF Level
    <3>. QED  BY <3>3, <3>4, <3>5
  <2>2. CASE n # 0
    <3>1. Balance(r, 1, n + 1) = Balance(r, 1, n) + Weight(r[n + 1])
      <4>1. PICK m \in Nat : m = n /\ 1 <= m  BY <1>2, <2>2
      <4>. QED  BY <4>1, BalanceStep
    <3>2. Balance(s, 1, n) = Balance(r, 1, n)  BY <1>2, <1>5
    <3>3. Balance(s, 1, n) \in Int  BY <1>2, BalanceType
    <3>. QED  BY <1>2, <3>1, <3>2, <3>3 DEF Level
  <2>. QED  BY <2>1, <2>2
<1>9. Level(r) >= 0
  <2>1. n + 1 \in 1..Len(r)  BY <1>2
  <2>. QED  BY <1>2, <1>3, <2>1 DEF NoSurplus, Level
<1>. QED  BY <1>1, <1>4, <1>6, <1>7, <1>8, <1>9

LEMMA StartIsBeside == ASSUME NEW c PROVE Beside(<<>>, c)
<1>. DEFINE p == Parsed(NewParser, <<>>)
            e == Evaluated(Evaluator(NewLoop, <<>>), <<>>, c)
<1>1. p = Parser(NewCall, <<>>, FALSE)  BY ParsedNone DEF NewParser
<1>2. e = Evaluator(NewLoop, <<>>)  BY EvaluatedNone
<1>. HIDE DEF p, e
<1>3. <<>> \in Seq(Tokens)  OBVIOUS
<1>4. NewCall \in Calls /\ NewCall.groups = 0 /\ Fresh(NewCall) /\ Flushed(NewCall) = <<>>
  BY <1>3, FreshCallIs DEF NewCall
<1>5. Reaches(NewCall, NewLoop, c)  BY <1>4, LoopIs, EvaluatedNone DEF Reaches
<1>6. p.call = NewCall /\ p.callers = <<>> /\ p.ended = FALSE  BY <1>1 DEF Parser
<1>7. e.loop = NewLoop /\ e.outer = <<>>  BY <1>2 DEF Evaluator
<1>8. <<>> \in Seq(Calls) /\ <<>> \in Seq(Loops) /\ Len(<<>>) = 0  OBVIOUS
<1>9. Parallel(p, e, c)  BY <1>5, <1>6, <1>7, <1>8 DEF Parallel
<1>10. Level(<<>>) = 0
  <2>1. Balance(<<>>, 0 + 1, 0) = 0  BY BalanceEmpty
  <2>. QED  BY <1>8, <2>1 DEF Level
<1>. QED  BY <1>4, <1>6, <1>8, <1>9, <1>10 DEF Beside, p, e

LEMMA ParsedBeside ==
    ASSUME NEW c, NEW f \in Seq(Tokens), Viable(f), NoSurplus(f)
    PROVE  Beside(f, c)
<1>. DEFINE T == {s \in Seq(Tokens) : Viable(s) /\ NoSurplus(s) => Beside(s, c)}
<1>1. <<>> \in T
  <2>1. <<>> \in Seq(Tokens)  OBVIOUS
  <2>. QED  BY <2>1, StartIsBeside
<1>2. ASSUME NEW s \in Seq(Tokens), NEW t \in Tokens, s \in T PROVE Append(s, t) \in T
  <2>1. Append(s, t) \in Seq(Tokens)  OBVIOUS
  <2>2. SUFFICES ASSUME Viable(Append(s, t)), NoSurplus(Append(s, t)) PROVE Beside(Append(s, t), c)
    BY <2>1
  <2>3. /\ Viable(s) /\ NoSurplus(s) /\ (Starts(t) => Awaits(s))
        /\ Level(Append(s, t)) = Level(s) + Weight(t) /\ Level(s) \in Int /\ Level(Append(s, t)) >= 0
    BY <2>2, ViableBefore
  <2>4. Beside(s, c)  BY <1>2, <2>3
  <2>5. PICK p : p = Parsed(NewParser, s)  OBVIOUS
  <2>6. PICK e : e = Evaluated(Evaluator(NewLoop, <<>>), s, c)  OBVIOUS
  <2>7. Parallel(p, e, c) /\ Len(p.callers) = Level(s) /\ (Awaits(s) => Fresh(p.call))
    BY <2>4, <2>5, <2>6 DEF Beside
  <2>8. t = Close => p.callers # <<>>
    <3>1. SUFFICES ASSUME t = Close, p.callers = <<>> PROVE FALSE  OBVIOUS
    <3>2. Len(p.callers) = 0  BY <3>1
    <3>. QED  BY <2>3, <2>7, <3>1, <3>2, WeightIs
  <2>9. /\ Parallel(ParseToken(p, t), EvaluateItem(e, t, c), c)
        /\ Len(ParseToken(p, t).callers) = Len(p.callers) + Weight(t)
        /\ ~Ends(t) => Fresh(ParseToken(p, t).call)
    BY <2>3, <2>7, <2>8, TokenInParallel
  <2>10. Parsed(NewParser, Append(s, t)) = ParseToken(p, t)  BY <2>5, ParsedAppend
  <2>11. Evaluated(Evaluator(NewLoop, <<>>), Append(s, t), c) = EvaluateItem(e, t, c)
    BY <2>6, EvaluatedAppend
  <2>12. Awaits(Append(s, t)) => ~Ends(t)
    BY AppendIs DEF Awaits
  <2>. QED  BY <2>3, <2>7, <2>9, <2>10, <2>11, <2>12 DEF Beside
<1>3. f \in T
  <2>. HIDE DEF T
  <2>. QED  BY <1>1, <1>2, Appending
<1>. QED  BY <1>3

\* What Closed adds, and that it makes the expression whole.
LEMMA ClosedIs ==
    ASSUME NEW s \in Seq(Tokens), Matches(s), NoSurplus(s), NEW m, m = Level(s)
    PROVE  /\ m \in Nat /\ [i \in 1..m |-> Close] \in Seq(Tokens)
           /\ Closed(s) = s \o [i \in 1..m |-> Close]
           /\ Closed(s) \in Seq(Tokens) /\ Len(Closed(s)) = Len(s) + m
           /\ \A k \in 1..Len(s) : Closed(s)[k] = s[k]
           /\ \A k \in 1..m : Closed(s)[Len(s) + k] = Close
<1>1. Len(s) \in 1..Len(s)
  <2>1. s # <<>>  BY DEF Matches
  <2>. QED  BY <2>1
<1>2. m \in Nat
  <2>1. Level(s) >= 0  BY <1>1 DEF NoSurplus, Level
  <2>2. 1 \in Nat /\ Len(s) \in Nat  OBVIOUS
  <2>3. Level(s) \in Int  BY <2>2, BalanceType DEF Level
  <2>. QED  BY <2>1, <2>3
<1>3. PICK z \in Tokens : z = Close  BY DEF Tokens
<1>4. PICK tail : tail = [i \in 1..m |-> z]  OBVIOUS
<1>5. tail \in Seq(Tokens) /\ Len(tail) = m /\ \A k \in 1..m : tail[k] = z  BY <1>2, <1>4
<1>6. Closed(s) = s \o tail  BY <1>3, <1>4 DEF Closed, Level
<1>. QED  BY <1>2, <1>3, <1>4, <1>5, <1>6, ConcatIs

LEMMA ClosedIsWhole ==
    ASSUME NEW s \in Seq(Tokens), Matches(s), NoSurplus(s), NEW f \in Seq(Tokens), f = Closed(s)
    PROVE  /\ f # <<>> /\ Viable(f) /\ NoSurplus(f) /\ Level(f) = 0 /\ Whole(f, 1, Len(f))
<1>1. PICK n \in Nat : n = Len(s) /\ n >= 1
  <2>1. s # <<>>  BY DEF Matches
  <2>. QED  BY <2>1
<1>2. PICK m \in Nat : m = Level(s)  BY ClosedIs
<1>3. /\ Len(f) = n + m
      /\ \A k \in 1..n : f[k] = s[k]
      /\ \A k \in 1..m : f[n + k] = Close
  BY <1>1, <1>2, ClosedIs
<1>4. \A k \in 1..n+m : f[k] \in Tokens  BY <1>3
<1>5. \A i \in 1..n : Balance(f, 1, i) = Balance(s, 1, i)
  <2>1. ASSUME NEW i \in 1..n PROVE Balance(f, 1, i) = Balance(s, 1, i)
    <3>1. PICK h \in Nat : h = i  OBVIOUS
    <3>2. \A k \in 1..h : f[k] = s[k]  BY <1>3, <3>1
    <3>3. 1 \in Nat  OBVIOUS
    <3>4. Balance(f, 1, h) = Balance(s, 1, h)  BY <3>2, <3>3, BalanceSame
    <3>. QED  BY <3>1, <3>4
  <2>. QED  BY <2>1
<1>6. Balance(f, 1, n) = m  BY <1>1, <1>2, <1>5 DEF Level
<1>7. \A h \in 0..m : Balance(f, 1, n + h) = m - h
  <2>. DEFINE T == {h \in Nat : h <= m => Balance(f, 1, n + h) = m - h}
  <2>1. 0 \in T
    <3>1. n + 0 = n  OBVIOUS
    <3>. QED  BY <1>6, <3>1
  <2>2. ASSUME NEW h \in Nat, h \in T PROVE h + 1 \in T
    <3>1. SUFFICES ASSUME h + 1 <= m PROVE Balance(f, 1, n + (h + 1)) = m - (h + 1)  OBVIOUS
    <3>2. Balance(f, 1, n + h) = m - h  BY <2>2, <3>1
    <3>3. PICK q \in Nat : q = n + h /\ 1 <= q /\ q + 1 = n + (h + 1)  BY <1>1
    <3>4. Balance(f, 1, q + 1) = Balance(f, 1, q) + Weight(f[q + 1])  BY <3>3, BalanceStep
    <3>5. f[q + 1] = Close
      <4>1. h + 1 \in 1..m  BY <3>1
      <4>. QED  BY <1>3, <3>3, <4>1
    <3>. QED  BY <3>2, <3>3, <3>4, <3>5, WeightIs
  <2>3. \A h \in Nat : h \in T
    <3>. HIDE DEF T
    <3>. QED  BY <2>1, <2>2, Stepwise
  <2>. QED  BY <2>3
<1>8. \A i \in 1..n+m : Balance(f, 1, i) >= 0
  <2>1. ASSUME NEW i \in 1..n+m PROVE Balance(f, 1, i) >= 0
    <3>1. CASE i <= n
      <4>1. i \in 1..n  BY <3>1
      <4>2. Balance(s, 1, i) >= 0  BY <1>1, <4>1 DEF NoSurplus
      <4>. QED  BY <1>5, <4>1, <4>2
    <3>2. CASE i > n
      <4>1. i - n \in 0..m /\ n + (i - n) = i  BY <3>2
      <4>2. Balance(f, 1, n + (i - n)) = m - (i - n)  BY <1>7, <4>1
      <4>. QED  BY <4>1, <4>2
    <3>. QED  BY <3>1, <3>2
  <2>. QED  BY <2>1
<1>9. Balance(f, 1, n + m) = 0
  <2>1. m \in 0..m  OBVIOUS
  <2>2. Balance(f, 1, n + m) = m - m  BY <1>7, <2>1
  <2>. QED  BY <2>2
<1>10. Ends(s[n]) /\ Starts(f[1])
  <2>1. s # <<>>  BY <1>1
  <2>. QED  BY <1>1, <1>3, <2>1 DEF Matches, Viable, Ends, Last
<1>11. \A k \in n..n+m : Ends(f[k])
  <2>1. ASSUME NEW k \in n..n+m PROVE Ends(f[k])
    <3>1. CASE k = n
      <4>1. n \in 1..n  BY <1>1
      <4>. QED  BY <1>3, <1>10, <3>1, <4>1
    <3>2. CASE k # n
      <4>1. k - n \in 1..m /\ n + (k - n) = k  BY <3>2
      <4>2. f[n + (k - n)] = Close  BY <1>3, <4>1
      <4>. QED  BY <4>1, <4>2 DEF Ends
    <3>. QED  BY <3>1, <3>2
  <2>. QED  BY <2>1
<1>12. \A k \in 1..n+m-1 : Follows(f[k], f[k+1])
  <2>1. ASSUME NEW k \in 1..n+m-1 PROVE Follows(f[k], f[k+1])
    <3>1. CASE k <= n - 1
      <4>1. k \in 1..n-1 /\ k \in 1..n /\ k + 1 \in 1..n  BY <3>1
      <4>2. Follows(s[k], s[k+1])  BY <1>1, <4>1 DEF Matches, Viable
      <4>. QED  BY <1>3, <4>1, <4>2
    <3>2. CASE k > n - 1
      <4>1. k \in n..n+m /\ (k + 1) - n \in 1..m /\ n + ((k + 1) - n) = k + 1  BY <3>2
      <4>2. f[k + 1] = Close
        <5>1. f[n + ((k + 1) - n)] = Close  BY <1>3, <4>1
        <5>. QED  BY <4>1, <5>1
      <4>3. Ends(f[k])  BY <1>11, <4>1
      <4>. QED  BY <4>2, <4>3, KindsDiffer DEF Follows, Ends
    <3>. QED  BY <3>1, <3>2
  <2>. QED  BY <2>1
<1>13. Viable(f)  BY <1>3, <1>10, <1>12 DEF Viable
<1>14. NoSurplus(f)  BY <1>3, <1>8 DEF NoSurplus
<1>15. Level(f) = 0  BY <1>3, <1>9 DEF Level
<1>16. Whole(f, 1, Len(f))
  <2>1. Ends(f[n + m])  BY <1>11
  <2>2. 1 <= n + m  BY <1>1
  <2>. QED  BY <1>3, <1>4, <1>8, <1>9, <1>10, <1>12, <2>1, <2>2 DEF Whole
<1>17. f # <<>>  BY <1>1, <1>3
<1>. QED  BY <1>13, <1>14, <1>15, <1>16, <1>17

\* The groups that are left open are closed by the end of the tokens.
LEMMA ParseIs ==
    ASSUME NEW s \in Seq(Tokens), Matches(s), NoSurplus(s)
    PROVE  Parse(s) = Flushed(Parsed(NewParser, Closed(s)).call)
<1>. DEFINE p == Parsed(NewParser, s)
            c == <<>>
<1>1. Viable(s)  BY DEF Matches
<1>2. Beside(s, c)  BY <1>1, ParsedBeside
<1>3. PICK m \in Nat : m = Level(s)  BY ClosedIs
<1>4. p.callers \in Seq(Calls) /\ Len(p.callers) = m
  BY <1>2, <1>3 DEF Beside, Parallel
<1>. HIDE DEF p
<1>5. DOMAIN p.callers = 1..m  BY <1>4
<1>6. PICK tail : tail = [i \in 1..m |-> Close]  OBVIOUS
<1>7. tail \in Seq(Tokens) /\ Closed(s) = s \o tail  BY <1>3, <1>6, ClosedIs
<1>8. Parse(s) = Flushed(Parsed(p, tail).call)  BY <1>5, <1>6 DEF Parse, p
<1>9. Parsed(NewParser, s \o tail) = Parsed(p, tail)  BY <1>7, ParsedConcat DEF p
<1>. QED  BY <1>7, <1>8, <1>9

LEMMA EvaluateReads ==
    ASSUME NEW s \in Seq(Tokens), Matches(s), NoSurplus(s), NEW c, Naming(Closed(s), c)
    PROVE  Evaluate(s, c) = Verdict(Reading(Closed(s), {k \in DOMAIN c : c[k] = TRUE}))
<1>1. PICK f \in Seq(Tokens) : f = Closed(s)  BY ClosedIs
<1>2. /\ f # <<>> /\ Viable(f) /\ NoSurplus(f) /\ Level(f) = 0 /\ Whole(f, 1, Len(f))
  BY <1>1, ClosedIsWhole
<1>3. PICK p : p = Parsed(NewParser, f)  OBVIOUS
<1>4. PICK e : e = Evaluated(Evaluator(NewLoop, <<>>), f, c)  OBVIOUS
<1>5. Beside(f, c)  BY <1>2, ParsedBeside
<1>6. Parallel(p, e, c)  BY <1>3, <1>4, <1>5 DEF Beside
<1>7. <<>> \in Seq(Loops)  OBVIOUS
<1>8. Evaluated(Evaluator(NewLoop, <<>>), Flushed(p.call), c) = Evaluator(e.loop, <<>>)
  BY <1>6, <1>7 DEF Parallel, Reaches
<1>9. Parse(s) = Flushed(p.call)  BY <1>1, <1>3, ParseIs
<1>10. Evaluate(s, c) = e.loop.result
  <2>1. Evaluate(s, c) = Evaluator(e.loop, <<>>).loop.result  BY <1>8, <1>9 DEF Evaluate
  <2>. QED  BY <2>1 DEF Evaluator
<1>. DEFINE v == Verdict(Reading(f, {k \in DOMAIN c : c[k] = TRUE}))
<1>11. Naming(f, c)  BY <1>1
<1>12. Results(f, c, 1, Len(f), v)  BY <1>2, <1>11, WholeReads
<1>. HIDE DEF v
<1>13. PICK l \in Loops : /\ l.result = v
                          /\ \A o \in Seq(Loops) :
                               Evaluated(Evaluator(NewLoop, o), SubSeq(f, 1, Len(f)), c) = Evaluator(l, o)
  BY <1>12 DEF Results
<1>14. SubSeq(f, 1, Len(f)) = f  OBVIOUS
<1>15. e = Evaluator(l, <<>>)  BY <1>4, <1>7, <1>13, <1>14
<1>16. e.loop = l  BY <1>15 DEF Evaluator
<1>. QED  BY <1>1, <1>10, <1>13, <1>16 DEF v

(* --------------------------------- Requests ------------------------------- *)

TriggerTyped ==
    /\ logic \in Seq(Tokens) /\ saved \in BOOLEAN
    /\ saved => /\ sources \in Seq(Sources) /\ Len(sources) \in 1..MaxSources
                /\ ValidSources(sources) /\ Accepts(logic, Len(sources))

(* What is saved was accepted: the expression by validateTriggerLogic with the   *)
(* number of its sources, and the sources (validateCronTriggerSource,           *)
(* validateDeviceExternalId). What is being written is a sequence of tokens.     *)
THEOREM TriggersAreTyped == TriggerSpec => []TriggerTyped
<1>1. TriggerInit => TriggerTyped
  <2>. SUFFICES ASSUME TriggerInit PROVE TriggerTyped  OBVIOUS
  <2>1. logic = <<>> /\ saved = FALSE  BY DEF TriggerInit
  <2>2. <<>> \in Seq(Tokens)  OBVIOUS
  <2>. QED  BY <2>1, <2>2 DEF TriggerTyped
<1>2. TriggerTyped /\ [TriggerNext]_triggerVars => TriggerTyped'
  <2>. SUFFICES ASSUME TriggerTyped, [TriggerNext]_triggerVars PROVE TriggerTyped'  OBVIOUS
  <2>1. ASSUME NEW t \in Tokens, Write(t) PROVE TriggerTyped'
    BY <2>1 DEF TriggerTyped, Write
  <2>2. ASSUME NEW n \in 1..MaxSources, NEW list \in [1..n -> Sources], Save(list)
        PROVE  TriggerTyped'
    <3>1. n \in Nat /\ list \in Seq(Sources) /\ Len(list) = n  OBVIOUS
    <3>2. ValidSources(list) /\ Accepts(logic, Len(list)) /\ sources' = list /\ saved' = TRUE /\ logic' = logic
      BY <2>2 DEF Save
    <3>. QED  BY <3>1, <3>2 DEF TriggerTyped
  <2>3. CASE UNCHANGED triggerVars
    BY <2>3 DEF TriggerTyped, triggerVars
  <2>. QED  BY <2>1, <2>2, <2>3 DEF TriggerNext
<1>. QED  BY <1>1, <1>2, PTL DEF TriggerSpec

(* For expressions of any length, operand 0 and surplus parentheses included: a *)
(* source more that is met never keeps a scenario from being executed           *)
(* (parseTriggerExpression, evaluateExpression).                                *)
THEOREM MoreIsExecuted == TriggerSpec => []MoreIsMore
<1>1. TriggerTyped => MoreIsMore
  <2>. SUFFICES ASSUME TriggerTyped, saved, NEW c \in [1..Len(sources) -> BOOLEAN],
                       NEW i \in 1..Len(sources), Evaluate(logic, c) = "met"
                PROVE  Evaluate(logic, [c EXCEPT ![i] = TRUE]) = "met"
    BY DEF MoreIsMore
  <2>. DEFINE d == [c EXCEPT ![i] = TRUE]
  <2>1. Len(sources) \in Nat /\ logic \in Seq(Tokens)  BY DEF TriggerTyped
  <2>2. AtMost(c, d, Len(sources))  BY <2>1 DEF AtMost
  <2>. HIDE DEF d
  <2>3. Evaluate(logic, d) = "met"  BY <2>1, <2>2, EvaluateGrows
  <2>. QED  BY <2>3 DEF d
<1>. QED  BY <1>1, TriggersAreTyped, PTL

(* For expressions of any length: without a command in the event, a scenario    *)
(* whose sources all wait for commands is not executed (execute,                *)
(* extractConditions, evaluateExpression).                                      *)
THEOREM CommandsAreForgotten == TriggerSpec => []CommandsPass
<1>1. TriggerTyped => CommandsPass
  <2>. SUFFICES ASSUME TriggerTyped, saved,
                       \A i \in DOMAIN sources : sources[i].type = "device" /\ sources[i].commands # Nothing,
                       NEW devices \in [Devices -> DeviceStates], NEW scheduled \in BOOLEAN
                PROVE  ~Executes([scheduled |-> scheduled, commands |-> Nothing], devices)
    BY DEF CommandsPass
  <2>. DEFINE context == [scheduled |-> scheduled, commands |-> Nothing]
              c == Conditions(sources, context, devices)
              n == Len(sources)
  <2>1. n \in Nat /\ logic \in Seq(Tokens) /\ DOMAIN sources = 1..n  BY DEF TriggerTyped
  <2>2. ASSUME NEW i \in 1..n PROVE c[i] = FALSE
    <3>1. context.commands = Nothing  OBVIOUS
    <3>2. DeviceConditionIsMet(sources[i], devices[sources[i].device], Nothing) = FALSE
      BY <2>1 DEF DeviceConditionIsMet, Meets
    <3>3. sources[i].type # "cron"  BY <2>1
    <3>. QED  BY <2>1, <3>1, <3>2, <3>3 DEF Conditions
  <2>3. c = [i \in 1..n |-> FALSE]
    <3>1. c = [i \in 1..n |-> c[i]]  BY <2>1 DEF Conditions
    <3>. HIDE DEF c, n
    <3>. QED  BY <2>2, <3>1
  <2>4. AtMost(c, c, n)  BY <2>3 DEF AtMost
  <2>. HIDE DEF c, n
  <2>5. Evaluate(logic, c) # "met"  BY <2>1, <2>3, <2>4, EvaluateGrows
  <2>. QED  BY <2>5 DEF Executes, c
<1>. QED  BY <1>1, TriggersAreTyped, PTL

(* Expressions of any length and depth are evaluated the way they read           *)
(* (parseTriggerExpression, evaluateExpression).                                *)
THEOREM ExpressionsEvaluateAsRead == TriggerSpec => []EvaluatesAsRead
<1>1. TriggerTyped => EvaluatesAsRead
  <2>. SUFFICES ASSUME TriggerTyped, Sensible, NEW c \in [1..Len(sources) -> BOOLEAN]
                PROVE  Evaluate(logic, c)
                         = Verdict(Reading(Closed(logic), {i \in DOMAIN c : c[i]}))
    BY DEF EvaluatesAsRead
  <2>1. /\ logic \in Seq(Tokens) /\ Len(sources) \in Nat /\ NoSurplus(logic)
        /\ Token("operand", 0) \notin ToSet(logic) /\ Matches(logic)
        /\ \A i \in Positions(logic, Operands) : logic[i].n <= Len(sources)
    BY DEF TriggerTyped, Sensible, Accepts
  <2>2. Naming(Closed(logic), c)
    <3>. DEFINE f == Closed(logic)
    <3>1. PICK m \in Nat : m = Level(logic)  BY <2>1, ClosedIs
    <3>2. /\ Len(f) = Len(logic) + m
          /\ \A k \in 1..Len(logic) : f[k] = logic[k]
          /\ \A k \in 1..m : f[Len(logic) + k] = Close
      BY <2>1, <3>1, ClosedIs
    <3>. HIDE DEF f
    <3>3. ASSUME NEW k \in 1..Len(f), f[k] \in Operands PROVE f[k].n \in DOMAIN c /\ c[f[k].n] \in BOOLEAN
      <4>1. Len(logic) \in Nat  BY <2>1
      <4>2. k \in 1..Len(logic)
        <5>1. SUFFICES ASSUME k > Len(logic) PROVE FALSE  BY <3>2, <4>1
        <5>2. k - Len(logic) \in 1..m /\ Len(logic) + (k - Len(logic)) = k  BY <3>1, <3>2, <4>1, <5>1
        <5>3. f[Len(logic) + (k - Len(logic))] = Close  BY <3>2, <5>2
        <5>. QED  BY <3>3, <5>2, <5>3, KindsDiffer
      <4>3. f[k] = logic[k] /\ logic[k] \in Operands  BY <3>2, <3>3, <4>2
      <4>4. PICK n \in 0..MaxSources : logic[k] = Token("operand", n)  BY <4>3 DEF Operands
      <4>5. logic[k] \in ToSet(logic)  BY <2>1, <4>2 DEF ToSet
      <4>6. n # 0  BY <2>1, <4>4, <4>5
      <4>7. logic[k].n = n  BY <4>4 DEF Token
      <4>8. n <= Len(sources)  BY <2>1, <4>2, <4>3, <4>7 DEF Positions
      <4>9. n \in 1..Len(sources)  BY <2>1, <4>4, <4>6, <4>8
      <4>. QED  BY <4>3, <4>7, <4>9
    <3>. QED  BY <3>3 DEF Naming, f
  <2>3. Evaluate(logic, c) = Verdict(Reading(Closed(logic), {k \in DOMAIN c : c[k] = TRUE}))
    BY <2>1, <2>2, EvaluateReads
  <2>4. {k \in DOMAIN c : c[k] = TRUE} = {i \in DOMAIN c : c[i]}
    OBVIOUS
  <2>. QED  BY <2>3, <2>4
<1>. QED  BY <1>1, TriggersAreTyped, PTL
=============================================================================
