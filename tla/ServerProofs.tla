---------------------------- MODULE ServerProofs ----------------------------
(***************************************************************************)
(* Proofs about Statements and Server: the splitter keeps the statements   *)
(* of every text, the queries of a body are logged as what they are, and   *)
(* a request runs its statements in order, each once: all of them when it  *)
(* is answered with success, else the first ones.                          *)
(*                                                                         *)
(* Texts have any length, so the proofs are by induction.  The induction   *)
(* theorems of the library take a predicate as a parameter; here induction *)
(* is the statement that a set of numbers, or of sequences, is all of them *)
(* (NatInd, SeqInd), which follows from the order of the numbers.          *)
(***************************************************************************)
EXTENDS Server, Integers, SequenceTheorems, WellFoundedInduction, TLAPS

-----------------------------------------------------------------------------
(***************************************************************************)
(* Induction and folds.                                                    *)
(***************************************************************************)
(* A nonempty set of numbers has a least one.                              *)
LEMMA LeastNat ==
  ASSUME NEW T \in SUBSET Nat, T # {}
  PROVE \E m \in T : \A k \in T : m <= k
<1>1. PICK R : IsWellFoundedOn(R, Nat) /\ \A x, y \in Nat : y < x => <<y, x>> \in R
  <2>1. \A x, y \in Nat : y < x => <<y, x>> \in OpToRel(<, Nat)
    BY DEF OpToRel
  <2> QED BY <2>1, NatLessThanWellFounded
<1>2. \E m \in T : \A y \in T : ~(<<y, m>> \in R)
  BY <1>1, WFMin
<1>3. PICK m \in T : \A y \in T : ~(<<y, m>> \in R)
  BY <1>2
<1>4. ASSUME NEW y \in T PROVE m <= y
  <2>1. ~(y < m)
    BY <1>1, <1>3
  <2> QED BY <2>1
<1> QED BY <1>4

(* Induction, for a set of numbers.                                        *)
LEMMA NatInd ==
  ASSUME NEW T \in SUBSET Nat, 0 \in T, \A n \in T : n + 1 \in T
  PROVE T = Nat
<1>1. SUFFICES ASSUME Nat \ T # {} PROVE FALSE
  OBVIOUS
<1>2. PICK m \in Nat \ T : \A k \in Nat \ T : m <= k
  BY <1>1, LeastNat
<1>3. m - 1 \in T
  BY <1>2
<1> QED BY <1>2, <1>3

(* A sequence that is not empty ends with an element.                      *)
LEMMA LastApart ==
  ASSUME NEW X, NEW s \in Seq(X), NEW k \in Nat, Len(s) = k + 1
  PROVE  \E r \in Seq(X), x \in X : s = Append(r, x) /\ Len(r) = k
<1> DEFINE r == SubSeq(s, 1, k)
<1>1. r \in Seq(X) /\ s[k + 1] \in X /\ Len(r) = k /\ s = Append(r, s[k + 1])
  OBVIOUS
<1> QED BY <1>1

(* Induction, for a set of sequences.                                      *)
LEMMA SeqInd ==
  ASSUME NEW X, NEW S, \A s \in S : s \in Seq(X), << >> \in S,
         \A s \in S, x \in X : Append(s, x) \in S
  PROVE  \A s \in Seq(X) : s \in S
<1> DEFINE T == {k \in Nat : \A s \in Seq(X) : Len(s) = k => s \in S}
<1>1. 0 \in T
  OBVIOUS
<1>2. ASSUME NEW k \in T PROVE k + 1 \in T
  <2>1. SUFFICES ASSUME NEW s \in Seq(X), Len(s) = k + 1 PROVE s \in S
    OBVIOUS
  <2>2. k \in Nat /\ \A r \in Seq(X) : Len(r) = k => r \in S
    OBVIOUS
  <2> HIDE DEF T
  <2>3. PICK r \in Seq(X), x \in X : s = Append(r, x) /\ Len(r) = k
    BY <2>1, <2>2, LastApart
  <2> QED BY <2>2, <2>3
<1>3. T = Nat
  <2> HIDE DEF T
  <2>1. T \in SUBSET Nat
    BY DEF T
  <2> QED BY <1>1, <1>2, <2>1, NatInd
<1>4. \A s \in Seq(X) : Len(s) \in T
  BY <1>3
<1> QED BY <1>4

(* Max of a nonempty set of indices (FiniteSetsExt).                       *)
LEMMA MaxOf ==
  ASSUME NEW n \in Nat, NEW t \in SUBSET (1 .. n), t # {}
  PROVE  Max(t) \in t /\ \A y \in t : y <= Max(t)
<1> DEFINE T == {n - x : x \in t}
<1>1. \A x \in t : x \in Int /\ n - x \in Nat
  OBVIOUS
<1>a. T \in SUBSET Nat /\ T # {}
  BY <1>1
<1>2. PICK m \in T : \A k \in T : m <= k
  <2> HIDE DEF T
  <2> QED BY <1>a, LeastNat
<1>3. PICK x \in t : m = n - x
  OBVIOUS
<1>4. \A y \in t : x >= y
  BY <1>1, <1>2, <1>3
<1> QED BY <1>4 DEF Max

(* The number that is in S and above S is its Max.                         *)
LEMMA MaxIs ==
  ASSUME NEW S, \A y \in S : y \in Int, NEW k \in S, \A y \in S : y <= k
  PROVE  Max(S) = k
<1>1. Max(S) \in S /\ \A y \in S : Max(S) >= y
  BY DEF Max
<1> QED BY <1>1

(* G is a step from values in V by elements of X. *)
StepOn(G, V, X) == G \in [V \X X -> V]

(* f is the function that FoldLeft defines on sets of indices, for the step *)
(* function G on values in V.                                              *)
IsFold(f, b, G, s, V) ==
  /\ f \in [SUBSET (1 .. Len(s)) -> V]
  /\ \A t \in SUBSET (1 .. Len(s)) :
       f[t] = IF t = {} THEN b ELSE G[<<f[t \ {Max(t)}], s[Max(t)]>>]

(* A set of indices without the last one.                                  *)
LEMMA WithoutMax ==
  ASSUME NEW k \in Nat, NEW t \in SUBSET (1 .. k + 1)
  PROVE  /\ k + 1 \notin t => t \in SUBSET (1 .. k)
         /\ k + 1 \in t => Max(t) = k + 1
         /\ k + 1 \in t => t \ {k + 1} \in SUBSET (1 .. k)
<1>1. \A y \in t : y \in Int /\ y <= k + 1 /\ (y # k + 1 => y \in 1 .. k)
  OBVIOUS
<1>2. k + 1 \in t => Max(t) = k + 1
  BY <1>1, MaxIs
<1>3. \A y \in t \ {k + 1} : y \in 1 .. k
  BY <1>1
<1> QED BY <1>1, <1>2, <1>3

(* From the fold of s to that of s and x.                                  *)
LEMMA FoldExtends ==
  ASSUME NEW V, NEW X, NEW b \in V, NEW G, StepOn(G, V, X),
         NEW s \in Seq(X), NEW x \in X, NEW f, IsFold(f, b, G, s, V)
  PROVE  \E g : IsFold(g, b, G, Append(s, x), V)
<1> DEFINE k == Len(s)
           m == k + 1
           u == Append(s, x)
           g == [t \in SUBSET (1 .. m) |->
                    IF m \notin t THEN f[t] ELSE G[<<f[t \ {m}], x>>]]
<1>0. /\ k \in Nat /\ Len(u) = m /\ u[m] = x
      /\ \A i \in 1 .. k : u[i] = s[i]
  OBVIOUS
<1>1. ASSUME NEW t \in SUBSET (1 .. m)
      PROVE  /\ g[t] \in V
             /\ g[t] = IF t = {} THEN b ELSE G[<<g[t \ {Max(t)}], u[Max(t)]>>]
  <2>0. t \ {m} \in SUBSET (1 .. m) /\ m \notin t \ {m} /\ t \ {Max(t)} \in SUBSET (1 .. m)
    OBVIOUS
  <2>1. CASE m \in t
    <3>1. t \ {m} \in SUBSET (1 .. k)
      BY <1>0, <2>1, WithoutMax
    <3>2. Max(t) = m
      BY <1>0, <2>1, WithoutMax
    <3>3. g[t] = G[<<f[t \ {m}], x>>]
      BY <2>1
    <3>4. g[t \ {m}] = f[t \ {m}]
      BY <2>0
    <3>5. f[t \ {m}] \in V
      BY <3>1 DEF IsFold
    <3>6. \A v \in V : G[<<v, x>>] \in V
      BY DEF StepOn
    <3> HIDE DEF g, m, u
    <3> QED BY <1>0, <2>1, <3>2, <3>3, <3>4, <3>5, <3>6
  <2>2. CASE m \notin t
    <3>1. t \in SUBSET (1 .. k)
      BY <1>0, <2>2, WithoutMax
    <3>2. g[t] = f[t]
      BY <2>2
    <3>3. f[t] \in V /\ f[t] = IF t = {} THEN b ELSE G[<<f[t \ {Max(t)}], s[Max(t)]>>]
      BY <3>1 DEF IsFold
    <3>4. g[t \ {Max(t)}] = f[t \ {Max(t)}]
      BY <2>0, <2>2
    <3>5. t # {} => u[Max(t)] = s[Max(t)]
      BY <1>0, <3>1, MaxOf
    <3> HIDE DEF g, m, u
    <3> QED BY <3>2, <3>3, <3>4, <3>5
  <2> QED BY <2>1, <2>2
<1>2. g \in [SUBSET (1 .. m) -> V]
  <2>1. \A t \in SUBSET (1 .. m) : g[t] \in V
    BY <1>1
  <2> QED BY <2>1
<1>3. IsFold(g, b, G, u, V)
  <2> HIDE DEF g, m, u
  <2> QED BY <1>0, <1>1, <1>2 DEF IsFold
<1> QED BY <1>3

(* FoldLeft is well defined.                                                *)
LEMMA FoldExists ==
  ASSUME NEW V, NEW X, NEW b \in V, NEW G, StepOn(G, V, X), NEW s \in Seq(X)
  PROVE  \E f : IsFold(f, b, G, s, V)
<1> DEFINE T == {k \in Nat : \A r \in Seq(X) : Len(r) = k => \E f : IsFold(f, b, G, r, V)}
<1>1. 0 \in T
  <2>1. SUFFICES ASSUME NEW r \in Seq(X), Len(r) = 0 PROVE \E f : IsFold(f, b, G, r, V)
    OBVIOUS
  <2> DEFINE it == [t \in SUBSET (1 .. 0) |-> b]
  <2>2. \A t \in SUBSET (1 .. 0) : t = {}
    OBVIOUS
  <2>3. IsFold(it, b, G, r, V)
    BY <2>1, <2>2 DEF IsFold
  <2> HIDE DEF it
  <2> QED BY <2>3
<1>2. ASSUME NEW k \in T PROVE k + 1 \in T
  <2>1. SUFFICES ASSUME NEW r \in Seq(X), Len(r) = k + 1 PROVE \E f : IsFold(f, b, G, r, V)
    OBVIOUS
  <2>2. PICK q \in Seq(X), x \in X : r = Append(q, x) /\ Len(q) = k
    BY <2>1, LastApart
  <2>3. PICK f : IsFold(f, b, G, q, V)
    BY <2>2
  <2> QED BY <2>2, <2>3, FoldExtends
<1>3. T = Nat
  <2> HIDE DEF T
  <2>1. T \in SUBSET Nat
    BY DEF T
  <2> QED BY <1>1, <1>2, <2>1, NatInd
<1>4. Len(s) \in T
  BY <1>3
<1> QED BY <1>4

Agree(f, g, n) == \A t \in SUBSET (1 .. n) : f[t] = g[t]

AgreeByMax(f, g, n) ==
  /\ f[{}] = g[{}]
  /\ \A t \in SUBSET (1 .. n) :
       t # {} /\ f[t \ {Max(t)}] = g[t \ {Max(t)}] => f[t] = g[t]

(* Functions that agree on a set when they do without its largest index    *)
(* agree.                                                                   *)
LEMMA FoldAgree ==
  ASSUME NEW n \in Nat, NEW f, NEW g, AgreeByMax(f, g, n)
  PROVE  Agree(f, g, n)
<1> DEFINE P(k) == \A t \in SUBSET (1 .. k) : f[t] = g[t]
           T == {k \in Nat : k <= n => P(k)}
<1>1. 0 \in T
  <2>1. \A t \in SUBSET (1 .. 0) : t = {}
    OBVIOUS
  <2>2. P(0)
    BY <2>1 DEF AgreeByMax
  <2> HIDE DEF P
  <2> QED BY <2>2
<1>2. ASSUME NEW k \in T PROVE k + 1 \in T
  <2>1. k \in Nat /\ (k <= n => P(k))
    OBVIOUS
  <2>2. SUFFICES ASSUME k + 1 <= n PROVE P(k + 1)
    <3> HIDE DEF P
    <3> QED OBVIOUS
  <2>3. SUFFICES ASSUME NEW t \in SUBSET (1 .. k + 1) PROVE f[t] = g[t]
    OBVIOUS
  <2>4. t \in SUBSET (1 .. n)
    <3>1. \A i \in 1 .. k + 1 : i \in 1 .. n
      BY <2>1, <2>2
    <3> QED BY <3>1
  <2>5. P(k)
    <3> HIDE DEF P
    <3> QED BY <2>1, <2>2
  <2>6. CASE k + 1 \in t
    <3>1. Max(t) = k + 1 /\ t \ {k + 1} \in SUBSET (1 .. k)
      BY <2>1, <2>6, WithoutMax
    <3> QED BY <2>4, <2>5, <2>6, <3>1 DEF AgreeByMax
  <2>7. CASE k + 1 \notin t
    BY <2>1, <2>5, <2>7, WithoutMax
  <2> QED BY <2>6, <2>7
<1>3. T = Nat
  <2> HIDE DEF T
  <2>1. T \in SUBSET Nat
    BY DEF T
  <2> QED BY <1>1, <1>2, <2>1, NatInd
<1>4. P(n)
  <2> HIDE DEF P
  <2> QED BY <1>3
<1> QED BY <1>4 DEF Agree

(* The value of the fold.                                                   *)
FoldOf(b, G, s, V) == (CHOOSE f : IsFold(f, b, G, s, V))[1 .. Len(s)]

(* The fold of nothing. *)
LEMMA FoldEmpty ==
  ASSUME NEW V, NEW X, NEW b \in V, NEW G, StepOn(G, V, X)
  PROVE  FoldOf(b, G, << >>, V) = b
<1> DEFINE F == CHOOSE f : IsFold(f, b, G, << >>, V)
<1>1. IsFold(F, b, G, << >>, V)
  <2>1. << >> \in Seq(X)
    OBVIOUS
  <2> QED BY <2>1, FoldExists
<1> HIDE DEF F
<1>2. {} \in SUBSET (1 .. Len(<< >>)) /\ 1 .. Len(<< >>) = {}
  OBVIOUS
<1>3. F[{}] = b
  BY <1>1, <1>2 DEF IsFold
<1> QED BY <1>2, <1>3 DEF FoldOf, F

(* A fold, by the last element.                                            *)
LEMMA FoldLaws ==
  ASSUME NEW V, NEW X, NEW b \in V, NEW G, StepOn(G, V, X), NEW s \in Seq(X)
  PROVE  /\ FoldOf(b, G, s, V) \in V
         /\ \A x \in X :
              FoldOf(b, G, Append(s, x), V) = G[<<FoldOf(b, G, s, V), x>>]
<1> DEFINE F(r) == CHOOSE f : IsFold(f, b, G, r, V)
<1>1. ASSUME NEW r \in Seq(X) PROVE IsFold(F(r), b, G, r, V)
  BY FoldExists
<1> HIDE DEF F
<1>3. FoldOf(b, G, s, V) \in V
  <2>1. IsFold(F(s), b, G, s, V)
    BY <1>1
  <2>2. F(s)[1 .. Len(s)] \in V
    BY <2>1 DEF IsFold
  <2> QED BY <2>2 DEF FoldOf, F
<1>4. ASSUME NEW x \in X
      PROVE  FoldOf(b, G, Append(s, x), V) = G[<<FoldOf(b, G, s, V), x>>]
  <2> DEFINE k == Len(s)
             u == Append(s, x)
             f == F(s)
             g == F(u)
  <2>1. IsFold(f, b, G, s, V) /\ IsFold(g, b, G, u, V)
    <3>1. u \in Seq(X)
      OBVIOUS
    <3> QED BY <1>1, <3>1
  <2>2. /\ k \in Nat /\ Len(u) = k + 1 /\ u[k + 1] = x
        /\ \A i \in 1 .. k : u[i] = s[i]
    OBVIOUS
  <2> HIDE DEF f, g, u, k
  <2>3. Agree(f, g, k)
    <3>1. f[{}] = g[{}]
      BY <2>1, <2>2 DEF IsFold, k
    <3>2. ASSUME NEW t \in SUBSET (1 .. k), t # {}, f[t \ {Max(t)}] = g[t \ {Max(t)}]
          PROVE  f[t] = g[t]
      <4>1. f[t] = G[<<f[t \ {Max(t)}], s[Max(t)]>>]
        BY <2>1, <3>2 DEF IsFold, k
      <4>2. t \in SUBSET (1 .. k + 1)
        BY <2>2
      <4>3. g[t] = G[<<g[t \ {Max(t)}], u[Max(t)]>>]
        BY <2>1, <2>2, <3>2, <4>2 DEF IsFold
      <4>4. Max(t) \in 1 .. k
        BY <2>2, <3>2, MaxOf
      <4> QED BY <2>2, <3>2, <4>1, <4>3, <4>4
    <3>3. AgreeByMax(f, g, k)
      BY <3>1, <3>2 DEF AgreeByMax
    <3> QED BY <2>2, <3>3, FoldAgree
  <2>4. g[1 .. k + 1] = G[<<g[1 .. k], x>>]
    <3>1. k + 1 \in 1 .. k + 1 /\ (1 .. k + 1) \in SUBSET (1 .. k + 1)
      BY <2>2
    <3>2. Max(1 .. k + 1) = k + 1
      BY <2>2, <3>1, WithoutMax
    <3>3. (1 .. k + 1) \ {k + 1} = 1 .. k
      BY <2>2
    <3>4. \A t \in SUBSET (1 .. k + 1) :
            t # {} => g[t] = G[<<g[t \ {Max(t)}], u[Max(t)]>>]
      BY <2>1, <2>2 DEF IsFold
    <3>5. (1 .. k + 1) # {}
      BY <3>1
    <3>6. g[1 .. k + 1] = G[<<g[(1 .. k + 1) \ {Max(1 .. k + 1)}], u[Max(1 .. k + 1)]>>]
      BY <3>1, <3>4, <3>5
    <3> QED BY <2>2, <3>2, <3>3, <3>6
  <2>5. g[1 .. k] = f[1 .. k]
    BY <2>3 DEF Agree
  <2> QED BY <2>2, <2>4, <2>5 DEF FoldOf, F, f, g, u, k
<1> QED BY <1>3, <1>4

(* What IsFold says of a set that is not empty.                            *)
LEMMA FoldStep ==
  ASSUME NEW V, NEW X, NEW b, NEW G, NEW s \in Seq(X), NEW f, IsFold(f, b, G, s, V),
         NEW t \in SUBSET (1 .. Len(s)), t # {}
  PROVE  /\ f[t] = G[<<f[t \ {Max(t)}], s[Max(t)]>>]
         /\ f[t \ {Max(t)}] \in V /\ s[Max(t)] \in X
<1>1. f[t] = G[<<f[t \ {Max(t)}], s[Max(t)]>>]
  BY DEF IsFold
<1>2. Max(t) \in 1 .. Len(s)
  <2>1. Len(s) \in Nat
    OBVIOUS
  <2> QED BY <2>1, MaxOf
<1>3. t \ {Max(t)} \in SUBSET (1 .. Len(s))
  OBVIOUS
<1>4. f[t \ {Max(t)}] \in V
  BY <1>3 DEF IsFold
<1> QED BY <1>1, <1>2, <1>4

-----------------------------------------------------------------------------
(***************************************************************************)
(* The folds of Statements, by the last element.                           *)
(***************************************************************************)
(* What Without does with one element. *)
KeepStep(v, y, x) == IF y = x THEN v ELSE Append(v, y)

(* Without, by the last element.                                           *)
LEMMA WithoutLaws ==
  ASSUME NEW X, NEW x
  PROVE  /\ Without(<< >>, x) = << >>
         /\ \A s \in Seq(X) : Without(s, x) \in Seq(X)
         /\ \A s \in Seq(X), y \in X :
              Without(Append(s, y), x) = KeepStep(Without(s, x), y, x)
<1> DEFINE V == Seq(X)
           G == [p \in V \X X |-> KeepStep(p[1], p[2], x)]
<1>1. ASSUME NEW v \in V, NEW y \in X
      PROVE  KeepStep(v, y, x) \in V /\ G[<<v, y>>] = KeepStep(v, y, x)
  BY DEF KeepStep
<1>2. StepOn(G, V, X) /\ << >> \in V
  <2>1. \A p \in V \X X : G[p] \in V
    BY <1>1
  <2>2. << >> \in V
    OBVIOUS
  <2> HIDE DEF V
  <2> QED BY <2>1, <2>2 DEF StepOn
<1>3. ASSUME NEW s \in Seq(X) PROVE Without(s, x) = FoldOf(<< >>, G, s, V)
  <2> DEFINE n == Len(s)
             Is(it) == it = [t \in SUBSET (1 .. n) |->
                               IF t = {} THEN << >>
                               ELSE KeepStep(it[t \ {Max(t)}], s[Max(t)], x)]
             it == CHOOSE it : Is(it)
             f == CHOOSE f : IsFold(f, << >>, G, s, V)
  <2>1. n \in Nat /\ DOMAIN s = 1 .. n
    OBVIOUS
  <2>2. Without(s, x) = it[1 .. n]
    BY <2>1 DEF Without, FoldLeft, MapThenFoldSet, KeepStep
  <2> HIDE DEF G, V
  <2>3. IsFold(f, << >>, G, s, V)
    BY <1>2, FoldExists
  <2> HIDE DEF f
  <2>4. ASSUME NEW t \in SUBSET (1 .. n), t # {}
        PROVE  f[t] = KeepStep(f[t \ {Max(t)}], s[Max(t)], x)
    <3>1. /\ f[t] = G[<<f[t \ {Max(t)}], s[Max(t)]>>]
          /\ f[t \ {Max(t)}] \in V /\ s[Max(t)] \in X
      BY <2>3, <2>4, FoldStep
    <3> QED BY <1>1, <3>1
  <2>5. Is(f)
    BY <2>1, <2>3, <2>4 DEF IsFold
  <2>6. Is(it)
    <3> HIDE DEF Is
    <3> QED BY <2>5
  <2> HIDE DEF it
  <2>7. AgreeByMax(it, f, n)
    BY <2>1, <2>4, <2>5, <2>6 DEF AgreeByMax
  <2>8. it[1 .. n] = f[1 .. n]
    <3> HIDE DEF n
    <3> QED BY <2>1, <2>7, FoldAgree DEF Agree
  <2> QED BY <2>2, <2>8 DEF FoldOf, f
<1>4. << >> \in Seq(X) /\ \A s \in Seq(X), y \in X : Append(s, y) \in Seq(X)
  OBVIOUS
<1> HIDE DEF V, G
<1>5. FoldOf(<< >>, G, << >>, V) = << >>
  BY <1>2, FoldEmpty
<1>6. ASSUME NEW s \in Seq(X) PROVE FoldOf(<< >>, G, s, V) \in V
  BY <1>2, FoldLaws
<1>7. ASSUME NEW s \in Seq(X), NEW y \in X
      PROVE  FoldOf(<< >>, G, Append(s, y), V) = G[<<FoldOf(<< >>, G, s, V), y>>]
  BY <1>2, FoldLaws
<1>8. Without(<< >>, x) = << >>
  BY <1>3, <1>4, <1>5
<1>9. \A s \in Seq(X) : Without(s, x) \in V
  BY <1>3, <1>6
<1>10. ASSUME NEW s \in Seq(X), NEW y \in X
       PROVE  Without(Append(s, y), x) = KeepStep(Without(s, x), y, x)
  <2>1. Append(s, y) \in Seq(X)
    BY <1>4
  <2>2. Without(Append(s, y), x) = FoldOf(<< >>, G, Append(s, y), V)
    BY <1>3, <2>1
  <2>3. Without(s, x) = FoldOf(<< >>, G, s, V)
    BY <1>3
  <2>4. Without(s, x) \in V
    BY <1>9
  <2> QED BY <1>1, <1>7, <2>2, <2>3, <2>4
<1> QED BY <1>8, <1>9, <1>10 DEF V

Parts(X) == Seq(Seq(X)) \ {<< >>}

(* What SplitBy does with one element. *)
SplitStep(v, y, sep) ==
  IF y = sep THEN Append(v, << >>) ELSE [v EXCEPT ![Len(v)] = Append(@, y)]

(* Such a step makes parts of parts.                                       *)
LEMMA SplitStepType ==
  ASSUME NEW X, NEW sep, NEW v \in Parts(X), NEW y \in X
  PROVE  SplitStep(v, y, sep) \in Parts(X)
<1>1. v \in Seq(Seq(X)) /\ Len(v) \in 1 .. Len(v)
  BY DEF Parts
<1>2. Append(v[Len(v)], y) \in Seq(X)
  BY <1>1
<1>3. [v EXCEPT ![Len(v)] = Append(v[Len(v)], y)] \in Seq(Seq(X))
  BY <1>1, <1>2, ExceptSeq
<1>4. Len([v EXCEPT ![Len(v)] = Append(v[Len(v)], y)]) = Len(v)
  BY <1>1, <1>2, ExceptSeq
<1>5. Append(v, << >>) \in Seq(Seq(X)) /\ Append(v, << >>) # << >>
  BY <1>1
<1> QED BY <1>1, <1>3, <1>4, <1>5 DEF Parts, SplitStep

(* SplitBy, by the last element.                                           *)
LEMMA SplitByLaws ==
  ASSUME NEW X, NEW sep
  PROVE  /\ SplitBy(<< >>, sep) = << << >> >>
         /\ \A s \in Seq(X) : SplitBy(s, sep) \in Parts(X)
         /\ \A s \in Seq(X), y \in X :
              SplitBy(Append(s, y), sep) = SplitStep(SplitBy(s, sep), y, sep)
<1> DEFINE V == Parts(X)
           G == [p \in V \X X |-> SplitStep(p[1], p[2], sep)]
<1>1. ASSUME NEW v \in V, NEW y \in X
      PROVE  SplitStep(v, y, sep) \in V /\ G[<<v, y>>] = SplitStep(v, y, sep)
  BY SplitStepType
<1>2. StepOn(G, V, X) /\ << << >> >> \in V
  <2>1. \A p \in V \X X : G[p] \in V
    BY <1>1
  <2>2. << << >> >> \in V
    BY DEF Parts
  <2> HIDE DEF V
  <2> QED BY <2>1, <2>2 DEF StepOn
<1>3. ASSUME NEW s \in Seq(X) PROVE SplitBy(s, sep) = FoldOf(<< << >> >>, G, s, V)
  <2> DEFINE n == Len(s)
             Is(it) == it = [t \in SUBSET (1 .. n) |->
                               IF t = {} THEN << << >> >>
                               ELSE SplitStep(it[t \ {Max(t)}], s[Max(t)], sep)]
             it == CHOOSE it : Is(it)
             f == CHOOSE f : IsFold(f, << << >> >>, G, s, V)
  <2>1. n \in Nat /\ DOMAIN s = 1 .. n
    OBVIOUS
  <2>2. SplitBy(s, sep) = it[1 .. n]
    BY <2>1 DEF SplitBy, FoldLeft, MapThenFoldSet, SplitStep
  <2> HIDE DEF G, V
  <2>3. IsFold(f, << << >> >>, G, s, V)
    BY <1>2, FoldExists
  <2> HIDE DEF f
  <2>4. ASSUME NEW t \in SUBSET (1 .. n), t # {}
        PROVE  f[t] = SplitStep(f[t \ {Max(t)}], s[Max(t)], sep)
    <3>1. /\ f[t] = G[<<f[t \ {Max(t)}], s[Max(t)]>>]
          /\ f[t \ {Max(t)}] \in V /\ s[Max(t)] \in X
      BY <2>3, <2>4, FoldStep
    <3> QED BY <1>1, <3>1
  <2>5. Is(f)
    BY <2>1, <2>3, <2>4 DEF IsFold
  <2>6. Is(it)
    <3> HIDE DEF Is
    <3> QED BY <2>5
  <2> HIDE DEF it
  <2>7. AgreeByMax(it, f, n)
    BY <2>1, <2>4, <2>5, <2>6 DEF AgreeByMax
  <2>8. it[1 .. n] = f[1 .. n]
    <3> HIDE DEF n
    <3> QED BY <2>1, <2>7, FoldAgree DEF Agree
  <2> QED BY <2>2, <2>8 DEF FoldOf, f
<1>4. << >> \in Seq(X) /\ \A s \in Seq(X), y \in X : Append(s, y) \in Seq(X)
  OBVIOUS
<1> HIDE DEF V, G
<1>5. FoldOf(<< << >> >>, G, << >>, V) = << << >> >>
  BY <1>2, FoldEmpty
<1>6. ASSUME NEW s \in Seq(X) PROVE FoldOf(<< << >> >>, G, s, V) \in V
  BY <1>2, FoldLaws
<1>7. ASSUME NEW s \in Seq(X), NEW y \in X
      PROVE  FoldOf(<< << >> >>, G, Append(s, y), V) = G[<<FoldOf(<< << >> >>, G, s, V), y>>]
  BY <1>2, FoldLaws
<1>8. SplitBy(<< >>, sep) = << << >> >>
  BY <1>3, <1>4, <1>5
<1>9. \A s \in Seq(X) : SplitBy(s, sep) \in V
  BY <1>3, <1>6
<1>10. ASSUME NEW s \in Seq(X), NEW y \in X
       PROVE  SplitBy(Append(s, y), sep) = SplitStep(SplitBy(s, sep), y, sep)
  <2>1. Append(s, y) \in Seq(X)
    BY <1>4
  <2>2. SplitBy(Append(s, y), sep) = FoldOf(<< << >> >>, G, Append(s, y), V)
    BY <1>3, <2>1
  <2>3. SplitBy(s, sep) = FoldOf(<< << >> >>, G, s, V)
    BY <1>3
  <2>4. SplitBy(s, sep) \in V
    BY <1>9
  <2> QED BY <1>1, <1>7, <2>2, <2>3, <2>4
<1> QED BY <1>8, <1>9, <1>10 DEF V

Reading(X) == [comment : BOOLEAN, text : Seq(X)]

(* What StripComments does with one token. *)
StripStep(v, y) ==
  [comment |-> y # "NL" /\ (v.comment \/ y = "--"),
   text    |-> IF v.comment \/ y \in {"--", "NL"} THEN v.text ELSE Append(v.text, y)]

StripState(s) == FoldLeft(StripStep, [comment |-> FALSE, text |-> << >>], s)

(* StripComments with its state, by the last token.                        *)
LEMMA StripStateLaws ==
  ASSUME NEW X
  PROVE  /\ StripState(<< >>) = [comment |-> FALSE, text |-> << >>]
         /\ \A s \in Seq(X) : StripState(s) \in Reading(X)
         /\ \A s \in Seq(X), y \in X :
              StripState(Append(s, y)) = StripStep(StripState(s), y)
<1> DEFINE V == Reading(X)
           G == [p \in V \X X |-> StripStep(p[1], p[2])]
<1>1. ASSUME NEW v \in V, NEW y \in X
      PROVE  StripStep(v, y) \in V /\ G[<<v, y>>] = StripStep(v, y)
  <2>1. StripStep(v, y) \in V
    <3>1. v.comment \in BOOLEAN /\ v.text \in Seq(X)
      BY DEF Reading
    <3>2. Append(v.text, y) \in Seq(X)
      BY <3>1
    <3> QED BY <3>1, <3>2 DEF StripStep, Reading
  <2> QED BY <2>1
<1>2. StepOn(G, V, X) /\ [comment |-> FALSE, text |-> << >>] \in V
  <2>1. \A p \in V \X X : G[p] \in V
    BY <1>1
  <2>2. [comment |-> FALSE, text |-> << >>] \in V
    BY DEF Reading
  <2> HIDE DEF V
  <2> QED BY <2>1, <2>2 DEF StepOn
<1>3. ASSUME NEW s \in Seq(X)
      PROVE  StripState(s) = FoldOf([comment |-> FALSE, text |-> << >>], G, s, V)
  <2> DEFINE n == Len(s)
             Is(it) == it = [t \in SUBSET (1 .. n) |->
                               IF t = {} THEN [comment |-> FALSE, text |-> << >>]
                               ELSE StripStep(it[t \ {Max(t)}], s[Max(t)])]
             it == CHOOSE it : Is(it)
             f == CHOOSE f : IsFold(f, [comment |-> FALSE, text |-> << >>], G, s, V)
  <2>1. n \in Nat /\ DOMAIN s = 1 .. n
    OBVIOUS
  <2>2. StripState(s) = it[1 .. n]
    BY <2>1 DEF StripState, FoldLeft, MapThenFoldSet, StripStep
  <2> HIDE DEF G, V
  <2>3. IsFold(f, [comment |-> FALSE, text |-> << >>], G, s, V)
    BY <1>2, FoldExists
  <2> HIDE DEF f
  <2>4. ASSUME NEW t \in SUBSET (1 .. n), t # {}
        PROVE  f[t] = StripStep(f[t \ {Max(t)}], s[Max(t)])
    <3>1. /\ f[t] = G[<<f[t \ {Max(t)}], s[Max(t)]>>]
          /\ f[t \ {Max(t)}] \in V /\ s[Max(t)] \in X
      BY <2>3, <2>4, FoldStep
    <3> QED BY <1>1, <3>1
  <2>5. Is(f)
    BY <2>1, <2>3, <2>4 DEF IsFold
  <2>6. Is(it)
    <3> HIDE DEF Is
    <3> QED BY <2>5
  <2> HIDE DEF it
  <2>7. AgreeByMax(it, f, n)
    BY <2>1, <2>4, <2>5, <2>6 DEF AgreeByMax
  <2>8. it[1 .. n] = f[1 .. n]
    <3> HIDE DEF n
    <3> QED BY <2>1, <2>7, FoldAgree DEF Agree
  <2> QED BY <2>2, <2>8 DEF FoldOf, f
<1>4. << >> \in Seq(X) /\ \A s \in Seq(X), y \in X : Append(s, y) \in Seq(X)
  OBVIOUS
<1> HIDE DEF V, G
<1>5. FoldOf([comment |-> FALSE, text |-> << >>], G, << >>, V)
        = [comment |-> FALSE, text |-> << >>]
  BY <1>2, FoldEmpty
<1>6. ASSUME NEW s \in Seq(X) PROVE FoldOf([comment |-> FALSE, text |-> << >>], G, s, V) \in V
  BY <1>2, FoldLaws
<1>7. ASSUME NEW s \in Seq(X), NEW y \in X
      PROVE  FoldOf([comment |-> FALSE, text |-> << >>], G, Append(s, y), V) = G[<<FoldOf([comment |-> FALSE, text |-> << >>], G, s, V), y>>]
  BY <1>2, FoldLaws
<1>8. StripState(<< >>) = [comment |-> FALSE, text |-> << >>]
  BY <1>3, <1>4, <1>5
<1>9. \A s \in Seq(X) : StripState(s) \in V
  BY <1>3, <1>6
<1>10. ASSUME NEW s \in Seq(X), NEW y \in X
       PROVE  StripState(Append(s, y)) = StripStep(StripState(s), y)
  <2>1. Append(s, y) \in Seq(X)
    BY <1>4
  <2>2. StripState(Append(s, y)) = FoldOf([comment |-> FALSE, text |-> << >>], G, Append(s, y), V)
    BY <1>3, <2>1
  <2>3. StripState(s) = FoldOf([comment |-> FALSE, text |-> << >>], G, s, V)
    BY <1>3
  <2>4. StripState(s) \in V
    BY <1>9
  <2> QED BY <1>1, <1>7, <2>2, <2>3, <2>4
<1> QED BY <1>8, <1>9, <1>10 DEF V

(* A comment is open at the end of s. *)
Open(s) == StripState(s).comment

(* StripComments and Open, by the last token. *)
LEMMA StripLaws ==
  ASSUME NEW X, NEW s \in Seq(X)
  PROVE  /\ StripComments(<< >>) = << >> /\ ~Open(<< >>)
         /\ StripComments(s) \in Seq(X) /\ Open(s) \in BOOLEAN
         /\ \A x \in X :
              /\ Open(Append(s, x)) <=> x # "NL" /\ (Open(s) \/ x = "--")
              /\ StripComments(Append(s, x)) =
                   IF Open(s) \/ x \in {"--", "NL"} THEN StripComments(s)
                   ELSE Append(StripComments(s), x)
<1>1. \A r : StripComments(r) = StripState(r).text
  BY DEF StripComments, StripState, StripStep
<1>2. StripState(<< >>) = [comment |-> FALSE, text |-> << >>]
  BY StripStateLaws
<1>3. StripState(s) \in Reading(X)
  BY StripStateLaws
<1>4. \A x \in X : StripState(Append(s, x)) = StripStep(StripState(s), x)
  BY StripStateLaws
<1>5. StripComments(<< >>) = << >> /\ ~Open(<< >>)
  BY <1>1, <1>2 DEF Open
<1>6. StripComments(s) \in Seq(X) /\ Open(s) \in BOOLEAN
  BY <1>1, <1>3 DEF Open, Reading
<1>7. ASSUME NEW x \in X
      PROVE  /\ Open(Append(s, x)) <=> x # "NL" /\ (Open(s) \/ x = "--")
             /\ StripComments(Append(s, x)) =
                  IF Open(s) \/ x \in {"--", "NL"} THEN StripComments(s)
                  ELSE Append(StripComments(s), x)
  <2>1. StripState(Append(s, x)) = StripStep(StripState(s), x)
    BY <1>4
  <2>2. StripStep(StripState(s), x).comment = (x # "NL" /\ (StripState(s).comment \/ x = "--"))
    BY DEF StripStep
  <2>3. StripStep(StripState(s), x).text
          = IF StripState(s).comment \/ x \in {"--", "NL"} THEN StripState(s).text
            ELSE Append(StripState(s).text, x)
    BY DEF StripStep
  <2> QED BY <1>1, <2>1, <2>2, <2>3 DEF Open
<1> QED BY <1>5, <1>6, <1>7

-----------------------------------------------------------------------------
(***************************************************************************)
(* The folds, by concatenation.                                            *)
(***************************************************************************)
(* Concatenation and the last element.                                     *)
LEMMA ConcatAppend ==
  ASSUME NEW X, NEW a \in Seq(X), NEW b \in Seq(X), NEW x \in X
  PROVE  /\ a \o Append(b, x) = Append(a \o b, x)
         /\ a \o b \in Seq(X) /\ Append(b, x) \in Seq(X)
         /\ a \o << >> = a /\ << >> \o a = a
         /\ a \o <<x>> = Append(a, x) /\ <<x>> \in Seq(X)
OBVIOUS

(* Outside comments, a text is stripped piece by piece. *)
LEMMA StripConcat ==
  ASSUME NEW X, NEW a \in Seq(X), ~Open(a)
  PROVE  \A b \in Seq(X) :
           /\ StripComments(a \o b) = StripComments(a) \o StripComments(b)
           /\ Open(a \o b) <=> Open(b)
<1> DEFINE P(b) == /\ StripComments(a \o b) = StripComments(a) \o StripComments(b)
                   /\ Open(a \o b) <=> Open(b)
           S == {b \in Seq(X) : P(b)}
<1>0. StripComments(a) \in Seq(X) /\ StripComments(<< >>) = << >> /\ ~Open(<< >>)
  BY StripLaws
<1>1. << >> \in S
  <2>1. a \o << >> = a /\ StripComments(a) \o << >> = StripComments(a)
    BY <1>0
  <2>2. << >> \in Seq(X)
    OBVIOUS
  <2> QED BY <1>0, <2>1, <2>2
<1>2. ASSUME NEW b \in S, NEW x \in X PROVE Append(b, x) \in S
  <2>1. b \in Seq(X) /\ P(b) /\ Append(b, x) \in Seq(X)
    OBVIOUS
  <2>2. a \o Append(b, x) = Append(a \o b, x) /\ a \o b \in Seq(X)
    BY <2>1, ConcatAppend
  <2>3. /\ Open(Append(b, x)) <=> x # "NL" /\ (Open(b) \/ x = "--")
        /\ StripComments(Append(b, x)) =
             IF Open(b) \/ x \in {"--", "NL"} THEN StripComments(b)
             ELSE Append(StripComments(b), x)
        /\ StripComments(b) \in Seq(X) /\ Open(b) \in BOOLEAN
        /\ Open(Append(b, x)) \in BOOLEAN
    BY <2>1, StripLaws
  <2>4. /\ Open(Append(a \o b, x)) <=> x # "NL" /\ (Open(a \o b) \/ x = "--")
        /\ StripComments(Append(a \o b, x)) =
             IF Open(a \o b) \/ x \in {"--", "NL"} THEN StripComments(a \o b)
             ELSE Append(StripComments(a \o b), x)
        /\ Open(Append(a \o b, x)) \in BOOLEAN
    <3>1. Append(a \o b, x) \in Seq(X)
      BY <2>2
    <3> QED BY <2>2, <3>1, StripLaws
  <2>5. Open(a \o Append(b, x)) <=> Open(Append(b, x))
    BY <2>1, <2>2, <2>3, <2>4
  <2>6. StripComments(a \o Append(b, x)) = StripComments(a) \o StripComments(Append(b, x))
    <3>1. StripComments(a) \o Append(StripComments(b), x)
            = Append(StripComments(a) \o StripComments(b), x)
      BY <1>0, <2>3, ConcatAppend
    <3> QED BY <2>1, <2>2, <2>3, <2>4, <3>1
  <2> QED BY <2>1, <2>5, <2>6
<1>3. \A b \in S : b \in Seq(X)
  OBVIOUS
<1> HIDE DEF P
<1>4. \A b \in Seq(X) : b \in S
  <2> HIDE DEF S
  <2> QED BY <1>1, <1>2, <1>3, SeqInd
<1> QED BY <1>4 DEF P

(* Replacing the last element of a concatenation.                         *)
LEMMA ConcatExcept ==
  ASSUME NEW X, NEW a \in Seq(X), NEW b \in Seq(X), Len(b) \in 1 .. Len(b), NEW e \in X
  PROVE  [(a \o b) EXCEPT ![Len(a \o b)] = e] = a \o [b EXCEPT ![Len(b)] = e]
<1> DEFINE c == a \o b
           u == [c EXCEPT ![Len(c)] = e]
           w == [b EXCEPT ![Len(b)] = e]
<1>0. /\ c \in Seq(X) /\ Len(c) \in 1 .. Len(c)
      /\ Len(a) \in Nat /\ Len(b) \in Nat /\ Len(c) = Len(a) + Len(b)
  OBVIOUS
<1>a. \A i \in 1 .. Len(c) : c[i] = IF i <= Len(a) THEN a[i] ELSE b[i - Len(a)]
  BY <1>0
<1> HIDE DEF c
<1>1. u \in Seq(X) /\ Len(u) = Len(c)
  BY <1>0, ExceptSeq
<1>2. \A i \in 1 .. Len(c) : u[i] = IF i = Len(c) THEN e ELSE c[i]
  BY <1>0, ExceptSeq
<1>3. w \in Seq(X) /\ Len(w) = Len(b)
  BY ExceptSeq
<1>4. \A i \in 1 .. Len(b) : w[i] = IF i = Len(b) THEN e ELSE b[i]
  BY ExceptSeq
<1> HIDE DEF u, w
<1>5. a \o w \in Seq(X) /\ Len(a \o w) = Len(u)
  <2>1. w \in Seq(X)
    BY <1>3
  <2>2. a \o w \in Seq(X) /\ Len(a \o w) = Len(a) + Len(w)
    BY <2>1, ConcatProperties
  <2> QED BY <1>0, <1>1, <1>3, <2>2
<1>6. ASSUME NEW i \in 1 .. Len(u) PROVE u[i] = (a \o w)[i]
  <2>1. (a \o w)[i] = IF i <= Len(a) THEN a[i] ELSE w[i - Len(a)]
    BY <1>0, <1>1, <1>3
  <2>2. c[i] = IF i <= Len(a) THEN a[i] ELSE b[i - Len(a)]
    BY <1>1, <1>a
  <2>3. i > Len(a) => i - Len(a) \in 1 .. Len(b)
    BY <1>0, <1>1
  <2>4. i > Len(a) => w[i - Len(a)] = IF i - Len(a) = Len(b) THEN e ELSE b[i - Len(a)]
    BY <1>4, <2>3
  <2>5. i \in 1 .. Len(c) /\ (i = Len(c) <=> i > Len(a) /\ i - Len(a) = Len(b))
    BY <1>0, <1>1
  <2>6. u[i] = IF i = Len(c) THEN e ELSE c[i]
    BY <1>2, <2>5
  <2> QED BY <2>1, <2>2, <2>4, <2>5, <2>6
<1>7. u = a \o w
  BY <1>1, <1>5, <1>6, SeqEqual
<1> QED BY <1>7 DEF c, u, w

(* The parts of two texts with a separator between them. *)
LEMMA SplitConcat ==
  ASSUME NEW X, NEW sep \in X, NEW a \in Seq(X)
  PROVE  \A b \in Seq(X) :
           SplitBy(Append(a, sep) \o b, sep) = SplitBy(a, sep) \o SplitBy(b, sep)
<1> DEFINE c == Append(a, sep)
           A == SplitBy(a, sep)
           P(b) == SplitBy(c \o b, sep) = A \o SplitBy(b, sep)
           S == {b \in Seq(X) : P(b)}
<1>0. /\ c \in Seq(X) /\ A \in Parts(X)
      /\ SplitBy(c, sep) = Append(A, << >>) /\ SplitBy(<< >>, sep) = << << >> >>
  <2>1. c \in Seq(X)
    OBVIOUS
  <2>2. A \in Parts(X) /\ SplitBy(c, sep) = SplitStep(A, sep, sep)
    BY SplitByLaws
  <2>3. SplitBy(<< >>, sep) = << << >> >>
    BY SplitByLaws
  <2> HIDE DEF A, c
  <2> QED BY <2>1, <2>2, <2>3 DEF SplitStep
<1> HIDE DEF A, c
<1>1. << >> \in S
  <2>1. A \in Seq(Seq(X)) /\ << >> \in Seq(X)
    BY <1>0 DEF Parts
  <2>2. A \o << << >> >> = Append(A, << >>) /\ c \o << >> = c
    BY <1>0, <2>1
  <2> QED BY <1>0, <2>1, <2>2
<1>2. ASSUME NEW b \in S, NEW x \in X PROVE Append(b, x) \in S
  <2> DEFINE B == SplitBy(b, sep)
  <2>1. b \in Seq(X) /\ P(b) /\ Append(b, x) \in Seq(X)
    OBVIOUS
  <2>2. c \o Append(b, x) = Append(c \o b, x) /\ c \o b \in Seq(X)
    BY <1>0, <2>1, ConcatAppend
  <2>3. B \in Parts(X) /\ SplitBy(Append(b, x), sep) = SplitStep(B, x, sep)
    BY <2>1, SplitByLaws
  <2>4. SplitBy(Append(c \o b, x), sep) = SplitStep(A \o B, x, sep)
    BY <2>1, <2>2, SplitByLaws
  <2> HIDE DEF B
  <2>5. SplitStep(A \o B, x, sep) = A \o SplitStep(B, x, sep)
    <3>1. A \in Seq(Seq(X)) /\ B \in Seq(Seq(X)) /\ Len(B) \in 1 .. Len(B)
      BY <1>0, <2>3 DEF Parts
    <3>2. CASE x = sep
      <4>1. A \o Append(B, << >>) = Append(A \o B, << >>)
        BY SMTT(30), <3>1, ConcatAppend
      <4> QED BY <3>2, <4>1 DEF SplitStep
    <3>3. CASE x # sep
      <4> DEFINE e == Append(B[Len(B)], x)
      <4>1. e \in Seq(X)
        BY <3>1
      <4> HIDE DEF e
      <4>2. (A \o B)[Len(A \o B)] = B[Len(B)] /\ Len(A \o B) = Len(A) + Len(B)
        BY <3>1
      <4>3. [(A \o B) EXCEPT ![Len(A \o B)] = e] = A \o [B EXCEPT ![Len(B)] = e]
        BY <3>1, <4>1, ConcatExcept
      <4> QED BY <3>3, <4>2, <4>3 DEF SplitStep, e
    <3> QED BY <3>2, <3>3
  <2> QED BY <2>1, <2>2, <2>3, <2>4, <2>5 DEF B
<1>3. \A b \in S : b \in Seq(X)
  OBVIOUS
<1> HIDE DEF P
<1>4. \A b \in Seq(X) : b \in S
  <2> HIDE DEF S
  <2> QED BY <1>1, <1>2, <1>3, SeqInd
<1> QED BY <1>4 DEF P, A, c

(* Without, by concatenation.                                              *)
LEMMA WithoutConcat ==
  ASSUME NEW X, NEW x, NEW a \in Seq(X)
  PROVE  \A b \in Seq(X) : Without(a \o b, x) = Without(a, x) \o Without(b, x)
<1> DEFINE P(b) == Without(a \o b, x) = Without(a, x) \o Without(b, x)
           S == {b \in Seq(X) : P(b)}
<1>0. Without(a, x) \in Seq(X) /\ Without(<< >>, x) = << >>
  BY WithoutLaws
<1>1. << >> \in S
  <2>1. a \o << >> = a /\ Without(a, x) \o << >> = Without(a, x) /\ << >> \in Seq(X)
    BY <1>0, ConcatEmptySeq
  <2> QED BY <1>0, <2>1
<1>2. ASSUME NEW b \in S, NEW y \in X PROVE Append(b, y) \in S
  <2>1. b \in Seq(X) /\ P(b) /\ Append(b, y) \in Seq(X)
    OBVIOUS
  <2>2. a \o Append(b, y) = Append(a \o b, y) /\ a \o b \in Seq(X)
    BY <2>1, ConcatAppend
  <2>3. Without(b, x) \in Seq(X) /\ Without(Append(b, y), x) = KeepStep(Without(b, x), y, x)
    BY <2>1, WithoutLaws
  <2>4. Without(Append(a \o b, y), x) = KeepStep(Without(a \o b, x), y, x)
    BY <2>2, WithoutLaws
  <2>5. Without(a, x) \o Append(Without(b, x), y) = Append(Without(a, x) \o Without(b, x), y)
    BY <1>0, <2>3, ConcatAppend
  <2> QED BY <2>1, <2>2, <2>3, <2>4, <2>5 DEF KeepStep
<1>3. \A b \in S : b \in Seq(X)
  OBVIOUS
<1> HIDE DEF P
<1>4. \A b \in Seq(X) : b \in S
  <2> HIDE DEF S
  <2> QED BY <1>1, <1>2, <1>3, SeqInd
<1> QED BY <1>4 DEF P

(* A text without separators is one part, and one without x stays as it is. *)
LEMMA NoneToFind ==
  ASSUME NEW X, NEW x
  PROVE  \A s \in Seq(X \ {x}) : SplitBy(s, x) = <<s>> /\ Without(s, x) = s
<1> DEFINE Y == X \ {x}
           S == {s \in Seq(Y) : SplitBy(s, x) = <<s>> /\ Without(s, x) = s}
<1>1. << >> \in S
  <2>1. SplitBy(<< >>, x) = << << >> >>
    BY SplitByLaws
  <2>2. Without(<< >>, x) = << >>
    BY WithoutLaws
  <2>3. << >> \in Seq(Y)
    OBVIOUS
  <2> HIDE DEF Y
  <2> QED BY <2>1, <2>2, <2>3
<1>2. ASSUME NEW s \in S, NEW y \in Y PROVE Append(s, y) \in S
  <2>1. s \in Seq(Y) /\ SplitBy(s, x) = <<s>> /\ Without(s, x) = s /\ y # x
    OBVIOUS
  <2>2. SplitBy(Append(s, y), x) = SplitStep(<<s>>, y, x)
    BY <2>1, SplitByLaws
  <2>3. Without(Append(s, y), x) = KeepStep(s, y, x)
    BY <2>1, WithoutLaws
  <2>4. [<<s>> EXCEPT ![Len(<<s>>)] = Append(s, y)] = <<Append(s, y)>>
    OBVIOUS
  <2>5. SplitStep(<<s>>, y, x) = <<Append(s, y)>>
    <3>1. <<s>>[Len(<<s>>)] = s
      OBVIOUS
    <3> QED BY <2>1, <2>4, <3>1 DEF SplitStep
  <2>6. Append(s, y) \in Seq(Y)
    BY <2>1
  <2> QED BY <2>1, <2>2, <2>3, <2>5, <2>6 DEF KeepStep
<1>3. \A s \in S : s \in Seq(Y)
  OBVIOUS
<1>4. \A s \in Seq(Y) : s \in S
  <2> HIDE DEF S
  <2> QED BY <1>1, <1>2, <1>3, SeqInd
<1> QED BY <1>4

(* Induction over texts, by the last separator.                            *)
LEMMA TextInd ==
  ASSUME NEW X, NEW x \in X, NEW S, \A s \in Seq(X \ {x}) : s \in S,
         \A a \in Seq(X), b \in Seq(X \ {x}) : a \in S => Append(a, x) \o b \in S
  PROVE  \A s \in Seq(X) : s \in S
<1> DEFINE Y == X \ {x}
           Cut(s) == \E a \in Seq(X), b \in Seq(Y) : a \in S /\ s = Append(a, x) \o b
           R == {s \in Seq(X) : s \in Seq(Y) \/ Cut(s)}
<1>1. \A s \in R : s \in S /\ s \in Seq(X)
  OBVIOUS
<1>2. << >> \in R
  OBVIOUS
<1>3. ASSUME NEW s \in R, NEW y \in X PROVE Append(s, y) \in R
  <2>b. s \in S /\ s \in Seq(X)
    <3> HIDE DEF R
    <3> QED BY <1>1
  <2>0. s \in S /\ s \in Seq(X) /\ Append(s, y) \in Seq(X)
    BY <2>b, ConcatAppend
  <2>a. s \in Seq(Y) \/ Cut(s)
    <3> HIDE DEF Cut
    <3> QED OBVIOUS
  <2>1. s \in S /\ s \in Seq(X) /\ (s \in Seq(Y) \/ Cut(s)) /\ Append(s, y) \in Seq(X)
    BY <2>0, <2>a
  <2>2. CASE y = x
    <3>1. Append(s, y) = Append(s, x) \o << >> /\ << >> \in Seq(Y)
      BY <2>1, <2>2, ConcatEmptySeq
    <3> QED BY <2>1, <3>1
  <2>3. CASE y # x /\ s \in Seq(Y)
    <3>1. Append(s, y) \in Seq(Y)
      BY <2>3
    <3> QED BY <2>1, <3>1
  <2>4. CASE y # x /\ Cut(s)
    <3>1. PICK a \in Seq(X), b \in Seq(Y) : a \in S /\ s = Append(a, x) \o b
      BY <2>4
    <3>2. Append(b, y) \in Seq(Y) /\ b \in Seq(X) /\ Append(a, x) \in Seq(X)
      BY <2>4, <3>1
    <3>3. Append(s, y) = Append(a, x) \o Append(b, y)
      <4> DEFINE c == Append(a, x)
      <4> HIDE DEF c
      <4>1. c \in Seq(X) /\ s = c \o b
        BY <3>1, <3>2 DEF c
      <4>2. c \o Append(b, y) = Append(c \o b, y)
        BY <3>2, <4>1, ConcatAppend
      <4> QED BY <4>1, <4>2 DEF c
    <3> QED BY <2>1, <3>1, <3>2, <3>3
  <2> QED BY <2>1, <2>2, <2>3, <2>4
<1>4. \A s \in Seq(X) : s \in R
  <2> HIDE DEF R
  <2> QED BY <1>1, <1>2, <1>3, SeqInd
<1> QED BY <1>1, <1>4

(* No part holds a separator.                                              *)
LEMMA PartsApart ==
  ASSUME NEW X, NEW x \in X
  PROVE  \A s \in Seq(X) : SplitBy(s, x) \in Seq(Seq(X \ {x}))
<1> DEFINE Y == X \ {x}
           S == {s \in Seq(X) : SplitBy(s, x) \in Seq(Seq(Y))}
<1>0. \A s \in Seq(Y) : s \in Seq(X)
  OBVIOUS
<1>1. ASSUME NEW s \in Seq(Y) PROVE s \in S
  <2>1. SplitBy(s, x) = <<s>>
    BY NoneToFind
  <2>2. <<s>> \in Seq(Seq(Y))
    OBVIOUS
  <2> HIDE DEF Y
  <2> QED BY <1>0, <2>1, <2>2
<1>2. ASSUME NEW a \in Seq(X), NEW b \in Seq(Y), a \in S PROVE Append(a, x) \o b \in S
  <2>1. b \in Seq(X) /\ SplitBy(b, x) = <<b>>
    BY <1>0, NoneToFind
  <2>2. SplitBy(Append(a, x) \o b, x) = SplitBy(a, x) \o <<b>>
    <3>1. SplitBy(Append(a, x) \o b, x) = SplitBy(a, x) \o SplitBy(b, x)
      BY <2>1, SplitConcat
    <3> QED BY <2>1, <3>1
  <2>3. SplitBy(a, x) \in Seq(Seq(Y)) /\ Append(a, x) \in Seq(X)
    BY <1>2
  <2>4. <<b>> \in Seq(Seq(Y)) /\ Append(a, x) \o b \in Seq(X)
    BY <2>1, <2>3
  <2>5. SplitBy(a, x) \o <<b>> \in Seq(Seq(Y))
    BY <2>3, <2>4, ConcatProperties
  <2> QED BY <2>2, <2>4, <2>5
<1>3. \A s \in Seq(X) : s \in S
  <2> HIDE DEF S
  <2> QED BY <1>1, <1>2, TextInd
<1> QED BY <1>3

(* Blank lines are stripped.                                               *)
LEMMA Blank ==
  \A s \in Seq({"NL"}) : StripComments(s) = << >> /\ ~Open(s)
<1> DEFINE X == {"NL"}
           S == {s \in Seq(X) : StripComments(s) = << >> /\ ~Open(s)}
<1>1. << >> \in S
  <2>1. << >> \in Seq(X)
    OBVIOUS
  <2> HIDE DEF X
  <2> QED BY <2>1, StripLaws
<1>2. ASSUME NEW s \in S, NEW x \in X PROVE Append(s, x) \in S
  <2>1. s \in Seq(X) /\ StripComments(s) = << >> /\ ~Open(s) /\ x = "NL"
    OBVIOUS
  <2> HIDE DEF X
  <2>2. Append(s, x) \in Seq(X)
    BY <2>1
  <2>3. ~Open(Append(s, x)) /\ StripComments(Append(s, x)) = StripComments(s)
    BY <2>1, StripLaws
  <2> QED BY <2>1, <2>2, <2>3
<1>3. \A s \in S : s \in Seq(X)
  OBVIOUS
<1>4. \A s \in Seq(X) : s \in S
  <2> HIDE DEF S
  <2> QED BY <1>1, <1>2, <1>3, SeqInd
<1> QED BY <1>4

(* Blank lines after a text change nothing.                                *)
LEMMA BlankAfter ==
  ASSUME NEW X, "NL" \in X, NEW a \in Seq(X)
  PROVE  \A s \in Seq({"NL"}) : StripComments(a \o s) = StripComments(a)
<1> DEFINE N == {"NL"}
           S == {s \in Seq(N) : s \in Seq(X) /\ StripComments(a \o s) = StripComments(a)}
<1>1. << >> \in S
  BY ConcatEmptySeq
<1>2. ASSUME NEW s \in S, NEW x \in N PROVE Append(s, x) \in S
  <2>1. /\ s \in Seq(N) /\ s \in Seq(X) /\ StripComments(a \o s) = StripComments(a)
        /\ x = "NL" /\ x \in X
    OBVIOUS
  <2>2. Append(s, x) \in Seq(X) /\ Append(s, x) \in Seq(N)
    BY <2>1
  <2> HIDE DEF N
  <2>3. a \o Append(s, x) = Append(a \o s, x) /\ a \o s \in Seq(X)
    BY <2>1, ConcatAppend
  <2>4. StripComments(Append(a \o s, x)) = StripComments(a \o s)
    BY <2>1, <2>3, StripLaws
  <2> QED BY <2>1, <2>2, <2>3, <2>4
<1>3. \A s \in S : s \in Seq(N)
  OBVIOUS
<1>4. \A s \in Seq(N) : s \in S
  <2> HIDE DEF S
  <2> QED BY <1>1, <1>2, <1>3, SeqInd
<1> QED BY <1>4

(* A text that strips to nothing and leaves no comment open is nothing.    *)
LEMMA StripRest ==
  ASSUME NEW X, NEW a \in Seq(X), StripComments(a) = << >>, ~Open(a), NEW b \in Seq(X)
  PROVE  StripComments(a \o b) = StripComments(b) /\ (Open(a \o b) <=> Open(b))
<1>1. /\ StripComments(a \o b) = StripComments(a) \o StripComments(b)
      /\ Open(a \o b) <=> Open(b)
  BY StripConcat
<1>2. StripComments(b) \in Seq(X)
  BY StripLaws
<1>3. << >> \o StripComments(b) = StripComments(b)
  BY <1>2, ConcatEmptySeq
<1> QED BY <1>1, <1>3

(* A comment line is stripped.                                             *)
LineComment(q) == q # << >> /\ q[1] = "--"

(* A line that begins with a comment has no text, and stays open.          *)
LEMMA LineStripped ==
  ASSUME NEW X
  PROVE  \A q \in Seq(X \ {"NL"}) :
           LineComment(q) => StripComments(q) = << >> /\ Open(q)
<1> DEFINE Y == X \ {"NL"}
           S == {q \in Seq(Y) : LineComment(q) => StripComments(q) = << >> /\ Open(q)}
<1>1. << >> \in S
  BY DEF LineComment
<1>2. ASSUME NEW q \in S, NEW x \in Y PROVE Append(q, x) \in S
  <2>1. /\ q \in Seq(Y) /\ Append(q, x) \in Seq(Y) /\ x # "NL"
        /\ LineComment(q) => StripComments(q) = << >> /\ Open(q)
    OBVIOUS
  <2>2. StripComments(<< >>) = << >>
    BY <2>1, StripLaws
  <2>3. /\ Open(Append(q, x)) <=> x # "NL" /\ (Open(q) \/ x = "--")
        /\ StripComments(Append(q, x)) =
             IF Open(q) \/ x \in {"--", "NL"} THEN StripComments(q)
             ELSE Append(StripComments(q), x)
    BY <2>1, StripLaws
  <2>4. CASE q = << >>
    <3>1. Append(q, x)[1] = x
      BY <2>4
    <3> QED BY <2>1, <2>2, <2>3, <2>4, <3>1 DEF LineComment
  <2>5. CASE q # << >>
    <3>1. Append(q, x)[1] = q[1]
      BY <2>1, <2>5
    <3> QED BY <2>1, <2>3, <2>5, <3>1 DEF LineComment
  <2> QED BY <2>4, <2>5
<1>3. \A q \in S : q \in Seq(Y)
  OBVIOUS
<1>4. \A q \in Seq(Y) : q \in S
  <2> HIDE DEF S
  <2> QED BY <1>1, <1>2, <1>3, SeqInd
<1> QED BY <1>4

(* The first element stays the first if it is kept.                        *)
LEMMA WithoutFirst ==
  ASSUME NEW X, NEW x
  PROVE  \A s \in Seq(X) :
           s # << >> /\ s[1] # x => Without(s, x) # << >> /\ Without(s, x)[1] = s[1]
<1> DEFINE P(s) == s # << >> /\ s[1] # x =>
                     Without(s, x) # << >> /\ Without(s, x)[1] = s[1]
           S == {s \in Seq(X) : P(s)}
<1>1. << >> \in S
  OBVIOUS
<1>2. ASSUME NEW s \in S, NEW y \in X PROVE Append(s, y) \in S
  <2>1. s \in Seq(X) /\ P(s) /\ Append(s, y) \in Seq(X)
    OBVIOUS
  <2>2. /\ Without(s, x) \in Seq(X) /\ Without(<< >>, x) = << >>
        /\ Without(Append(s, y), x) = KeepStep(Without(s, x), y, x)
    BY <2>1, WithoutLaws
  <2>3. CASE s = << >>
    <3>1. Append(s, y)[1] = y
      BY <2>3
    <3>2. y # x => Without(Append(s, y), x) = Append(<< >>, y)
      BY <2>2, <2>3 DEF KeepStep
    <3>3. Append(<< >>, y) # << >> /\ Append(<< >>, y)[1] = y
      OBVIOUS
    <3> QED BY <2>1, <3>1, <3>2, <3>3
  <2>4. CASE s # << >>
    <3>1. Append(s, y)[1] = s[1]
      BY <2>1, <2>4
    <3>2. /\ Append(Without(s, x), y) # << >>
          /\ Without(s, x) # << >> => Append(Without(s, x), y)[1] = Without(s, x)[1]
      BY <2>2
    <3> QED BY <2>1, <2>2, <2>4, <3>1, <3>2 DEF KeepStep
  <2> QED BY <2>3, <2>4
<1>3. \A s \in S : s \in Seq(X)
  OBVIOUS
<1> HIDE DEF P
<1>4. \A s \in Seq(X) : s \in S
  <2> HIDE DEF S
  <2> QED BY <1>1, <1>2, <1>3, SeqInd
<1> QED BY <1>4 DEF P

(* t begins with the first k elements of s; none of these is x.             *)
Begins(t, s, k) ==
  /\ Len(t) >= k
  /\ \A i \in 1 .. k : t[i] = s[i]

Clear(s, k, x) == \A i \in 1 .. k : s[i] # x

(* The words before the first comment are the first ones DuckDB reads.     *)
LEMMA StripBegins ==
  ASSUME NEW X
  PROVE  \A q \in Seq(X) :
           /\ \A k \in 1 .. Len(Blind(q)) :
                Clear(Blind(q), k, "--") => Begins(StripComments(q), Blind(q), k)
           /\ Clear(Blind(q), Len(Blind(q)), "--") => StripComments(q) = Blind(q) /\ ~Open(q)
<1> DEFINE A(q) == \A k \in 1 .. Len(Blind(q)) :
                     Clear(Blind(q), k, "--") => Begins(StripComments(q), Blind(q), k)
           B(q) == Clear(Blind(q), Len(Blind(q)), "--") => StripComments(q) = Blind(q) /\ ~Open(q)
           S == {q \in Seq(X) : A(q) /\ B(q)}
<1>1. << >> \in S
  <2>1. << >> \in Seq(X)
    OBVIOUS
  <2>2. Blind(<< >>) = << >> /\ StripComments(<< >>) = << >> /\ ~Open(<< >>)
    BY <2>1, StripLaws, WithoutLaws DEF Blind
  <2> QED BY <2>1, <2>2
<1>2. ASSUME NEW q \in S, NEW x \in X PROVE Append(q, x) \in S
  <2> DEFINE b == Blind(q)
             t == StripComments(q)
             bx == Blind(Append(q, x))
             tx == StripComments(Append(q, x))
             open == Open(Append(q, x))
  <2>1. q \in Seq(X) /\ Append(q, x) \in Seq(X)
    OBVIOUS
  <2>2. A(q) /\ B(q)
    OBVIOUS
  <2>3. b \in Seq(X) /\ bx = IF x = "NL" THEN b ELSE Append(b, x)
    <3>1. /\ Without(q, "NL") \in Seq(X)
          /\ Without(Append(q, x), "NL") = KeepStep(Without(q, "NL"), x, "NL")
      BY <2>1, WithoutLaws
    <3> QED BY <3>1 DEF KeepStep, Blind
  <2>4. /\ t \in Seq(X)
        /\ open <=> x # "NL" /\ (Open(q) \/ x = "--")
        /\ tx = IF Open(q) \/ x \in {"--", "NL"} THEN t ELSE Append(t, x)
    BY <2>1, StripLaws
  <2>5. /\ \A k \in 1 .. Len(b) : Clear(b, k, "--") => Begins(t, b, k)
        /\ Clear(b, Len(b), "--") => t = b /\ ~Open(q)
    BY <2>2
  <2> HIDE DEF b, t, bx, tx, open
  <2>6. /\ Len(Append(b, x)) = Len(b) + 1 /\ Append(b, x)[Len(b) + 1] = x
        /\ \A i \in 1 .. Len(b) : Append(b, x)[i] = b[i]
        /\ Len(Append(t, x)) = Len(t) + 1 /\ Append(t, x)[Len(t) + 1] = x
        /\ \A i \in 1 .. Len(t) : Append(t, x)[i] = t[i]
        /\ Len(b) \in Nat /\ Len(t) \in Nat
    BY <2>3, <2>4
  <2>7. ASSUME Clear(bx, Len(bx), "--") PROVE tx = bx /\ ~open
    <3>1. x # "NL" => x # "--"
      BY <2>3, <2>6, <2>7 DEF Clear
    <3>2. Clear(b, Len(b), "--")
      BY <2>3, <2>6, <2>7 DEF Clear
    <3> QED BY <2>3, <2>4, <2>5, <3>1, <3>2
  <2>8. ASSUME NEW k \in 1 .. Len(bx), Clear(bx, k, "--") PROVE Begins(tx, bx, k)
    <3>1. CASE k \in 1 .. Len(b)
      <4>1. Clear(b, k, "--")
        BY <2>3, <2>6, <2>8, <3>1 DEF Clear
      <4>2. Begins(t, b, k)
        BY <2>5, <3>1, <4>1
      <4>3. Len(tx) >= Len(t) /\ \A i \in 1 .. Len(t) : tx[i] = t[i]
        BY <2>4, <2>6
      <4>4. \A i \in 1 .. Len(b) : bx[i] = b[i]
        BY <2>3, <2>6
      <4>5. \A i \in 1 .. k : i \in 1 .. Len(b) /\ i \in 1 .. Len(t)
        BY <2>6, <3>1, <4>2 DEF Begins
      <4>6. Len(tx) \in Nat
        BY <2>4, <2>6
      <4> QED BY <2>6, <3>1, <4>2, <4>3, <4>4, <4>5, <4>6 DEF Begins
    <3>2. CASE k \notin 1 .. Len(b)
      <4>1. k = Len(bx)
        BY <2>3, <2>6, <3>2
      <4>2. tx = bx
        BY <2>7, <2>8, <4>1
      <4>3. Len(bx) \in Nat
        BY <2>3, <2>6
      <4> QED BY <4>1, <4>2, <4>3 DEF Begins
    <3> QED BY <3>1, <3>2
  <2>9. A(Append(q, x)) /\ B(Append(q, x))
    BY <2>7, <2>8 DEF bx, tx, open
  <2> QED BY <2>1, <2>9
<1>3. \A q \in S : q \in Seq(X)
  OBVIOUS
<1> HIDE DEF A, B
<1>4. \A q \in Seq(X) : q \in S
  <2> HIDE DEF S
  <2> QED BY <1>1, <1>2, <1>3, SeqInd
<1> QED BY <1>4 DEF A, B

(* What stands where in a text with a separator.                           *)
LEMMA SeparatorPlace ==
  ASSUME NEW X, NEW a \in Seq(X), NEW b \in Seq(X), NEW x \in X
  PROVE  /\ Append(a, x) \o b \in Seq(X) /\ Len(a) \in Nat
         /\ Len(Append(a, x) \o b) >= Len(a) + 1
         /\ (Append(a, x) \o b)[Len(a) + 1] = x
         /\ \A i \in 1 .. Len(a) : (Append(a, x) \o b)[i] = a[i]
<1> DEFINE d == Append(a, x)
           n == Len(a)
<1>1. /\ d \in Seq(X) /\ Len(d) = n + 1 /\ d[n + 1] = x /\ n \in Nat /\ Len(b) \in Nat
      /\ \A i \in 1 .. n : d[i] = a[i]
  OBVIOUS
<1> HIDE DEF d
<1>2. /\ d \o b \in Seq(X) /\ Len(d \o b) = Len(d) + Len(b)
      /\ \A i \in 1 .. Len(d) : (d \o b)[i] = d[i]
  BY SMTT(30), <1>1
<1> QED BY <1>1, <1>2 DEF d

(* The words before the first separator begin the first part.              *)
LEMMA PartBegins ==
  ASSUME NEW X, NEW x \in X
  PROVE  \A s \in Seq(X) : \A k \in 1 .. Len(s) :
           Clear(s, k, x) => Begins(SplitBy(s, x)[1], s, k)
<1> DEFINE Y == X \ {x}
           P(s) == \A k \in 1 .. Len(s) :
                     Clear(s, k, x) => Begins(SplitBy(s, x)[1], s, k)
           S == {s \in Seq(X) : P(s)}
<1>0. \A s \in Seq(Y) : s \in Seq(X)
  OBVIOUS
<1>1. ASSUME NEW s \in Seq(Y) PROVE s \in S
  <2>1. SplitBy(s, x) = <<s>>
    BY NoneToFind
  <2>2. SplitBy(s, x)[1] = s /\ Len(s) \in Nat
    BY <2>1
  <2>3. P(s)
    BY <2>2 DEF Begins
  <2> QED BY <1>0, <2>3
<1>2. ASSUME NEW a \in Seq(X), NEW b \in Seq(Y), a \in S PROVE Append(a, x) \o b \in S
  <2> DEFINE c == Append(a, x) \o b
             A == SplitBy(a, x)
  <2>1. b \in Seq(X) /\ SplitBy(b, x) = <<b>>
    BY <1>0, NoneToFind
  <2>2. SplitBy(c, x) = A \o <<b>>
    <3>1. SplitBy(c, x) = A \o SplitBy(b, x)
      BY <2>1, SplitConcat
    <3> QED BY <2>1, <3>1
  <2>3. A \in Seq(Seq(X)) /\ A # << >>
    BY SplitByLaws DEF Parts
  <2>4. <<b>> \in Seq(Seq(X))
    BY <2>1
  <2>5. (A \o <<b>>)[1] = A[1]
    <3> DEFINE t == <<b>>
    <3>1. t \in Seq(Seq(X))
      BY <2>4
    <3> HIDE DEF A, t
    <3>2. (A \o t)[1] = A[1]
      BY <2>3, <3>1
    <3> QED BY <3>2 DEF t
  <2>6. /\ c \in Seq(X) /\ Len(a) \in Nat /\ Len(c) >= Len(a) + 1 /\ c[Len(a) + 1] = x
        /\ \A i \in 1 .. Len(a) : c[i] = a[i]
    BY <2>1, SeparatorPlace
  <2>7. P(a)
    <3> HIDE DEF P
    <3> QED BY <1>2
  <2> HIDE DEF c, A
  <2>8. ASSUME NEW k \in 1 .. Len(c), Clear(c, k, x) PROVE Begins(SplitBy(c, x)[1], c, k)
    <3>1. k <= Len(a) /\ k \in 1 .. Len(a)
      BY <2>6, <2>8 DEF Clear
    <3>2. Clear(a, k, x)
      BY <2>6, <2>8, <3>1 DEF Clear
    <3>3. Begins(A[1], a, k)
      BY <2>7, <3>1, <3>2 DEF A
    <3> QED BY <2>2, <2>5, <2>6, <3>1, <3>3 DEF Begins
  <2> QED BY <2>6, <2>8 DEF c
<1>3. \A s \in Seq(X) : s \in S
  <2> HIDE DEF S
  <2> QED BY <1>1, <1>2, TextInd
<1> QED BY <1>3

(* Min of a nonempty set of numbers (FiniteSetsExt).                       *)
LEMMA MinOf ==
  ASSUME NEW t \in SUBSET Nat, t # {}
  PROVE  Min(t) \in t /\ \A y \in t : Min(t) <= y
<1>1. \E m \in t : \A y \in t : m <= y
  BY LeastNat
<1> QED BY <1>1 DEF Min

(* Blanks in the blind text.                                               *)
LEMMA BlankBlind ==
  \A s \in Seq({"NL"}) : Blind(s) = << >>
<1> DEFINE X == {"NL"}
           S == {s \in Seq(X) : Without(s, "NL") = << >>}
<1>1. << >> \in S
  <2>1. << >> \in Seq(X)
    OBVIOUS
  <2> HIDE DEF X
  <2> QED BY <2>1, WithoutLaws
<1>2. ASSUME NEW s \in S, NEW x \in X PROVE Append(s, x) \in S
  <2>1. s \in Seq(X) /\ Without(s, "NL") = << >> /\ x = "NL"
    OBVIOUS
  <2> HIDE DEF X
  <2>2. Append(s, x) \in Seq(X)
    BY <2>1
  <2>3. Without(Append(s, x), "NL") = KeepStep(Without(s, "NL"), x, "NL")
    BY <2>1, WithoutLaws
  <2> QED BY <2>1, <2>2, <2>3 DEF KeepStep
<1>3. \A s \in S : s \in Seq(X)
  OBVIOUS
<1>4. \A s \in Seq(X) : s \in S
  <2> HIDE DEF S
  <2> QED BY <1>1, <1>2, <1>3, SeqInd
<1> QED BY <1>4 DEF Blind

(* A text is its trimmed text between blank lines.                         *)
LEMMA TrimLaws ==
  ASSUME NEW X, NEW s \in Seq(X)
  PROVE  /\ Trim(s) \in Seq(X)
         /\ \E u, v \in Seq({"NL"}) :
              /\ u \in Seq(X) /\ v \in Seq(X)
              /\ s = (u \o Trim(s)) \o v
         /\ Trim(s) # << >> => Trim(s)[1] # "NL"
         /\ s # << >> /\ s[1] # "NL" => Trim(s) # << >> /\ Trim(s)[1] = s[1]
<1> DEFINE n == Len(s)
           dark == {i \in 1 .. n : s[i] # "NL"}
<1>0. n \in Nat /\ (s # << >> => 1 \in 1 .. n)
  OBVIOUS
<1>1. CASE dark = {}
  <2>1. Trim(s) = << >>
    BY <1>1 DEF Trim
  <2>2. \A i \in 1 .. n : s[i] = "NL"
    BY <1>1
  <2>3. s \in Seq({"NL"})
    BY <2>2
  <2>4. << >> \in Seq({"NL"}) /\ << >> \in Seq(X) /\ s = (s \o << >>) \o << >>
    BY ConcatEmptySeq
  <2> HIDE DEF n, dark
  <2> QED BY <1>0, <2>1, <2>2, <2>3, <2>4
<1>2. CASE dark # {}
  <2> DEFINE lo == Min(dark)
             hi == Max(dark)
             u == SubSeq(s, 1, lo - 1)
             t == SubSeq(s, lo, hi)
             v == SubSeq(s, hi + 1, n)
  <2>1. Trim(s) = t
    BY <1>2 DEF Trim
  <2>2. dark \in SUBSET Nat /\ dark \in SUBSET (1 .. n)
    BY <1>0
  <2>3. lo \in dark /\ hi \in dark /\ \A y \in dark : lo <= y /\ y <= hi
    <3>1. lo \in dark /\ \A y \in dark : lo <= y
      <4> HIDE DEF dark
      <4> QED BY <1>2, <2>2, MinOf
    <3>2. hi \in dark /\ \A y \in dark : y <= hi
      <4> HIDE DEF dark
      <4> QED BY <1>0, <1>2, <2>2, MaxOf
    <3> QED BY <3>1, <3>2
  <2>4. lo \in 1 .. n /\ hi \in 1 .. n /\ s[lo] # "NL" /\ s[hi] # "NL" /\ lo <= hi
    BY <2>3
  <2>5. \A i \in 1 .. n : i < lo \/ i > hi => s[i] = "NL"
    BY <1>0, <2>3, <2>4
  <2> HIDE DEF n, dark, lo, hi
  <2>6. u \in Seq({"NL"}) /\ u \in Seq(X)
    <3>1. u \in Seq(X) /\ Len(u) = lo - 1 /\ \A i \in 1 .. lo - 1 : u[i] = s[i]
      BY <1>0, <2>4 DEF n
    <3>2. \A i \in 1 .. lo - 1 : u[i] = "NL"
      BY <1>0, <2>4, <2>5, <3>1
    <3> HIDE DEF u
    <3>3. u \in Seq({"NL"})
      BY <2>4, <3>1, <3>2
    <3> QED BY <3>1, <3>3
  <2>7. v \in Seq({"NL"}) /\ v \in Seq(X)
    <3>1. v \in Seq(X) /\ Len(v) = n - hi /\ \A i \in 1 .. n - hi : v[i] = s[hi + i]
      BY <1>0, <2>4 DEF n
    <3>2. \A i \in 1 .. n - hi : v[i] = "NL"
      BY <1>0, <2>4, <2>5, <3>1
    <3> HIDE DEF v
    <3>3. v \in Seq({"NL"})
      BY <1>0, <2>4, <3>1, <3>2
    <3> QED BY <3>1, <3>3
  <2>8. t \in Seq(X) /\ t # << >> /\ t[1] = s[lo]
    BY <1>0, <2>4 DEF n
  <2>9. s = (u \o t) \o v
    <3>1. SubSeq(s, 1, lo - 1) \o SubSeq(s, lo - 1 + 1, hi) = SubSeq(s, 1, hi)
      BY <1>0, <2>4, ConcatAdjacentSubSeq DEF n
    <3>2. SubSeq(s, 1, hi) \o SubSeq(s, hi + 1, n) = SubSeq(s, 1, n)
      BY <1>0, <2>4, ConcatAdjacentSubSeq DEF n
    <3>3. SubSeq(s, 1, n) = s
      BY DEF n
    <3>4. lo - 1 + 1 = lo
      BY <2>4
    <3> QED BY <3>1, <3>2, <3>3, <3>4
  <2>10. s # << >> /\ s[1] # "NL" => lo = 1
    BY <1>0, <2>4, <2>5
  <2> HIDE DEF u, t, v
  <2> QED BY <2>1, <2>4, <2>6, <2>7, <2>8, <2>9, <2>10
<1> QED BY <1>1, <1>2

(* Trimming changes neither the words nor the statements.                  *)
LEMMA TrimKeeps ==
  ASSUME NEW X, "NL" \in X, NEW s \in Seq(X)
  PROVE  /\ Blind(Trim(s)) = Blind(s)
         /\ StripComments(Trim(s)) = StripComments(s)
         /\ SqlStatements(Trim(s)) = SqlStatements(s)
<1>1. PICK u \in Seq({"NL"}), v \in Seq({"NL"}) :
        u \in Seq(X) /\ v \in Seq(X) /\ s = (u \o Trim(s)) \o v
  BY TrimLaws
<1> DEFINE t == Trim(s)
<1>2. t \in Seq(X)
  BY TrimLaws
<1>3. s = (u \o t) \o v
  BY <1>1
<1> HIDE DEF t
<1>4. u \o t \in Seq(X)
  BY <1>1, <1>2, ConcatProperties
<1>5. StripComments(t) = StripComments(s)
  <2>1. StripComments(u) = << >> /\ ~Open(u)
    BY Blank
  <2>2. StripComments(u \o t) = StripComments(t)
    BY <1>1, <1>2, <2>1, StripRest
  <2>3. StripComments((u \o t) \o v) = StripComments(u \o t)
    BY <1>4, BlankAfter
  <2> QED BY <1>3, <2>2, <2>3
<1>6. Blind(t) = Blind(s)
  <2>1. Blind(u) = << >> /\ Blind(v) = << >>
    BY BlankBlind
  <2>2. Blind(u \o t) = Blind(u) \o Blind(t)
    BY <1>1, <1>2, WithoutConcat DEF Blind
  <2>3. Blind((u \o t) \o v) = Blind(u \o t) \o Blind(v)
    BY <1>1, <1>4, WithoutConcat DEF Blind
  <2>4. Blind(t) \in Seq(X)
    BY <1>2, WithoutLaws DEF Blind
  <2>5. << >> \o Blind(t) = Blind(t) /\ Blind(t) \o << >> = Blind(t)
    BY <2>4, ConcatEmptySeq
  <2> QED BY <1>3, <2>1, <2>2, <2>3, <2>5
<1> QED BY <1>5, <1>6 DEF SqlStatements, t

-----------------------------------------------------------------------------
(***************************************************************************)
(* What DuckDB reads in a text and in a sequence of queries.               *)
(***************************************************************************)
(* The first of the nonempty parts of t begins as t does.                  *)
LEMMA FirstOfParts ==
  ASSUME NEW X, NEW x \in X, NEW t \in Seq(X), NEW b \in Seq(X), NEW k \in 1 .. Len(b),
         Begins(t, b, k), Clear(b, k, x)
  PROVE  /\ Without(SplitBy(t, x), << >>) # << >>
         /\ Begins(Without(SplitBy(t, x), << >>)[1], b, k)
<1> DEFINE ps == SplitBy(t, x)
<1>1. k \in 1 .. Len(t) /\ Clear(t, k, x)
  <2>1. Len(t) \in Nat /\ Len(b) \in Nat
    OBVIOUS
  <2> QED BY <2>1 DEF Begins, Clear
<1>2. Begins(ps[1], t, k)
  BY <1>1, PartBegins
<1>3. ps \in Seq(Seq(X)) /\ ps # << >>
  BY SplitByLaws DEF Parts
<1> HIDE DEF ps
<1>4. ps[1] # << >>
  BY <1>1, <1>2 DEF Begins
<1>5. Without(ps, << >>) # << >> /\ Without(ps, << >>)[1] = ps[1]
  BY <1>3, <1>4, WithoutFirst
<1>6. Begins(ps[1], b, k)
  BY <1>2 DEF Begins
<1> QED BY <1>5, <1>6 DEF ps

(* Without, on one element.                                                *)
LEMMA WithoutOne ==
  ASSUME NEW X, NEW y \in X, NEW x
  PROVE  Without(<<y>>, x) = IF y = x THEN << >> ELSE <<y>>
<1>1. << >> \in Seq(X) /\ Append(<< >>, y) = <<y>>
  OBVIOUS
<1>2. /\ Without(<< >>, x) = << >>
      /\ Without(Append(<< >>, y), x) = KeepStep(Without(<< >>, x), y, x)
  BY <1>1, WithoutLaws
<1> QED BY <1>1, <1>2 DEF KeepStep

(* X holds the separators. *)
Marked(X) == ";" \in X /\ "NL" \in X

(* Outside comments, a semicolon separates the statements; a text without  *)
(* semicolons is one statement or none.                                    *)
LEMMA SqlLaws ==
  ASSUME NEW X, Marked(X)
  PROVE  /\ \A s \in Seq(X) : SqlStatements(s) \in Seq(Seq(X))
         /\ SqlStatements(<< >>) = << >>
         /\ \A a, b \in Seq(X) : ~Open(a) =>
              SqlStatements(Append(a, ";") \o b) = SqlStatements(a) \o SqlStatements(b)
         /\ \A b \in Seq(X \ {";"}) :
              SqlStatements(b) = IF StripComments(b) = << >> THEN << >>
                                 ELSE <<StripComments(b)>>
<1>1. ASSUME NEW s \in Seq(X) PROVE SqlStatements(s) \in Seq(Seq(X))
  <2>1. StripComments(s) \in Seq(X)
    BY StripLaws
  <2>2. SplitBy(StripComments(s), ";") \in Seq(Seq(X))
    BY <2>1, SplitByLaws DEF Parts
  <2> QED BY <2>2, WithoutLaws DEF SqlStatements
<1>2. ASSUME NEW a \in Seq(X), NEW b \in Seq(X), ~Open(a)
      PROVE  SqlStatements(Append(a, ";") \o b) = SqlStatements(a) \o SqlStatements(b)
  <2> DEFINE c == Append(a, ";")
             sa == StripComments(a)
             sb == StripComments(b)
  <2>1. sa \in Seq(X) /\ sb \in Seq(X)
    BY StripLaws
  <2>2. c \in Seq(X)
    BY ConcatAppend DEF Marked
  <2>3. ~Open(c) /\ StripComments(c) = Append(sa, ";")
    <3> DEFINE x == ";"
    <3>1. x \in X /\ x # "--" /\ x # "NL"
      BY DEF Marked
    <3> HIDE DEF x
    <3>2. ~Open(Append(a, x)) /\ StripComments(Append(a, x)) = Append(sa, x)
      BY <1>2, <3>1, StripLaws
    <3> QED BY <3>2 DEF x
  <2> HIDE DEF c, sa, sb
  <2>4. StripComments(c \o b) = Append(sa, ";") \o sb
    <3>1. /\ StripComments(c \o b) = StripComments(c) \o StripComments(b)
          /\ Open(c \o b) <=> Open(b)
      BY <2>2, <2>3, StripConcat
    <3> QED BY <2>3, <3>1 DEF sb
  <2>5. SplitBy(Append(sa, ";") \o sb, ";") = SplitBy(sa, ";") \o SplitBy(sb, ";")
    BY <2>1, SplitConcat DEF Marked
  <2>6. SplitBy(sa, ";") \in Seq(Seq(X)) /\ SplitBy(sb, ";") \in Seq(Seq(X))
    BY <2>1, SplitByLaws DEF Parts
  <2>7. Without(SplitBy(sa, ";") \o SplitBy(sb, ";"), << >>)
          = Without(SplitBy(sa, ";"), << >>) \o Without(SplitBy(sb, ";"), << >>)
    BY <2>6, WithoutConcat
  <2> QED BY <2>4, <2>5, <2>7 DEF SqlStatements, c, sa, sb
<1>3. ASSUME NEW b \in Seq(X \ {";"})
      PROVE  SqlStatements(b) = IF StripComments(b) = << >> THEN << >>
                                ELSE <<StripComments(b)>>
  <2> DEFINE t == StripComments(b)
  <2>1. t \in Seq(X \ {";"})
    BY StripLaws
  <2> HIDE DEF t
  <2>2. SplitBy(t, ";") = <<t>>
    BY <2>1, NoneToFind
  <2>3. Without(<<t>>, << >>) = IF t = << >> THEN << >> ELSE <<t>>
    BY <2>1, WithoutOne
  <2> QED BY <2>2, <2>3 DEF SqlStatements, t
<1>4. SqlStatements(<< >>) = << >>
  <2>1. << >> \in Seq(X \ {";"})
    OBVIOUS
  <2>2. StripComments(<< >>) = << >>
    BY <2>1, StripLaws
  <2> QED BY <1>3, <2>1, <2>2
<1> QED BY <1>1, <1>2, <1>3, <1>4

(* The first statement begins with the words that the query begins with,   *)
(* up to the first comment or semicolon.                                   *)
LEMMA SqlBegins ==
  ASSUME NEW X, Marked(X), NEW q \in Seq(X), NEW k \in 1 .. Len(Blind(q)),
         Clear(Blind(q), k, "--"), Clear(Blind(q), k, ";")
  PROVE  SqlStatements(q) # << >> /\ Begins(SqlStatements(q)[1], Blind(q), k)
<1>1. StripComments(q) \in Seq(X) /\ Blind(q) \in Seq(X)
  BY StripLaws, WithoutLaws DEF Blind
<1>2. Begins(StripComments(q), Blind(q), k)
  BY StripBegins
<1>3. ";" \in X
  BY DEF Marked
<1> QED BY <1>1, <1>2, <1>3, FirstOfParts DEF SqlStatements

IsFlat(f, ss) == f = [i \in 1 .. Len(ss) |-> IF i = 1 THEN ss[i] ELSE f[i - 1] \o ss[i]]

(* FlattenSeq is well defined.                                             *)
LEMMA FlatExists ==
  ASSUME NEW Z
  PROVE  \A ss \in Seq(Seq(Z)) :
           \E f : IsFlat(f, ss) /\ \A i \in 1 .. Len(ss) : f[i] \in Seq(Z)
<1> DEFINE P(ss) == \E f : IsFlat(f, ss) /\ \A i \in 1 .. Len(ss) : f[i] \in Seq(Z)
           S == {ss \in Seq(Seq(Z)) : P(ss)}
<1>1. << >> \in S
  <2> DEFINE f == [i \in 1 .. Len(<< >>) |-> 0]
  <2>1. IsFlat(f, << >>) /\ \A i \in 1 .. Len(<< >>) : f[i] \in Seq(Z)
    BY DEF IsFlat
  <2> HIDE DEF f
  <2> QED BY <2>1
<1>2. ASSUME NEW ss \in S, NEW t \in Seq(Z) PROVE Append(ss, t) \in S
  <2> DEFINE n == Len(ss)
             st == Append(ss, t)
  <2>1. ss \in Seq(Seq(Z)) /\ P(ss)
    OBVIOUS
  <2>2. PICK f : IsFlat(f, ss) /\ \A i \in 1 .. n : f[i] \in Seq(Z)
    BY <2>1
  <2>3. /\ n \in Nat /\ st \in Seq(Seq(Z)) /\ Len(st) = n + 1 /\ st[n + 1] = t
        /\ \A i \in 1 .. n : st[i] = ss[i] /\ ss[i] \in Seq(Z)
    BY <2>1
  <2> HIDE DEF n, st
  <2> DEFINE g == [i \in 1 .. n + 1 |->
                     IF i = n + 1 THEN IF n = 0 THEN t ELSE f[n] \o t ELSE f[i]]
  <2>4. \A i \in 1 .. n + 1 : g[i] \in Seq(Z)
    <3>1. n # 0 => f[n] \o t \in Seq(Z)
      BY <2>2, <2>3, ConcatProperties
    <3> QED BY <2>2, <2>3, <3>1
  <2>5. ASSUME NEW i \in 1 .. n + 1
        PROVE  g[i] = IF i = 1 THEN st[i] ELSE g[i - 1] \o st[i]
    <3>1. CASE i = n + 1
      BY <2>3, <3>1
    <3>2. CASE i # n + 1
      <4>1. i \in 1 .. n /\ (i # 1 => i - 1 \in 1 .. n)
        BY <2>3, <3>2
      <4>2. f[i] = IF i = 1 THEN ss[i] ELSE f[i - 1] \o ss[i]
        BY <2>2, <4>1 DEF IsFlat, n
      <4>3. g[i] = f[i] /\ (i # 1 => g[i - 1] = f[i - 1])
        BY <2>3, <4>1
      <4> QED BY <2>3, <4>1, <4>2, <4>3
    <3> QED BY <3>1, <3>2
  <2>6. IsFlat(g, st)
    <3>1. g = [i \in 1 .. n + 1 |-> g[i]]
      OBVIOUS
    <3> HIDE DEF g
    <3> QED BY <2>3, <2>5, <3>1 DEF IsFlat
  <2> HIDE DEF g
  <2> QED BY <2>3, <2>4, <2>6 DEF st
<1>3. \A ss \in S : ss \in Seq(Seq(Z))
  OBVIOUS
<1> HIDE DEF P
<1>4. \A ss \in Seq(Seq(Z)) : ss \in S
  <2> HIDE DEF S
  <2> QED BY <1>1, <1>2, <1>3, SeqInd
<1> QED BY <1>4 DEF P

(* FlattenSeq, by the last element.                                        *)
LEMMA FlattenLaws ==
  ASSUME NEW Z
  PROVE  /\ FlattenSeq(<< >>) = << >>
         /\ \A ss \in Seq(Seq(Z)) : FlattenSeq(ss) \in Seq(Z)
         /\ \A ss \in Seq(Seq(Z)), t \in Seq(Z) :
              FlattenSeq(Append(ss, t)) = FlattenSeq(ss) \o t
<1> DEFINE F(ss) == CHOOSE f : IsFlat(f, ss)
<1>1. FlattenSeq(<< >>) = << >>
  BY DEF FlattenSeq
<1>2. ASSUME NEW ss \in Seq(Seq(Z)), Len(ss) # 0
      PROVE  FlattenSeq(ss) = F(ss)[Len(ss)]
  BY <1>2 DEF FlattenSeq, IsFlat
<1>3. ASSUME NEW ss \in Seq(Seq(Z)) PROVE IsFlat(F(ss), ss)
  BY FlatExists
<1> HIDE DEF F
<1>4. ASSUME NEW ss \in Seq(Seq(Z)), NEW f, NEW g, IsFlat(f, ss),
             NEW t \in Seq(Z), IsFlat(g, Append(ss, t))
      PROVE  \A i \in 1 .. Len(ss) : g[i] = f[i]
  <2> DEFINE n == Len(ss)
             T == {k \in Nat : k \in 1 .. n => g[k] = f[k]}
  <2>1. n \in Nat /\ \A i \in 1 .. n : /\ Append(ss, t)[i] = ss[i]
                                      /\ i \in 1 .. Len(Append(ss, t))
    OBVIOUS
  <2>2. ASSUME NEW i \in 1 .. n
        PROVE  /\ f[i] = IF i = 1 THEN ss[i] ELSE f[i - 1] \o ss[i]
               /\ g[i] = IF i = 1 THEN ss[i] ELSE g[i - 1] \o ss[i]
    BY <1>4, <2>1 DEF IsFlat
  <2> HIDE DEF n
  <2>3. 0 \in T
    OBVIOUS
  <2>4. ASSUME NEW k \in T PROVE k + 1 \in T
    <3>1. k \in Nat /\ (k \in 1 .. n => g[k] = f[k])
      OBVIOUS
    <3>2. k + 1 - 1 = k /\ (k + 1 # 1 /\ k + 1 \in 1 .. n => k \in 1 .. n)
      BY <2>1, <3>1
    <3>3. k + 1 \in 1 .. n => g[k + 1] = f[k + 1]
      BY <2>2, <3>1, <3>2
    <3> QED BY <3>1, <3>3
  <2>5. T = Nat
    <3> HIDE DEF T
    <3>1. T \in SUBSET Nat
      BY DEF T
    <3> QED BY <2>3, <2>4, <3>1, NatInd
  <2>6. \A i \in 1 .. n : i \in T
    BY <2>1, <2>5
  <2> QED BY <2>6 DEF n
<1>5. ASSUME NEW ss \in Seq(Seq(Z)) PROVE FlattenSeq(ss) \in Seq(Z)
  <2>1. CASE Len(ss) = 0
    <3>1. ss = << >>
      BY <2>1
    <3>2. << >> \in Seq(Z)
      OBVIOUS
    <3> QED BY <1>1, <3>1, <3>2
  <2>2. CASE Len(ss) # 0
    <3>1. PICK f : IsFlat(f, ss) /\ \A i \in 1 .. Len(ss) : f[i] \in Seq(Z)
      BY FlatExists
    <3> DEFINE g == F(ss)
    <3>2. IsFlat(g, ss)
      BY <1>3
    <3> HIDE DEF g
    <3>3. Len(ss) \in Nat /\ Len(ss) \in 1 .. Len(ss)
      BY <2>2
    <3>4. \A i \in 1 .. Len(ss) : g[i] = f[i]
      <4> DEFINE n == Len(ss)
                 T == {k \in Nat : k \in 1 .. n => g[k] = f[k]}
      <4>1. \A i \in 1 .. n :
              /\ f[i] = IF i = 1 THEN ss[i] ELSE f[i - 1] \o ss[i]
              /\ g[i] = IF i = 1 THEN ss[i] ELSE g[i - 1] \o ss[i]
        BY <3>1, <3>2 DEF IsFlat
      <4> HIDE DEF n
      <4>2. 0 \in T
        OBVIOUS
      <4>3. ASSUME NEW k \in T PROVE k + 1 \in T
        <5>1. k \in Nat /\ (k \in 1 .. n => g[k] = f[k])
          OBVIOUS
        <5>2. k + 1 - 1 = k /\ (k + 1 # 1 /\ k + 1 \in 1 .. n => k \in 1 .. n)
          BY <3>3, <5>1 DEF n
        <5>3. k + 1 \in 1 .. n => g[k + 1] = f[k + 1]
          BY <4>1, <5>1, <5>2
        <5> QED BY <5>1, <5>3
      <4>4. T = Nat
        <5> HIDE DEF T
        <5>1. T \in SUBSET Nat
          BY DEF T
        <5> QED BY <4>2, <4>3, <5>1, NatInd
      <4>5. ASSUME NEW i \in 1 .. n PROVE g[i] = f[i]
        <5>1. i \in Nat
          BY <3>3 DEF n
        <5>2. i \in T
          BY <4>4, <5>1
        <5> QED BY <5>2
      <4> QED BY <4>5 DEF n
    <3> QED BY <1>2, <2>2, <3>1, <3>3, <3>4 DEF g
  <2> QED BY <2>1, <2>2
<1>6. ASSUME NEW ss \in Seq(Seq(Z)), NEW t \in Seq(Z)
      PROVE  FlattenSeq(Append(ss, t)) = FlattenSeq(ss) \o t
  <2> DEFINE n == Len(ss)
             st == Append(ss, t)
             f == F(ss)
             g == F(st)
  <2>1. st \in Seq(Seq(Z)) /\ Len(st) = n + 1 /\ st[n + 1] = t /\ n \in Nat
    OBVIOUS
  <2>2. IsFlat(f, ss) /\ IsFlat(g, st)
    BY <1>3, <2>1
  <2>3. FlattenSeq(st) = g[n + 1]
    <3>1. n + 1 # 0
      BY <2>1
    <3>2. FlattenSeq(st) = F(st)[Len(st)]
      <4> HIDE DEF st, n
      <4> QED BY <1>2, <2>1, <3>1
    <3> HIDE DEF st, n
    <3> QED BY <2>1, <3>2
  <2>4. n # 0 => FlattenSeq(ss) = f[n]
    BY <1>2
  <2> HIDE DEF f, g
  <2>5. g[n + 1] = IF n + 1 = 1 THEN t ELSE g[n] \o t
    <3>1. \A i \in 1 .. Len(st) : g[i] = IF i = 1 THEN st[i] ELSE g[i - 1] \o st[i]
      BY <2>2 DEF IsFlat
    <3>2. n + 1 \in 1 .. Len(st) /\ n + 1 - 1 = n
      BY <2>1
    <3> HIDE DEF st, n
    <3> QED BY <2>1, <3>1, <3>2
  <2>6. \A i \in 1 .. n : g[i] = f[i]
    BY <1>4, <2>2
  <2>7. n = 0 => FlattenSeq(ss) \o t = t
    <3>1. n = 0 => ss = << >>
      OBVIOUS
    <3>2. << >> \o t = t
      BY ConcatEmptySeq
    <3> QED BY <1>1, <3>1, <3>2
  <2> HIDE DEF n, st
  <2>8. n # 0 => n \in 1 .. n /\ n + 1 # 1
    BY <2>1
  <2>9. n = 0 => n + 1 = 1
    OBVIOUS
  <2>10. CASE n = 0
    BY <2>3, <2>5, <2>7, <2>9, <2>10 DEF st
  <2>11. CASE n # 0
    BY <2>3, <2>4, <2>5, <2>6, <2>8, <2>11 DEF st
  <2> QED BY <2>10, <2>11
<1> QED BY <1>1, <1>5, <1>6

(* The statements of a sequence of queries. *)
SqlOf(queries) == [i \in 1 .. Len(queries) |-> SqlStatements(queries[i])]
FlatSql(queries) == FlattenSeq(SqlOf(queries))

(* FlatSql, by the last query.                                             *)
LEMMA FlatSqlStep ==
  ASSUME NEW X, Marked(X)
  PROVE  /\ FlatSql(<< >>) = << >>
         /\ \A qs \in Seq(Seq(X)) : FlatSql(qs) \in Seq(Seq(X))
         /\ \A qs \in Seq(Seq(X)), q \in Seq(X) :
              FlatSql(Append(qs, q)) = FlatSql(qs) \o SqlStatements(q)
<1> DEFINE Z == Seq(X)
<1>1. \A q \in Z : SqlStatements(q) \in Seq(Z)
  BY SqlLaws
<1> HIDE DEF Z
<1>2. ASSUME NEW qs \in Seq(Z) PROVE SqlOf(qs) \in Seq(Seq(Z)) /\ Len(SqlOf(qs)) = Len(qs)
  <2>1. Len(qs) \in Nat /\ \A i \in 1 .. Len(qs) : SqlStatements(qs[i]) \in Seq(Z)
    BY <1>1
  <2> QED BY <2>1 DEF SqlOf
<1>3. ASSUME NEW qs \in Seq(Z), NEW q \in Z
      PROVE  SqlOf(Append(qs, q)) = Append(SqlOf(qs), SqlStatements(q))
  <2> DEFINE n == Len(qs)
             u == SqlOf(qs)
             w == SqlOf(Append(qs, q))
             e == SqlStatements(q)
  <2>1. /\ Append(qs, q) \in Seq(Z) /\ Len(Append(qs, q)) = n + 1 /\ n \in Nat
        /\ Append(qs, q)[n + 1] = q /\ \A i \in 1 .. n : Append(qs, q)[i] = qs[i]
    OBVIOUS
  <2>2. u \in Seq(Seq(Z)) /\ Len(u) = n /\ e \in Seq(Z)
    BY <1>1, <1>2
  <2>3. w \in Seq(Seq(Z)) /\ Len(w) = n + 1
    BY <1>2, <2>1
  <2>4. \A i \in 1 .. n + 1 : w[i] = IF i = n + 1 THEN e ELSE u[i]
    BY <2>1 DEF SqlOf
  <2> HIDE DEF u, w, e, n
  <2>5. /\ Append(u, e) \in Seq(Seq(Z)) /\ Len(Append(u, e)) = n + 1
        /\ \A i \in 1 .. n + 1 : Append(u, e)[i] = IF i = n + 1 THEN e ELSE u[i]
    BY <2>1, <2>2
  <2>6. w = Append(u, e)
    BY <2>3, <2>4, <2>5, SeqEqual
  <2> QED BY <2>6 DEF u, w, e
<1>4. ASSUME NEW qs \in Seq(Z), NEW q \in Z
      PROVE  FlatSql(Append(qs, q)) = FlatSql(qs) \o SqlStatements(q)
  <2>1. SqlOf(qs) \in Seq(Seq(Z)) /\ SqlStatements(q) \in Seq(Z)
    BY <1>1, <1>2
  <2> QED BY <1>3, <2>1, FlattenLaws DEF FlatSql
<1>5. \A qs \in Seq(Z) : FlatSql(qs) \in Seq(Z)
  BY <1>2, FlattenLaws DEF FlatSql
<1>6. FlatSql(<< >>) = << >>
  <2>1. SqlOf(<< >>) = << >>
    BY DEF SqlOf
  <2> QED BY <2>1, FlattenLaws DEF FlatSql
<1> QED BY <1>4, <1>5, <1>6 DEF Z

(* FlatSql, by concatenation.                                              *)
LEMMA FlatSqlLaws ==
  ASSUME NEW X, Marked(X)
  PROVE  /\ \A q \in Seq(X) : FlatSql(<<q>>) = SqlStatements(q)
         /\ \A qs, rs \in Seq(Seq(X)) : FlatSql(qs \o rs) = FlatSql(qs) \o FlatSql(rs)
<1> DEFINE Z == Seq(X)
<1>0. /\ FlatSql(<< >>) = << >>
      /\ \A qs \in Seq(Z) : FlatSql(qs) \in Seq(Z)
      /\ \A qs \in Seq(Z), q \in Z : FlatSql(Append(qs, q)) = FlatSql(qs) \o SqlStatements(q)
      /\ \A q \in Z : SqlStatements(q) \in Seq(Z)
  BY FlatSqlStep, SqlLaws
<1> HIDE DEF Z
<1>1. ASSUME NEW q \in Z PROVE FlatSql(<<q>>) = SqlStatements(q)
  <2>1. << >> \in Seq(Z) /\ Append(<< >>, q) = <<q>>
    OBVIOUS
  <2>2. FlatSql(Append(<< >>, q)) = << >> \o SqlStatements(q)
    BY <1>0, <2>1
  <2>3. << >> \o SqlStatements(q) = SqlStatements(q)
    BY <1>0, ConcatEmptySeq
  <2> QED BY <2>1, <2>2, <2>3
<1>2. ASSUME NEW qs \in Seq(Z)
      PROVE  \A rs \in Seq(Z) : FlatSql(qs \o rs) = FlatSql(qs) \o FlatSql(rs)
  <2> DEFINE P(rs) == FlatSql(qs \o rs) = FlatSql(qs) \o FlatSql(rs)
             S == {rs \in Seq(Z) : P(rs)}
  <2>1. << >> \in S
    <3>1. << >> \in Seq(Z) /\ qs \o << >> = qs
      OBVIOUS
    <3>2. FlatSql(qs) \o << >> = FlatSql(qs)
      BY <1>0, ConcatEmptySeq
    <3> QED BY <1>0, <3>1, <3>2
  <2>2. ASSUME NEW rs \in S, NEW q \in Z PROVE Append(rs, q) \in S
    <3>1. rs \in Seq(Z) /\ P(rs) /\ Append(rs, q) \in Seq(Z)
      OBVIOUS
    <3>2. qs \o Append(rs, q) = Append(qs \o rs, q) /\ qs \o rs \in Seq(Z)
      BY <3>1, ConcatAppend
    <3>3. FlatSql(Append(qs \o rs, q)) = FlatSql(qs \o rs) \o SqlStatements(q)
      BY <1>0, <3>2
    <3>4. FlatSql(Append(rs, q)) = FlatSql(rs) \o SqlStatements(q)
      BY <1>0, <3>1
    <3>5. (FlatSql(qs) \o FlatSql(rs)) \o SqlStatements(q)
            = FlatSql(qs) \o (FlatSql(rs) \o SqlStatements(q))
      <4>1. FlatSql(qs) \in Seq(Z) /\ FlatSql(rs) \in Seq(Z) /\ SqlStatements(q) \in Seq(Z)
        BY <1>0, <3>1
      <4> QED BY SMTT(30), <4>1, ConcatAssociative
    <3> QED BY <3>1, <3>2, <3>3, <3>4, <3>5
  <2>3. \A rs \in S : rs \in Seq(Z)
    OBVIOUS
  <2> HIDE DEF P
  <2>4. \A rs \in Seq(Z) : rs \in S
    <3> HIDE DEF S
    <3> QED BY <2>1, <2>2, <2>3, SeqInd
  <2> QED BY <2>4 DEF P
<1> QED BY <1>1, <1>2 DEF Z

-----------------------------------------------------------------------------
(***************************************************************************)
(* SeparateComments.                                                       *)
(***************************************************************************)
(* Induction from the end of a text.                                       *)
LEMMA DownInd ==
  ASSUME NEW n \in Nat, NEW S,
         \A i \in 1 .. n : (\A j \in i + 1 .. n : j \in S) => i \in S
  PROVE  \A i \in 1 .. n : i \in S
<1> DEFINE bad == {i \in 1 .. n : i \notin S}
<1>1. SUFFICES ASSUME bad # {} PROVE FALSE
  OBVIOUS
<1>2. bad \in SUBSET (1 .. n)
  OBVIOUS
<1>3. Max(bad) \in bad /\ \A y \in bad : y <= Max(bad)
  <2> HIDE DEF bad
  <2> QED BY <1>1, <1>2, MaxOf
<1>4. \A j \in Max(bad) + 1 .. n : j \in S
  BY <1>3
<1> QED BY <1>3, <1>4

(* g is defined by recursion from the end: where it does not stop with a   *)
(* base, it steps on from a later place.                                   *)
Downward(g, lo, n, stop, base, H, nxt) ==
  \A i \in lo .. n : g[i] = IF i \in stop THEN base[i] ELSE H[<<i, g[nxt[i]]>>]

(* Such a recursion has a solution.                                        *)
LEMMA DownExists ==
  ASSUME NEW n \in Nat, NEW V, NEW stop, NEW base, NEW H, NEW nxt,
         \A i \in 1 .. n : i \in stop => base[i] \in V,
         \A i \in 1 .. n : i \notin stop => nxt[i] \in i + 1 .. n,
         \A i \in 1 .. n, v \in V : i \notin stop => H[<<i, v>>] \in V
  PROVE  \E g \in [1 .. n -> V] : Downward(g, 1, n, stop, base, H, nxt)
<1> DEFINE P(k) == \E g \in [n + 1 - k .. n -> V] : Downward(g, n + 1 - k, n, stop, base, H, nxt)
           T == {k \in Nat : k <= n => P(k)}
<1>1. 0 \in T
  <2> DEFINE g == [i \in n + 1 - 0 .. n |-> base[i]]
  <2>1. n + 1 - 0 .. n = {}
    OBVIOUS
  <2>2. g \in [n + 1 - 0 .. n -> V] /\ Downward(g, n + 1 - 0, n, stop, base, H, nxt)
    BY <2>1 DEF Downward
  <2> HIDE DEF g
  <2>3. P(0)
    BY <2>2
  <2> QED BY <2>3
<1>2. ASSUME NEW k \in T PROVE k + 1 \in T
  <2>1. k \in Nat /\ (k <= n => P(k))
    OBVIOUS
  <2>2. SUFFICES ASSUME k + 1 <= n PROVE P(k + 1)
    <3> HIDE DEF P
    <3> QED BY <2>1
  <2>3. PICK g \in [n + 1 - k .. n -> V] : Downward(g, n + 1 - k, n, stop, base, H, nxt)
    BY <2>1, <2>2
  <2> DEFINE l == n - k
             f == [i \in l .. n |->
                     IF i = l THEN IF i \in stop THEN base[i] ELSE H[<<i, g[nxt[i]]>>]
                     ELSE g[i]]
  <2>4. /\ l \in 1 .. n /\ n + 1 - (k + 1) = l /\ n + 1 - k = l + 1
        /\ \A i \in l .. n : i \in 1 .. n /\ (i # l => i \in l + 1 .. n)
    BY <2>1, <2>2
  <2>5. \A i \in l .. n : i \notin stop => nxt[i] \in l + 1 .. n
    BY <2>4
  <2> HIDE DEF l
  <2>6. g \in [l + 1 .. n -> V] /\ Downward(g, l + 1, n, stop, base, H, nxt)
    BY <2>3, <2>4
  <2>7. ASSUME NEW i \in l .. n
        PROVE  f[i] \in V /\ f[i] = IF i \in stop THEN base[i] ELSE H[<<i, f[nxt[i]]>>]
    <3>1. i \notin stop => f[nxt[i]] = g[nxt[i]] /\ g[nxt[i]] \in V
      BY <2>4, <2>5, <2>6
    <3>2. i # l => f[i] = g[i] /\ g[i] \in V /\ i \in l + 1 .. n
      BY <2>4, <2>6
    <3>3. i = l => f[i] = IF i \in stop THEN base[i] ELSE H[<<i, g[nxt[i]]>>]
      OBVIOUS
    <3>4. i # l => g[i] = IF i \in stop THEN base[i] ELSE H[<<i, g[nxt[i]]>>]
      BY <2>6, <3>2 DEF Downward
    <3>5. i \in 1 .. n
      BY <2>4
    <3> HIDE DEF f
    <3> QED BY <3>1, <3>2, <3>3, <3>4, <3>5
  <2>8. f \in [l .. n -> V]
    <3>1. \A i \in l .. n : f[i] \in V
      BY <2>7
    <3> QED BY <3>1
  <2> HIDE DEF f
  <2>9. Downward(f, l, n, stop, base, H, nxt)
    BY <2>7 DEF Downward
  <2> QED BY <2>4, <2>8, <2>9
<1>3. T = Nat
  <2> HIDE DEF T
  <2>1. T \in SUBSET Nat
    BY DEF T
  <2> QED BY <1>1, <1>2, <2>1, NatInd
<1>4. P(n)
  <2> HIDE DEF P
  <2> QED BY <1>3
<1>5. n + 1 - n = 1
  OBVIOUS
<1> QED BY <1>4, <1>5

(* Where the next line with text begins, and where a line ends. *)
Dark(s, i) == FirstFrom(s, i, LAMBDA x : x # "NL")
LineEnd(s, i) == FirstFrom(s, i, LAMBDA x : x = "NL")

(* What FirstFrom finds.                                                   *)
LEMMA Places ==
  ASSUME NEW X, NEW s \in Seq(X), NEW i \in 1 .. Len(s) + 1
  PROVE  /\ Dark(s, i) \in i .. Len(s) + 1
         /\ \A j \in i .. Len(s) : j < Dark(s, i) => s[j] = "NL"
         /\ Dark(s, i) <= Len(s) => s[Dark(s, i)] # "NL"
         /\ LineEnd(s, i) \in i .. Len(s) + 1
         /\ \A j \in i .. Len(s) : j < LineEnd(s, i) => s[j] # "NL"
         /\ LineEnd(s, i) <= Len(s) => s[LineEnd(s, i)] = "NL"
<1> DEFINE d == {j \in i .. Len(s) : s[j] # "NL"}
           l == {j \in i .. Len(s) : s[j] = "NL"}
<1>0. d \in SUBSET Nat /\ l \in SUBSET Nat /\ Len(s) \in Nat
  OBVIOUS
<1>1. /\ Dark(s, i) = IF d = {} THEN Len(s) + 1 ELSE Min(d)
      /\ LineEnd(s, i) = IF l = {} THEN Len(s) + 1 ELSE Min(l)
  BY DEF Dark, LineEnd, FirstFrom
<1>2. d # {} => Min(d) \in d /\ \A y \in d : Min(d) <= y
  <2> HIDE DEF d
  <2> QED BY <1>0, MinOf
<1>3. l # {} => Min(l) \in l /\ \A y \in l : Min(l) <= y
  <2> HIDE DEF l
  <2> QED BY <1>0, MinOf
<1> DEFINE a == Dark(s, i)
           b == LineEnd(s, i)
<1> HIDE DEF a, b
<1>4. a \in i .. Len(s) + 1 /\ (a <= Len(s) => s[a] # "NL")
  BY <1>0, <1>1, <1>2 DEF a
<1>5. \A j \in i .. Len(s) : j < a => s[j] = "NL"
  BY <1>0, <1>1, <1>2 DEF a
<1>6. b \in i .. Len(s) + 1 /\ (b <= Len(s) => s[b] = "NL")
  BY <1>0, <1>1, <1>3 DEF b
<1>7. \A j \in i .. Len(s) : j < b => s[j] # "NL"
  BY <1>0, <1>1, <1>3 DEF b
<1> QED BY <1>4, <1>5, <1>6, <1>7 DEF a, b

(* f is the function that SeparateComments defines. *)
FromStep(f, s, i) ==
  LET a == Dark(s, i)
      b == LineEnd(s, a)
  IN IF a > Len(s) THEN << >>
     ELSE IF s[a] # "--" \/ b > Len(s) THEN <<Trim(SubSeq(s, a, Len(s)))>>
     ELSE <<SubSeq(s, a, b - 1)>> \o f[b + 1]

IsFrom(f, s) == f = [i \in 1 .. Len(s) + 1 |-> FromStep(f, s, i)]

(* SeparateComments is well defined.                                       *)
LEMMA FromExists ==
  ASSUME NEW X, NEW s \in Seq(X)
  PROVE  \E f : IsFrom(f, s) /\ SeparateComments(s) = f[1]
<1> DEFINE n == Len(s)
           V == Seq(Seq(X))
           stop == {i \in 1 .. n + 1 :
                      \/ Dark(s, i) > n
                      \/ s[Dark(s, i)] # "--"
                      \/ LineEnd(s, Dark(s, i)) > n}
           base == [i \in 1 .. n + 1 |->
                      IF Dark(s, i) > n THEN << >> ELSE <<Trim(SubSeq(s, Dark(s, i), n))>>]
           H == [p \in (1 .. n + 1) \X V |->
                   <<SubSeq(s, Dark(s, p[1]), LineEnd(s, Dark(s, p[1])) - 1)>> \o p[2]]
           nxt == [i \in 1 .. n + 1 |-> LineEnd(s, Dark(s, i)) + 1]
<1>0. n + 1 \in Nat /\ n \in Nat
  OBVIOUS
<1>1. ASSUME NEW i \in 1 .. n + 1
      PROVE  /\ Dark(s, i) \in i .. n + 1
             /\ Dark(s, i) \in 1 .. n + 1
             /\ LineEnd(s, Dark(s, i)) \in Dark(s, i) .. n + 1
             /\ Dark(s, i) <= n => s[Dark(s, i)] # "NL"
             /\ LineEnd(s, Dark(s, i)) <= n => s[LineEnd(s, Dark(s, i))] = "NL"
  <2>1. Dark(s, i) \in i .. n + 1 /\ (Dark(s, i) <= n => s[Dark(s, i)] # "NL")
    BY Places
  <2>2. Dark(s, i) \in 1 .. n + 1
    BY <1>0, <2>1
  <2>3. /\ LineEnd(s, Dark(s, i)) \in Dark(s, i) .. n + 1
        /\ LineEnd(s, Dark(s, i)) <= n => s[LineEnd(s, Dark(s, i))] = "NL"
    BY <2>2, Places
  <2> QED BY <2>1, <2>2, <2>3
<1> HIDE DEF n
<1>2. \A i \in 1 .. n + 1 : i \in stop => base[i] \in V
  <2>1. ASSUME NEW i \in 1 .. n + 1, Dark(s, i) <= n
        PROVE  <<Trim(SubSeq(s, Dark(s, i), n))>> \in V
    <3>1. SubSeq(s, Dark(s, i), n) \in Seq(X)
      BY <1>0, <1>1, <2>1 DEF n
    <3>2. Trim(SubSeq(s, Dark(s, i), n)) \in Seq(X)
      BY <3>1, TrimLaws
    <3> QED BY <3>2
  <2>2. << >> \in V
    OBVIOUS
  <2>3. \A i \in 1 .. n + 1 : Dark(s, i) > n \/ Dark(s, i) <= n
    BY <1>0, <1>1
  <2> HIDE DEF V
  <2> QED BY <2>1, <2>2, <2>3
<1>3. ASSUME NEW i \in 1 .. n + 1, i \notin stop
      PROVE  /\ nxt[i] \in i + 1 .. n + 1
             /\ Dark(s, i) \in 1 .. n /\ LineEnd(s, Dark(s, i)) \in Dark(s, i) .. n
  <2> DEFINE d == Dark(s, i)
             l == LineEnd(s, d)
  <2>1. nxt[i] = l + 1
    OBVIOUS
  <2>2. d \in i .. n + 1 /\ d \in 1 .. n + 1 /\ l \in d .. n + 1
    BY <1>1
  <2>3. ~(d > n) /\ ~(l > n)
    BY <1>3
  <2> HIDE DEF d, l, nxt, stop
  <2>4. d \in 1 .. n /\ l \in d .. n /\ l + 1 \in i + 1 .. n + 1
    BY <1>0, <2>2, <2>3
  <2> QED BY <2>1, <2>4 DEF d, l
<1>4. ASSUME NEW i \in 1 .. n + 1, NEW v \in V, i \notin stop PROVE H[<<i, v>>] \in V
  <2> DEFINE u == SubSeq(s, Dark(s, i), LineEnd(s, Dark(s, i)) - 1)
  <2>1. H[<<i, v>>] = <<u>> \o v
    OBVIOUS
  <2>2. u \in Seq(X)
    <3>1. /\ Dark(s, i) \in 1 .. n
          /\ LineEnd(s, Dark(s, i)) \in Dark(s, i) .. n
      BY <1>3, <1>4
    <3> QED BY <1>0, <3>1 DEF n
  <2> HIDE DEF H, u
  <2>3. <<u>> \in V
    BY <2>2
  <2>4. <<u>> \o v \in V
    BY <2>3, ConcatProperties
  <2> QED BY <2>1, <2>4
<1>5. PICK g \in [1 .. n + 1 -> V] : Downward(g, 1, n + 1, stop, base, H, nxt)
  <2> HIDE DEF stop, base, H, nxt, V
  <2> QED BY <1>0, <1>2, <1>3, <1>4, DownExists
<1>6. ASSUME NEW i \in 1 .. n + 1 PROVE g[i] = FromStep(g, s, i)
  <2>1. g[i] = IF i \in stop THEN base[i] ELSE H[<<i, g[nxt[i]]>>]
    BY <1>5 DEF Downward
  <2>2. i \notin stop => nxt[i] \in 1 .. n + 1
    BY <1>0, <1>3
  <2>3. i \notin stop => g[nxt[i]] \in V
    BY <1>5, <2>2
  <2>4. i \notin stop => /\ H[<<i, g[nxt[i]]>>]
                              = <<SubSeq(s, Dark(s, i), LineEnd(s, Dark(s, i)) - 1)>> \o g[nxt[i]]
                         /\ nxt[i] = LineEnd(s, Dark(s, i)) + 1
    <3> HIDE DEF V, stop
    <3> QED BY <2>3
  <2> HIDE DEF H, nxt
  <2> QED BY <2>1, <2>4 DEF FromStep, n
<1>7. IsFrom(g, s)
  <2>1. g = [i \in 1 .. n + 1 |-> g[i]]
    <3> HIDE DEF V
    <3> QED BY <1>5
  <2> QED BY <1>6, <2>1 DEF IsFrom, n
<1> DEFINE f == CHOOSE f : IsFrom(f, s)
<1>8. SeparateComments(s) = f[1]
  BY DEF SeparateComments, IsFrom, FromStep, Dark, LineEnd
<1>9. IsFrom(f, s)
  BY <1>7
<1> HIDE DEF f
<1> QED BY <1>8, <1>9

(* What the splitter makes queries of: trimmed texts; one that begins with *)
(* a comment is one line.                                                  *)
Code(X) == X \ {";"}
Line(X) == X \ {"NL"}

QueryOf(Y) ==
  {q \in Seq(Y) : /\ q # << >> /\ q[1] # "NL"
                  /\ q[1] = "--" => q \in Seq(Line(Y))}

(* Texts that strip to the same words hold the same statements.            *)
LEMMA SameSql ==
  ASSUME NEW s, NEW t, StripComments(s) = StripComments(t)
  PROVE  SqlStatements(s) = SqlStatements(t)
BY DEF SqlStatements

(* A sequence of one word.                                                 *)
LEMMA OneWord ==
  ASSUME NEW Y, NEW u \in Seq(Y), NEW x, \A k \in 1 .. Len(u) : u[k] = x
  PROVE  u \in Seq({x})
OBVIOUS

(* SeparateComments makes queries of a text without semicolons and keeps   *)
(* its statement.                                                          *)
LEMMA SeparateLaws ==
  ASSUME NEW X, Marked(X), NEW s \in Seq(Code(X))
  PROVE  /\ SeparateComments(s) \in Seq(QueryOf(Code(X)))
         /\ FlatSql(SeparateComments(s)) = SqlStatements(s)
<1> DEFINE Y == Code(X)
           n == Len(s)
           Q == QueryOf(Y)
           Onward(i) == SubSeq(s, i, n)
<1>1. /\ s \in Seq(Y) /\ n \in Nat /\ n + 1 \in Nat
      /\ \A q \in Seq(Y) : q \in Seq(X)
      /\ \A qs \in Seq(Q) : qs \in Seq(Seq(X))
  <2>1. \A q \in Seq(Y) : q \in Seq(X)
    <3>1. \A y \in Y : y \in X
      BY DEF Code
    <3> HIDE DEF Y
    <3> QED BY <3>1
  <2>2. \A q \in Q : q \in Seq(X)
    BY <2>1 DEF QueryOf
  <2>3. \A qs \in Seq(Q) : qs \in Seq(Seq(X))
    <3> HIDE DEF Q
    <3> QED BY <2>2
  <2> QED BY <2>1, <2>3
<1>2. "NL" \in Y
  BY DEF Marked, Code
<1>3. PICK f : IsFrom(f, s) /\ SeparateComments(s) = f[1]
  BY FromExists
<1> DEFINE S == {i \in 1 .. n + 1 : f[i] \in Seq(Q) /\ FlatSql(f[i]) = SqlStatements(Onward(i))}
<1>4. ASSUME NEW i \in 1 .. n + 1, \A j \in i + 1 .. n + 1 : j \in S PROVE i \in S
  <2> DEFINE a == Dark(s, i)
             b == LineEnd(s, a)
             u == SubSeq(s, i, a - 1)
             tail == Onward(a)
  <2>1. f[i] = FromStep(f, s, i)
    BY <1>3 DEF IsFrom
  <2>2. /\ a \in i .. n + 1 /\ a \in 1 .. n + 1
        /\ \A j \in i .. n : j < a => s[j] = "NL"
        /\ a <= n => s[a] # "NL"
    <3>1. /\ a \in i .. n + 1
          /\ \A j \in i .. n : j < a => s[j] = "NL"
          /\ a <= n => s[a] # "NL"
      BY Places
    <3> QED BY <1>1, <3>1
  <2>3. /\ b \in a .. n + 1
        /\ \A j \in a .. n : j < b => s[j] # "NL"
        /\ b <= n => s[b] = "NL"
    BY <2>2, Places
  <2> HIDE DEF Y, a, b
  <2>4. Onward(i) = u \o tail /\ u \in Seq({"NL"}) /\ u \in Seq(Y) /\ tail \in Seq(Y)
    <3>1. SubSeq(s, i, a - 1) \o SubSeq(s, a - 1 + 1, n) = SubSeq(s, i, n)
      <4>1. i \in 1 .. Len(s) + 1 /\ a - 1 \in i - 1 .. Len(s) /\ n \in a - 1 .. Len(s)
        BY <1>1, <2>2
      <4> QED BY <1>1, <4>1, ConcatAdjacentSubSeq
    <3>2. a - 1 + 1 = a
      BY <2>2
    <3>3. /\ u \in Seq(Y) /\ Len(u) \in Nat
          /\ \A k \in 1 .. Len(u) : i + k - 1 \in i .. n /\ i + k - 1 < a /\ u[k] = s[i + k - 1]
      BY <1>1, <2>2
    <3>4. \A k \in 1 .. Len(u) : u[k] = "NL"
      BY <2>2, <3>3
    <3> HIDE DEF u
    <3>5. u \in Seq({"NL"})
      BY <3>3, <3>4, OneWord
    <3>6. tail \in Seq(Y)
      BY <1>1, <2>2
    <3> QED BY <3>1, <3>2, <3>3, <3>5, <3>6 DEF u
  <2>5. SqlStatements(Onward(i)) = SqlStatements(tail)
    <3> HIDE DEF u, tail, Onward
    <3>1. StripComments(u) = << >> /\ ~Open(u)
      BY <2>4, Blank
    <3>2. StripComments(u \o tail) = StripComments(tail)
      BY <2>4, <3>1, StripRest
    <3> QED BY <2>4, <3>2, SameSql
  <2>6. CASE a > n
    <3>1. f[i] = << >>
      BY <2>1, <2>6 DEF FromStep, a, n
    <3>2. tail = << >>
      BY <1>1, <2>2, <2>6
    <3>3. SqlStatements(<< >>) = << >> /\ FlatSql(<< >>) = << >>
      BY SqlLaws, FlatSqlStep
    <3>4. << >> \in Seq(Q)
      OBVIOUS
    <3> HIDE DEF n, Onward, tail
    <3> QED BY <2>5, <3>1, <3>2, <3>3, <3>4
  <2>7. CASE a <= n /\ (s[a] # "--" \/ b > n)
    <3> DEFINE t == Trim(tail)
    <3>1. f[i] = <<t>>
      <4>1. ~(a > n)
        BY <1>1, <2>2, <2>7
      <4> QED BY <2>1, <2>7, <4>1 DEF FromStep, a, b
    <3>2. tail # << >> /\ tail[1] = s[a]
      <4>1. a \in 1 .. n /\ n = Len(s)
        BY <1>1, <2>2, <2>7
      <4>2. Len(SubSeq(s, a, n)) = n - a + 1 /\ SubSeq(s, a, n)[1] = s[a]
        BY <1>1, <4>1
      <4>3. n - a + 1 # 0
        BY <1>1, <4>1
      <4>4. Len(<< >>) = 0
        OBVIOUS
      <4> QED BY <4>2, <4>3, <4>4
    <3>3. t \in Seq(Y) /\ t # << >> /\ t[1] = s[a]
      <4> HIDE DEF tail
      <4> QED BY <2>2, <2>4, <2>7, <3>2, TrimLaws
    <3>4. SqlStatements(t) = SqlStatements(tail)
      <4> HIDE DEF tail
      <4> QED BY <1>2, <2>4, TrimKeeps
    <3>5. s[a] = "--" => t \in Seq(Line(Y))
      <4>1. SUFFICES ASSUME s[a] = "--" PROVE t \in Seq(Line(Y))
        OBVIOUS
      <4>2. \A j \in a .. n : s[j] \in Line(Y)
        BY <1>1, <2>2, <2>3, <2>7, <4>1 DEF Line
      <4>3. /\ Len(tail) \in Nat
            /\ \A k \in 1 .. Len(tail) : a + k - 1 \in a .. n /\ tail[k] = s[a + k - 1]
        BY <1>1, <2>2
      <4>4. tail \in Seq(Line(Y))
        <5>1. \A k \in 1 .. Len(tail) : tail[k] \in Line(Y)
          BY <4>2, <4>3
        <5>2. tail \in Seq(Y)
          BY <2>4
        <5>3. Len(tail) \in Nat
          BY <4>3
        <5> HIDE DEF tail
        <5> QED BY <5>1, <5>2, <5>3
      <4> HIDE DEF tail
      <4> QED BY <4>4, TrimLaws
    <3> HIDE DEF t, tail
    <3>6. t \in Q
      BY <2>2, <2>7, <3>3, <3>5 DEF QueryOf
    <3>7. t \in Seq(X)
      BY <1>1, <3>3
    <3>8. FlatSql(<<t>>) = SqlStatements(t)
      BY <3>7, FlatSqlLaws
    <3>9. <<t>> \in Seq(Q)
      <4> HIDE DEF Q
      <4> QED BY <3>6
    <3> HIDE DEF Q, n, Onward
    <3> QED BY <2>5, <3>1, <3>4, <3>8, <3>9
  <2>8. CASE a <= n /\ s[a] = "--" /\ b <= n
    <3> DEFINE line == SubSeq(s, a, b - 1)
               c == SubSeq(s, a, b)
               r == Onward(b + 1)
    <3>1. f[i] = <<line>> \o f[b + 1]
      <4>1. ~(a > n) /\ ~(b > n)
        BY <1>1, <2>2, <2>3, <2>8
      <4> QED BY <2>1, <2>8, <4>1 DEF FromStep, a, b
    <3>2. b + 1 \in i + 1 .. n + 1 /\ a < b
      BY <1>1, <2>2, <2>3, <2>8
    <3>3. f[b + 1] \in Seq(Q) /\ FlatSql(f[b + 1]) = SqlStatements(r)
      BY <1>4, <3>2
    <3>4. line \in Seq(Line(Y)) /\ line # << >> /\ line[1] = "--"
      <4>1. /\ Len(line) \in Nat
            /\ \A k \in 1 .. Len(line) :
             a + k - 1 \in a .. n /\ a + k - 1 < b /\ line[k] = s[a + k - 1]
        BY <1>1, <2>2, <2>3, <2>8
      <4>2. \A j \in a .. n : j < b => s[j] \in Line(Y)
        BY <1>1, <2>2, <2>3 DEF Line
      <4>3. line \in Seq(Y)
        BY <1>1, <2>2, <2>3, <2>8
      <4>4. \A k \in 1 .. Len(line) : line[k] \in Line(Y)
        BY <4>1, <4>2
      <4>5. line # << >> /\ line[1] = s[a]
        BY <1>1, <2>2, <2>3, <2>8, <3>2
      <4> HIDE DEF line
      <4>6. line \in Seq(Line(Y))
        BY <4>1, <4>3, <4>4
      <4> QED BY <2>8, <4>5, <4>6
    <3>5. line \in Seq(Y)
      BY <1>1, <2>2, <2>3, <2>8
    <3>6. StripComments(line) = << >> /\ Open(line)
      <4> HIDE DEF line
      <4> QED BY <3>4, LineStripped DEF LineComment, Line
    <3>7. c = Append(line, "NL") /\ c \in Seq(Y)
      <4>1. c = Append(line, s[b])
        BY <1>1, <2>2, <2>3, <2>8, <3>2
      <4>2. c \in Seq(Y)
        BY <1>1, <2>2, <2>3, <2>8
      <4> QED BY <2>3, <2>8, <4>1, <4>2
    <3>8. StripComments(c) = << >> /\ ~Open(c)
      <4> HIDE DEF line, c
      <4> QED BY <1>2, <3>5, <3>6, <3>7, StripLaws
    <3>9. tail = c \o r /\ r \in Seq(Y)
      <4>1. SubSeq(s, a, b) \o SubSeq(s, b + 1, n) = SubSeq(s, a, n)
        <5>1. a \in 1 .. Len(s) + 1 /\ b \in a - 1 .. Len(s) /\ n \in b .. Len(s)
          BY <1>1, <2>2, <2>3, <2>8
        <5> QED BY <1>1, <5>1, ConcatAdjacentSubSeq
      <4>2. r \in Seq(Y)
        BY <1>1, <3>2, <2>2, <2>3
      <4> QED BY <4>1, <4>2
    <3> HIDE DEF line, c, tail, r
    <3>10. SqlStatements(tail) = SqlStatements(r)
      <4>1. StripComments(c \o r) = StripComments(r) /\ (Open(c \o r) <=> Open(r))
        <5>1. c \in Seq(Y) /\ r \in Seq(Y)
          BY <3>7, <3>9
        <5> QED BY <3>8, <5>1, StripRest
      <4> QED BY <3>9, <4>1, SameSql
    <3>11. line \in Q
      BY <3>4, <3>5 DEF QueryOf
    <3>12. SqlStatements(line) = << >>
      BY <3>5, <3>6, SqlLaws DEF Y, Code
    <3>13. <<line>> \in Seq(Q) /\ f[i] \in Seq(Q)
      <4> HIDE DEF Q
      <4>1. <<line>> \in Seq(Q)
        BY <3>11
      <4> QED BY <3>1, <3>3, <4>1, ConcatProperties
    <3>14. FlatSql(f[i]) = SqlStatements(r)
      <4>1. <<line>> \in Seq(Seq(X)) /\ f[b + 1] \in Seq(Seq(X)) /\ line \in Seq(X)
        <5> HIDE DEF Q
        <5> QED BY <1>1, <3>3, <3>5, <3>13
      <4>2. FlatSql(<<line>> \o f[b + 1]) = FlatSql(<<line>>) \o FlatSql(f[b + 1])
        BY <4>1, FlatSqlLaws
      <4>3. FlatSql(<<line>>) = SqlStatements(line)
        BY <4>1, FlatSqlLaws
      <4>4. FlatSql(f[b + 1]) \in Seq(Seq(X))
        BY <4>1, FlatSqlStep
      <4>5. << >> \o FlatSql(f[b + 1]) = FlatSql(f[b + 1])
        BY <4>4, ConcatEmptySeq
      <4> QED BY <3>1, <3>3, <3>12, <4>2, <4>3, <4>5
    <3> HIDE DEF Q, n, Onward
    <3> QED BY <2>5, <3>10, <3>13, <3>14
  <2> QED BY <1>1, <2>2, <2>3, <2>6, <2>7, <2>8
<1>5. 1 \in S
  <2>1. 1 \in 1 .. n + 1
    BY <1>1
  <2> HIDE DEF S, n
  <2> QED BY <1>1, <1>4, <2>1, DownInd
<1>6. Onward(1) = s
  OBVIOUS
<1> HIDE DEF Onward, n, Q
<1> QED BY <1>3, <1>5, <1>6 DEF Q

-----------------------------------------------------------------------------
(***************************************************************************)
(* SplitNonEmptyQueries.                                                   *)
(***************************************************************************)
(* What SplitNonEmptyQueries does with one part. *)
QueriesStep(v, y) == v \o SeparateComments(y)

Queries(parts) == FoldLeft(QueriesStep, << >>, parts)

(* The queries of the parts, by the last part.                             *)
LEMMA QueriesLaws ==
  ASSUME NEW X, Marked(X)
  PROVE  /\ Queries(<< >>) = << >>
         /\ \A s \in Seq(Seq(Code(X))) : Queries(s) \in Seq(QueryOf(Code(X)))
         /\ \A s \in Seq(Seq(Code(X))), y \in Seq(Code(X)) :
              Queries(Append(s, y)) = QueriesStep(Queries(s), y)
<1> DEFINE V == Seq(QueryOf(Code(X)))
           G == [p \in V \X Seq(Code(X)) |-> QueriesStep(p[1], p[2])]
<1>1. ASSUME NEW v \in V, NEW y \in Seq(Code(X))
      PROVE  QueriesStep(v, y) \in V /\ G[<<v, y>>] = QueriesStep(v, y)
  <2>1. SeparateComments(y) \in V
    BY SeparateLaws
  <2> HIDE DEF V
  <2>2. v \o SeparateComments(y) \in Seq(QueryOf(Code(X)))
    BY <2>1, ConcatProperties DEF V
  <2>3. QueriesStep(v, y) \in V
    BY <2>2 DEF QueriesStep, V
  <2> QED BY <2>3
<1>2. StepOn(G, V, Seq(Code(X))) /\ << >> \in V
  <2>1. \A p \in V \X Seq(Code(X)) : G[p] \in V
    BY <1>1
  <2>2. << >> \in V
    OBVIOUS
  <2> HIDE DEF V
  <2> QED BY <2>1, <2>2 DEF StepOn
<1>3. ASSUME NEW s \in Seq(Seq(Code(X))) PROVE Queries(s) = FoldOf(<< >>, G, s, V)
  <2> DEFINE n == Len(s)
             Is(it) == it = [t \in SUBSET (1 .. n) |->
                               IF t = {} THEN << >>
                               ELSE QueriesStep(it[t \ {Max(t)}], s[Max(t)])]
             it == CHOOSE it : Is(it)
             f == CHOOSE f : IsFold(f, << >>, G, s, V)
  <2>1. n \in Nat /\ DOMAIN s = 1 .. n
    OBVIOUS
  <2>2. Queries(s) = it[1 .. n]
    BY <2>1 DEF Queries, FoldLeft, MapThenFoldSet, QueriesStep
  <2> HIDE DEF G, V
  <2>3. IsFold(f, << >>, G, s, V)
    BY <1>2, FoldExists
  <2> HIDE DEF f
  <2>4. ASSUME NEW t \in SUBSET (1 .. n), t # {}
        PROVE  f[t] = QueriesStep(f[t \ {Max(t)}], s[Max(t)])
    <3>1. /\ f[t] = G[<<f[t \ {Max(t)}], s[Max(t)]>>]
          /\ f[t \ {Max(t)}] \in V /\ s[Max(t)] \in Seq(Code(X))
      BY <2>3, <2>4, FoldStep
    <3> QED BY <1>1, <3>1
  <2>5. Is(f)
    BY <2>1, <2>3, <2>4 DEF IsFold
  <2>6. Is(it)
    <3> HIDE DEF Is
    <3> QED BY <2>5
  <2> HIDE DEF it
  <2>7. AgreeByMax(it, f, n)
    BY <2>1, <2>4, <2>5, <2>6 DEF AgreeByMax
  <2>8. it[1 .. n] = f[1 .. n]
    <3> HIDE DEF n
    <3>1. Agree(it, f, n)
      BY <2>1, <2>7, FoldAgree
    <3>2. (1 .. n) \in SUBSET (1 .. n)
      OBVIOUS
    <3> QED BY <3>1, <3>2 DEF Agree
  <2> QED BY <2>2, <2>8 DEF FoldOf, f
<1>4. /\ << >> \in Seq(Seq(Code(X)))
      /\ \A s \in Seq(Seq(Code(X))), y \in Seq(Code(X)) : Append(s, y) \in Seq(Seq(Code(X)))
  OBVIOUS
<1> HIDE DEF V, G
<1>5. FoldOf(<< >>, G, << >>, V) = << >>
  BY <1>2, FoldEmpty
<1>6. ASSUME NEW s \in Seq(Seq(Code(X))) PROVE FoldOf(<< >>, G, s, V) \in V
  BY <1>2, FoldLaws
<1>7. ASSUME NEW s \in Seq(Seq(Code(X))), NEW y \in Seq(Code(X))
      PROVE  FoldOf(<< >>, G, Append(s, y), V) = G[<<FoldOf(<< >>, G, s, V), y>>]
  BY <1>2, FoldLaws
<1>8. Queries(<< >>) = << >>
  BY <1>3, <1>4, <1>5
<1>9. \A s \in Seq(Seq(Code(X))) : Queries(s) \in V
  BY <1>3, <1>6
<1>10. ASSUME NEW s \in Seq(Seq(Code(X))), NEW y \in Seq(Code(X))
       PROVE  Queries(Append(s, y)) = QueriesStep(Queries(s), y)
  <2>1. Append(s, y) \in Seq(Seq(Code(X)))
    BY <1>4
  <2>2. Queries(Append(s, y)) = FoldOf(<< >>, G, Append(s, y), V)
    BY <1>3, <2>1
  <2>3. Queries(s) = FoldOf(<< >>, G, s, V)
    BY <1>3
  <2>4. Queries(s) \in V
    BY <1>9
  <2> QED BY <1>1, <1>7, <2>2, <2>3, <2>4
<1> QED BY <1>8, <1>9, <1>10 DEF V

(* A comment is open after a "--" with no line feed behind it.             *)
OpenAt(s, i) == s[i] = "--" /\ \A k \in i .. Len(s) : s[k] # "NL"

(* A text that ends in a comment has one that no line feed ends.           *)
LEMMA OpenMeans ==
  ASSUME NEW X
  PROVE  \A s \in Seq(X) : Open(s) => \E i \in 1 .. Len(s) : OpenAt(s, i)
<1> DEFINE P(s) == Open(s) => \E i \in 1 .. Len(s) : OpenAt(s, i)
           S == {s \in Seq(X) : P(s)}
<1>1. << >> \in S
  <2>1. << >> \in Seq(X)
    OBVIOUS
  <2>2. ~Open(<< >>)
    BY <2>1, StripLaws
  <2> QED BY <2>1, <2>2
<1>2. ASSUME NEW s \in S, NEW x \in X PROVE Append(s, x) \in S
  <2> DEFINE t == Append(s, x)
             n == Len(s)
  <2>1. s \in Seq(X) /\ P(s)
    OBVIOUS
  <2>2. /\ n \in Nat /\ t \in Seq(X) /\ Len(t) = n + 1 /\ t[n + 1] = x
        /\ \A i \in 1 .. n : t[i] = s[i]
    BY <2>1
  <2>3. Open(t) => x # "NL" /\ (Open(s) \/ x = "--")
    BY <2>1, StripLaws
  <2> HIDE DEF t
  <2>4. ASSUME Open(t) PROVE \E i \in 1 .. Len(t) : OpenAt(t, i)
    <3>1. CASE x = "--"
      <4>1. n + 1 \in 1 .. Len(t)
        BY <2>2
      <4>2. OpenAt(t, n + 1)
        BY <2>2, <3>1 DEF OpenAt
      <4> QED BY <4>1, <4>2
    <3>2. CASE x # "--"
      <4>1. PICK i \in 1 .. n : OpenAt(s, i)
        BY <2>1, <2>3, <2>4, <3>2
      <4>2. i \in 1 .. Len(t)
        BY <2>2
      <4>3. \A k \in i .. n + 1 : k = n + 1 \/ (k \in i .. n /\ k \in 1 .. n)
        BY <2>2
      <4>4. OpenAt(t, i)
        BY <2>2, <2>3, <2>4, <4>1, <4>3 DEF OpenAt
      <4> QED BY <4>2, <4>4
    <3> QED BY <3>1, <3>2
  <2> QED BY <2>2, <2>4 DEF t
<1>3. \A s \in S : s \in Seq(X)
  OBVIOUS
<1> HIDE DEF P
<1>4. \A s \in Seq(X) : s \in S
  <2> HIDE DEF S
  <2> QED BY <1>1, <1>2, <1>3, SeqInd
<1> QED BY <1>4 DEF P

SemicolonAt(s, i) == s[i] = ";"

(* Where no comment holds a semicolon, the semicolons stand outside of the *)
(* comments.                                                               *)
LEMMA SemicolonOutside ==
  ASSUME NEW X, NEW a \in Seq(X), NEW c \in Seq(X), Len(c) >= Len(a) + 1,
         SemicolonAt(c, Len(a) + 1), \A i \in 1 .. Len(a) : c[i] = a[i],
         ~SemicolonInComment(c)
  PROVE  ~Open(a) /\ ~SemicolonInComment(a)
<1> DEFINE n == Len(a)
<1>1. n \in Nat /\ Len(c) \in Nat
  OBVIOUS
<1>2. ~SemicolonInComment(c)
  OBVIOUS
<1>3. ~SemicolonInComment(a)
  <2>1. SUFFICES ASSUME NEW i \in 1 .. n, NEW j \in 1 .. n, i < j, a[i] = "--", a[j] = ";",
                        \A k \in i .. j : a[k] # "NL"
                 PROVE  SemicolonInComment(c)
    BY <1>2 DEF SemicolonInComment
  <2>2. i \in 1 .. Len(c) /\ j \in 1 .. Len(c) /\ \A k \in i .. j : k \in 1 .. n
    BY <1>1
  <2>3. c[i] = "--" /\ c[j] = ";" /\ \A k \in i .. j : c[k] # "NL"
    BY <2>1, <2>2
  <2> QED BY <2>1, <2>2, <2>3 DEF SemicolonInComment
<1>4. ~Open(a)
  <2>1. SUFFICES ASSUME NEW i \in 1 .. n, OpenAt(a, i) PROVE FALSE
    BY OpenMeans
  <2>2. i \in 1 .. Len(c) /\ n + 1 \in 1 .. Len(c) /\ i < n + 1
    BY <1>1
  <2>3. c[i] = "--"
    BY <1>1, <2>1 DEF OpenAt
  <2>4. \A k \in i .. n + 1 : c[k] # "NL"
    <3>1. \A k \in i .. n + 1 : k = n + 1 \/ (k \in i .. n /\ k \in 1 .. n)
      BY <1>1
    <3>2. c[n + 1] = ";"
      BY DEF SemicolonAt
    <3> QED BY <1>1, <2>1, <3>1, <3>2 DEF OpenAt
  <2>5. c[n + 1] = ";"
    BY DEF SemicolonAt
  <2> QED BY <1>2, <2>2, <2>3, <2>4, <2>5 DEF SemicolonInComment
<1> QED BY <1>3, <1>4

(* Split, by the last semicolon.                                           *)
LEMMA SplitLaws ==
  ASSUME NEW X, Marked(X)
  PROVE  /\ \A b \in Seq(Code(X)) : SplitNonEmptyQueries(b) = SeparateComments(b)
         /\ \A a \in Seq(X), b \in Seq(Code(X)) :
              SplitNonEmptyQueries(Append(a, ";") \o b)
                = SplitNonEmptyQueries(a) \o SeparateComments(b)
         /\ \A s \in Seq(X) : SplitNonEmptyQueries(s) \in Seq(QueryOf(Code(X)))
<1>1. \A s : SplitNonEmptyQueries(s) = Queries(SplitBy(s, ";"))
  BY DEF SplitNonEmptyQueries, Queries, QueriesStep
<1>2. ";" \in X
  BY DEF Marked
<1>3. ASSUME NEW s \in Seq(X) PROVE SplitBy(s, ";") \in Seq(Seq(Code(X)))
  <2>1. SplitBy(s, ";") \in Seq(Seq(X \ {";"}))
    BY <1>2, PartsApart
  <2> QED BY <2>1 DEF Code
<1>4. ASSUME NEW b \in Seq(Code(X)) PROVE SplitBy(b, ";") = <<b>>
  <2>1. b \in Seq(X \ {";"})
    BY DEF Code
  <2> QED BY <2>1, NoneToFind
<1>5. ASSUME NEW b \in Seq(Code(X)) PROVE SeparateComments(b) \in Seq(QueryOf(Code(X)))
  <2>1. b \in Seq(X \ {";"})
    BY DEF Code
  <2> QED BY <2>1, SeparateLaws
<1>6. ASSUME NEW b \in Seq(Code(X)) PROVE Queries(<<b>>) = SeparateComments(b)
  <2>1. << >> \in Seq(Seq(Code(X))) /\ Append(<< >>, b) = <<b>>
    OBVIOUS
  <2>2. Queries(Append(<< >>, b)) = QueriesStep(Queries(<< >>), b) /\ Queries(<< >>) = << >>
    BY <2>1, QueriesLaws
  <2>3. << >> \o SeparateComments(b) = SeparateComments(b)
    BY <1>5, ConcatEmptySeq
  <2> QED BY <2>1, <2>2, <2>3 DEF QueriesStep
<1>7. ASSUME NEW a \in Seq(X), NEW b \in Seq(Code(X))
      PROVE  SplitNonEmptyQueries(Append(a, ";") \o b)
               = SplitNonEmptyQueries(a) \o SeparateComments(b)
  <2> DEFINE ps == SplitBy(a, ";")
  <2>1. b \in Seq(X)
    <3>1. \A x \in Code(X) : x \in X
      BY DEF Code
    <3> QED BY <3>1
  <2>2. SplitBy(Append(a, ";") \o b, ";") = ps \o SplitBy(b, ";")
    BY <1>2, <2>1, SplitConcat
  <2>3. ps \in Seq(Seq(Code(X)))
    BY <1>3
  <2> HIDE DEF ps
  <2>4. ps \o <<b>> = Append(ps, b)
    BY <2>3
  <2>5. Queries(Append(ps, b)) = QueriesStep(Queries(ps), b)
    BY <2>3, QueriesLaws
  <2> QED BY <1>1, <1>4, <2>2, <2>4, <2>5 DEF QueriesStep, ps
<1>8. ASSUME NEW s \in Seq(X) PROVE SplitNonEmptyQueries(s) \in Seq(QueryOf(Code(X)))
  BY <1>1, <1>3, QueriesLaws
<1>9. ASSUME NEW b \in Seq(Code(X)) PROVE SplitNonEmptyQueries(b) = SeparateComments(b)
  BY <1>1, <1>4, <1>6
<1> QED BY <1>7, <1>8, <1>9

(* The splitter loses, invents and reorders nothing: whatever the text, if *)
(* no comment holds a semicolon, DuckDB reads in the queries, one after    *)
(* the other, the statements that it reads in the text, and no query holds *)
(* a semicolon (SplitNonEmptyQueries).                                     *)
THEOREM SplitKeepsStatements ==
  ASSUME NEW X, Marked(X), NEW body \in Seq(X)
  PROVE  /\ SplitNonEmptyQueries(body) \in Seq(QueryOf(Code(X)))
         /\ ~SemicolonInComment(body) =>
              FlatSql(SplitNonEmptyQueries(body)) = SqlStatements(body)
<1> DEFINE Split(s) == SplitNonEmptyQueries(s)
           P(s) == ~SemicolonInComment(s) => FlatSql(Split(s)) = SqlStatements(s)
           S == {s \in Seq(X) : P(s)}
<1>0. /\ \A x \in Code(X) : x \in X
      /\ \A qs \in Seq(QueryOf(Code(X))) : qs \in Seq(Seq(X))
  <2>1. \A x \in Code(X) : x \in X
    BY DEF Code
  <2>2. \A q \in QueryOf(Code(X)) : q \in Seq(X)
    <3>1. \A q \in QueryOf(Code(X)) : q \in Seq(Code(X))
      BY DEF QueryOf
    <3> QED BY <2>1, <3>1
  <2> QED BY <2>1, <2>2
<1>1. ASSUME NEW b \in Seq(Code(X))
      PROVE  /\ b \in Seq(X) /\ SeparateComments(b) \in Seq(QueryOf(Code(X)))
             /\ FlatSql(SeparateComments(b)) = SqlStatements(b)
  <2>1. b \in Seq(X)
    BY <1>0
  <2>2. b \in Seq(X \ {";"})
    BY DEF Code
  <2> QED BY <2>1, <2>2, SeparateLaws
<1>2. ASSUME NEW b \in Seq(Code(X)) PROVE b \in S
  <2>1. Split(b) = SeparateComments(b)
    BY SplitLaws
  <2> QED BY <1>1, <2>1
<1>3. ASSUME NEW a \in Seq(X), NEW b \in Seq(Code(X)), a \in S PROVE Append(a, ";") \o b \in S
  <2> DEFINE c == Append(a, ";") \o b
  <2>1. Split(c) = Split(a) \o SeparateComments(b)
    BY SplitLaws
  <2>2. Split(a) \in Seq(Seq(X)) /\ SeparateComments(b) \in Seq(Seq(X))
    BY <1>0, <1>1, SplitLaws
  <2>3. FlatSql(Split(a) \o SeparateComments(b)) = FlatSql(Split(a)) \o FlatSql(SeparateComments(b))
    BY <2>2, FlatSqlLaws
  <2>4. c \in Seq(X)
    <3>1. Append(a, ";") \in Seq(X)
      BY ConcatAppend DEF Marked
    <3> QED BY <1>1, <3>1, ConcatProperties
  <2>5. P(c)
    <3>1. SUFFICES ASSUME ~SemicolonInComment(c) PROVE FlatSql(Split(c)) = SqlStatements(c)
      OBVIOUS
    <3>2. ~Open(a) /\ ~SemicolonInComment(a)
      <4> DEFINE x == ";"
      <4>1. x \in X
        BY DEF Marked
      <4>2. /\ c \in Seq(X) /\ Len(c) >= Len(a) + 1 /\ SemicolonAt(c, Len(a) + 1)
            /\ \A i \in 1 .. Len(a) : c[i] = a[i]
        <5> DEFINE d == Append(a, x) \o b
        <5> HIDE DEF x
        <5>1. /\ d \in Seq(X) /\ Len(d) >= Len(a) + 1 /\ d[Len(a) + 1] = x
              /\ \A i \in 1 .. Len(a) : d[i] = a[i]
          BY <1>1, <4>1, SeparatorPlace
        <5>2. c = d
          BY DEF x
        <5> HIDE DEF c, d
        <5>3. SemicolonAt(c, Len(a) + 1)
          BY <5>1, <5>2 DEF SemicolonAt, x
        <5> QED BY <5>1, <5>2, <5>3
      <4> HIDE DEF c
      <4> QED BY <3>1, <4>2, SemicolonOutside
    <3>3. SqlStatements(c) = SqlStatements(a) \o SqlStatements(b)
      BY <1>1, <3>2, SqlLaws
    <3>4. FlatSql(Split(a)) = SqlStatements(a)
      BY <1>3, <3>2
    <3> HIDE DEF c, Split
    <3> QED BY <1>1, <2>1, <2>3, <3>3, <3>4
  <2> HIDE DEF c, P
  <2> QED BY <2>4, <2>5 DEF c
<1>4. \A s \in Seq(X) : s \in S
  <2> HIDE DEF S
  <2> DEFINE x == ";"
  <2>1. x \in X /\ Code(X) = X \ {x}
    BY DEF Code, Marked
  <2>2. \A a \in Seq(X), b \in Seq(X \ {x}) : a \in S => Append(a, x) \o b \in S
    BY <1>3, <2>1
  <2>3. \A s \in Seq(X \ {x}) : s \in S
    BY <1>2, <2>1
  <2> HIDE DEF x
  <2> QED BY <2>1, <2>2, <2>3, TextInd
<1> QED BY <1>4, SplitLaws

-----------------------------------------------------------------------------
(***************************************************************************)
(* Parse, and the statement that the words of a query are.                 *)
(***************************************************************************)
Words == STRING

(* The words that the model writes. *)
LEMMA LiteralWords ==
  /\ "" \in Words /\ "r0" \in Words /\ "INSERT" \in Words /\ "INTO" \in Words
  /\ "OR" \in Words /\ "REPLACE" \in Words /\ "IGNORE" \in Words /\ "CREATE" \in Words
  /\ "TEMP" \in Words /\ "TABLE" \in Words /\ "DROP" \in Words /\ "VACUUM" \in Words
BY WordsAssumption DEF Words

(* ... among them the ones that separate. *)
LEMMA MarkedWords == Marked(Words)
BY WordsAssumption DEF Words, Marked

(* A tuple of 1 word is a sequence of words. *)
LEMMA Tuple1 ==
  ASSUME NEW X, NEW a \in X
  PROVE  <<a>> \in Seq(X)
OBVIOUS

(* A tuple of 2 words is a sequence of words. *)
LEMMA Tuple2 ==
  ASSUME NEW X, NEW a \in X, NEW b \in X
  PROVE  <<a, b>> \in Seq(X)
OBVIOUS

(* A tuple of 3 words is a sequence of words. *)
LEMMA Tuple3 ==
  ASSUME NEW X, NEW a \in X, NEW b \in X, NEW c \in X
  PROVE  <<a, b, c>> \in Seq(X)
OBVIOUS

(* A tuple of 4 words is a sequence of words. *)
LEMMA Tuple4 ==
  ASSUME NEW X, NEW a \in X, NEW b \in X, NEW c \in X, NEW d \in X
  PROVE  <<a, b, c, d>> \in Seq(X)
OBVIOUS

(* A tuple of 5 words is a sequence of words. *)
LEMMA Tuple5 ==
  ASSUME NEW X, NEW a \in X, NEW b \in X, NEW c \in X, NEW d \in X, NEW e \in X
  PROVE  <<a, b, c, d, e>> \in Seq(X)
OBVIOUS

(* The word before the name, by the first word. *)
Keyword(verb) ==
  CASE verb = "INSERT" -> "INTO" [] verb = "SELECT" -> "FROM"
    [] verb = "VACUUM" -> "VACUUM" [] OTHER -> "TABLE"

HeadFacts(p) ==
  /\ Len(p) \in 1 .. 5
  /\ \A i \in 1 .. Len(p) : p[i] \notin {"--", ";"}
  /\ p[1] \in {"INSERT", "CREATE", "DROP", "VACUUM"}
  /\ \A i \in 1 .. Len(p) : i < Len(p) => p[i] # p[Len(p)]
  /\ p[Len(p)] = Keyword(p[1])

(* The same with the length named. *)
LEMMA HeadOf ==
  ASSUME NEW p, NEW n \in 1 .. 5, Len(p) = n,
         \A i \in 1 .. n : p[i] \notin {"--", ";"},
         p[1] \in {"INSERT", "CREATE", "DROP", "VACUUM"},
         \A i \in 1 .. n : i < n => p[i] # p[n], p[n] = Keyword(p[1])
  PROVE  HeadFacts(p)
BY DEF HeadFacts

(* What the heads have in common: the last word, which the name follows,   *)
(* is the keyword of the first one and stands nowhere before.              *)
LEMMA HeadWords ==
  \A p \in KnownHeads : HeadFacts(p)
<1>1. HeadFacts(<<"INSERT", "INTO">>)
  <2> DEFINE p == <<"INSERT", "INTO">>
  <2>1. Len(p) = 2 /\ p[1] = "INSERT" /\ p[2] = "INTO"
    OBVIOUS
  <2>2. 1 .. 2 = {1, 2} /\ 2 \in 1 .. 5
    OBVIOUS
  <2> HIDE DEF p
  <2>3. \A i \in 1 .. 2 : p[i] \notin {"--", ";"}
    BY <2>1, <2>2
  <2>4. p[1] \in {"INSERT", "CREATE", "DROP", "VACUUM"} /\ p[2] = Keyword(p[1])
    BY <2>1 DEF Keyword
  <2>5. \A i \in 1 .. 2 : i < 2 => p[i] # p[2]
    BY <2>1, <2>2
  <2>6. HeadFacts(p)
    BY <2>1, <2>2, <2>3, <2>4, <2>5, HeadOf
  <2> QED BY <2>6 DEF p
<1>2. HeadFacts(<<"INSERT", "OR", "REPLACE", "INTO">>)
  <2> DEFINE p == <<"INSERT", "OR", "REPLACE", "INTO">>
  <2>1. Len(p) = 4 /\ p[1] = "INSERT" /\ p[2] = "OR" /\ p[3] = "REPLACE" /\ p[4] = "INTO"
    OBVIOUS
  <2>2. 1 .. 4 = {1, 2, 3, 4} /\ 4 \in 1 .. 5
    OBVIOUS
  <2> HIDE DEF p
  <2>3. \A i \in 1 .. 4 : p[i] \notin {"--", ";"}
    BY <2>1, <2>2
  <2>4. p[1] \in {"INSERT", "CREATE", "DROP", "VACUUM"} /\ p[4] = Keyword(p[1])
    BY <2>1 DEF Keyword
  <2>5. \A i \in 1 .. 4 : i < 4 => p[i] # p[4]
    BY <2>1, <2>2
  <2>6. HeadFacts(p)
    BY <2>1, <2>2, <2>3, <2>4, <2>5, HeadOf
  <2> QED BY <2>6 DEF p
<1>3. HeadFacts(<<"INSERT", "OR", "IGNORE", "INTO">>)
  <2> DEFINE p == <<"INSERT", "OR", "IGNORE", "INTO">>
  <2>1. Len(p) = 4 /\ p[1] = "INSERT" /\ p[2] = "OR" /\ p[3] = "IGNORE" /\ p[4] = "INTO"
    OBVIOUS
  <2>2. 1 .. 4 = {1, 2, 3, 4} /\ 4 \in 1 .. 5
    OBVIOUS
  <2> HIDE DEF p
  <2>3. \A i \in 1 .. 4 : p[i] \notin {"--", ";"}
    BY <2>1, <2>2
  <2>4. p[1] \in {"INSERT", "CREATE", "DROP", "VACUUM"} /\ p[4] = Keyword(p[1])
    BY <2>1 DEF Keyword
  <2>5. \A i \in 1 .. 4 : i < 4 => p[i] # p[4]
    BY <2>1, <2>2
  <2>6. HeadFacts(p)
    BY <2>1, <2>2, <2>3, <2>4, <2>5, HeadOf
  <2> QED BY <2>6 DEF p
<1>4. HeadFacts(<<"CREATE", "TABLE">>)
  <2> DEFINE p == <<"CREATE", "TABLE">>
  <2>1. Len(p) = 2 /\ p[1] = "CREATE" /\ p[2] = "TABLE"
    OBVIOUS
  <2>2. 1 .. 2 = {1, 2} /\ 2 \in 1 .. 5
    OBVIOUS
  <2> HIDE DEF p
  <2>3. \A i \in 1 .. 2 : p[i] \notin {"--", ";"}
    BY <2>1, <2>2
  <2>4. p[1] \in {"INSERT", "CREATE", "DROP", "VACUUM"} /\ p[2] = Keyword(p[1])
    BY <2>1 DEF Keyword
  <2>5. \A i \in 1 .. 2 : i < 2 => p[i] # p[2]
    BY <2>1, <2>2
  <2>6. HeadFacts(p)
    BY <2>1, <2>2, <2>3, <2>4, <2>5, HeadOf
  <2> QED BY <2>6 DEF p
<1>5. HeadFacts(<<"CREATE", "TEMP", "TABLE">>)
  <2> DEFINE p == <<"CREATE", "TEMP", "TABLE">>
  <2>1. Len(p) = 3 /\ p[1] = "CREATE" /\ p[2] = "TEMP" /\ p[3] = "TABLE"
    OBVIOUS
  <2>2. 1 .. 3 = {1, 2, 3} /\ 3 \in 1 .. 5
    OBVIOUS
  <2> HIDE DEF p
  <2>3. \A i \in 1 .. 3 : p[i] \notin {"--", ";"}
    BY <2>1, <2>2
  <2>4. p[1] \in {"INSERT", "CREATE", "DROP", "VACUUM"} /\ p[3] = Keyword(p[1])
    BY <2>1 DEF Keyword
  <2>5. \A i \in 1 .. 3 : i < 3 => p[i] # p[3]
    BY <2>1, <2>2
  <2>6. HeadFacts(p)
    BY <2>1, <2>2, <2>3, <2>4, <2>5, HeadOf
  <2> QED BY <2>6 DEF p
<1>6. HeadFacts(<<"CREATE", "OR", "REPLACE", "TABLE">>)
  <2> DEFINE p == <<"CREATE", "OR", "REPLACE", "TABLE">>
  <2>1. Len(p) = 4 /\ p[1] = "CREATE" /\ p[2] = "OR" /\ p[3] = "REPLACE" /\ p[4] = "TABLE"
    OBVIOUS
  <2>2. 1 .. 4 = {1, 2, 3, 4} /\ 4 \in 1 .. 5
    OBVIOUS
  <2> HIDE DEF p
  <2>3. \A i \in 1 .. 4 : p[i] \notin {"--", ";"}
    BY <2>1, <2>2
  <2>4. p[1] \in {"INSERT", "CREATE", "DROP", "VACUUM"} /\ p[4] = Keyword(p[1])
    BY <2>1 DEF Keyword
  <2>5. \A i \in 1 .. 4 : i < 4 => p[i] # p[4]
    BY <2>1, <2>2
  <2>6. HeadFacts(p)
    BY <2>1, <2>2, <2>3, <2>4, <2>5, HeadOf
  <2> QED BY <2>6 DEF p
<1>7. HeadFacts(<<"CREATE", "OR", "REPLACE", "TEMP", "TABLE">>)
  <2> DEFINE p == <<"CREATE", "OR", "REPLACE", "TEMP", "TABLE">>
  <2>1. /\ Len(p) = 5 /\ p[1] = "CREATE" /\ p[2] = "OR" /\ p[3] = "REPLACE"
        /\ p[4] = "TEMP" /\ p[5] = "TABLE"
    OBVIOUS
  <2>2. 1 .. 5 = {1, 2, 3, 4, 5} /\ 5 \in 1 .. 5
    OBVIOUS
  <2> HIDE DEF p
  <2>3. \A i \in 1 .. 5 : p[i] \notin {"--", ";"}
    BY <2>1, <2>2
  <2>4. p[1] \in {"INSERT", "CREATE", "DROP", "VACUUM"} /\ p[5] = Keyword(p[1])
    BY <2>1 DEF Keyword
  <2>5. \A i \in 1 .. 5 : i < 5 => p[i] # p[5]
    BY <2>1, <2>2
  <2>6. HeadFacts(p)
    BY <2>1, <2>2, <2>3, <2>4, <2>5, HeadOf
  <2> QED BY <2>6 DEF p
<1>8. HeadFacts(<<"DROP", "TABLE">>)
  <2> DEFINE p == <<"DROP", "TABLE">>
  <2>1. Len(p) = 2 /\ p[1] = "DROP" /\ p[2] = "TABLE"
    OBVIOUS
  <2>2. 1 .. 2 = {1, 2} /\ 2 \in 1 .. 5
    OBVIOUS
  <2> HIDE DEF p
  <2>3. \A i \in 1 .. 2 : p[i] \notin {"--", ";"}
    BY <2>1, <2>2
  <2>4. p[1] \in {"INSERT", "CREATE", "DROP", "VACUUM"} /\ p[2] = Keyword(p[1])
    BY <2>1 DEF Keyword
  <2>5. \A i \in 1 .. 2 : i < 2 => p[i] # p[2]
    BY <2>1, <2>2
  <2>6. HeadFacts(p)
    BY <2>1, <2>2, <2>3, <2>4, <2>5, HeadOf
  <2> QED BY <2>6 DEF p
<1>9. HeadFacts(<<"VACUUM">>)
  <2> DEFINE p == <<"VACUUM">>
  <2>1. Len(p) = 1 /\ p[1] = "VACUUM"
    OBVIOUS
  <2>2. 1 .. 1 = {1} /\ 1 \in 1 .. 5
    OBVIOUS
  <2> HIDE DEF p
  <2>3. \A i \in 1 .. 1 : p[i] \notin {"--", ";"}
    BY <2>1, <2>2
  <2>4. p[1] \in {"INSERT", "CREATE", "DROP", "VACUUM"} /\ p[1] = Keyword(p[1])
    BY <2>1 DEF Keyword
  <2>5. \A i \in 1 .. 1 : i < 1 => p[i] # p[1]
    BY <2>1, <2>2
  <2>6. HeadFacts(p)
    BY <2>1, <2>2, <2>3, <2>4, <2>5, HeadOf
  <2> QED BY <2>6 DEF p
<1> QED BY <1>1, <1>2, <1>3, <1>4, <1>5, <1>6, <1>7, <1>8, <1>9
        DEF KnownHeads, InsertHeads, CreateHeads

(* They are sequences of words. *)
LEMMA HeadSeqs ==
  \A p \in KnownHeads : p \in Seq(Words)
<1>1. <<"INSERT", "INTO">> \in Seq(Words)
  BY LiteralWords, Tuple2
<1>2. <<"INSERT", "OR", "REPLACE", "INTO">> \in Seq(Words)
  BY LiteralWords, Tuple4
<1>3. <<"INSERT", "OR", "IGNORE", "INTO">> \in Seq(Words)
  BY LiteralWords, Tuple4
<1>4. <<"CREATE", "TABLE">> \in Seq(Words)
  BY LiteralWords, Tuple2
<1>5. <<"CREATE", "TEMP", "TABLE">> \in Seq(Words)
  BY LiteralWords, Tuple3
<1>6. <<"CREATE", "OR", "REPLACE", "TABLE">> \in Seq(Words)
  BY LiteralWords, Tuple4
<1>7. <<"CREATE", "OR", "REPLACE", "TEMP", "TABLE">> \in Seq(Words)
  BY LiteralWords, Tuple5
<1>8. <<"DROP", "TABLE">> \in Seq(Words)
  BY LiteralWords, Tuple2
<1>9. <<"VACUUM">> \in Seq(Words)
  BY LiteralWords, Tuple1
<1> QED BY <1>1, <1>2, <1>3, <1>4, <1>5, <1>6, <1>7, <1>8, <1>9
        DEF KnownHeads, InsertHeads, CreateHeads

(* A prefix, by its elements.                                              *)
LEMMA PrefixMeans ==
  ASSUME NEW X, NEW Y, NEW p \in Seq(Y), NEW b \in Seq(X), IsPrefix(p, b)
  PROVE  Len(p) <= Len(b) /\ \A i \in 1 .. Len(p) : b[i] = p[i]
<1>1. Len(p) <= Len(b) /\ SubSeq(p, 1, Len(p)) = SubSeq(b, 1, Len(p))
  BY DEF IsPrefix
<1>2. ASSUME NEW i \in 1 .. Len(p)
      PROVE  SubSeq(p, 1, Len(p))[i] = p[i] /\ SubSeq(b, 1, Len(p))[i] = b[i]
  BY <1>1
<1> QED BY <1>1, <1>2

(* The word after the first x.                                             *)
LEMMA AfterFirst ==
  ASSUME NEW X, NEW w \in Seq(X), NEW k \in 1 .. Len(w), k + 1 <= Len(w), NEW x, w[k] = x,
         \A j \in 1 .. Len(w) : j < k => w[j] # x
  PROVE  After(w, x) = w[k + 1]
<1> DEFINE at == {j \in 1 .. Len(w) : w[j] = x}
<1>1. k \in at /\ at \in SUBSET Nat /\ Len(w) \in Nat
  OBVIOUS
<1>2. Min(at) \in at /\ \A y \in at : Min(at) <= y
  <2> HIDE DEF at
  <2> QED BY <1>1, MinOf
<1>3. Min(at) = k
  BY <1>1, <1>2
<1>4. FirstFrom(w, 1, LAMBDA y : y = x) = k
  BY <1>1, <1>3 DEF FirstFrom
<1> HIDE DEF at
<1>5. k < Len(w)
  OBVIOUS
<1> QED BY <1>4, <1>5 DEF After

(* What a head makes of a query: its statement, the verb and the table.    *)
LEMMA HeadReads ==
  ASSUME NEW X, Marked(X), NEW q \in Seq(X), NEW p \in Heads(q, KnownHeads)
  PROVE  LET w == SqlStatements(q)
             n == Blind(q)[Len(p) + 1]
         IN /\ w # << >> /\ w[1] \in Seq(X) /\ w[1] # << >>
            /\ Sql(w[1]).verb = p[1] /\ Sql(w[1]).table = n
            /\ Blind(q) # << >> /\ Blind(q)[1] = p[1]
            /\ n \in X
<1> DEFINE w == SqlStatements(q)
           b == Blind(q)
           k == Len(p)
<1>1. p \in KnownHeads /\ IsPrefix(p, b) /\ Len(b) > k
  BY DEF Heads
<1>0. b[k + 1] # "--" /\ b[k + 1] # ";"
  BY DEF Heads
<1>2. HeadFacts(p) /\ p \in Seq(Words)
  BY <1>1, HeadWords, HeadSeqs
<1>3. b \in Seq(X)
  BY WithoutLaws DEF Blind
<1> HIDE DEF b
<1>4. k <= Len(b) /\ \A i \in 1 .. k : b[i] = p[i]
  BY <1>1, <1>2, <1>3, PrefixMeans
<1>15. k \in 1 .. 5 /\ k = Len(p)
  BY <1>2 DEF HeadFacts
<1> HIDE DEF k
<1>5. k \in 1 .. 5 /\ k \in Nat /\ k + 1 \in 1 .. Len(b)
  BY <1>1, <1>3, <1>15
<1>6. Clear(b, k + 1, "--") /\ Clear(b, k + 1, ";")
  <2>1. ASSUME NEW i \in 1 .. k + 1 PROVE b[i] # "--" /\ b[i] # ";"
    <3>1. CASE i = k + 1
      BY <1>0, <3>1
    <3>2. CASE i # k + 1
      <4>1. i \in 1 .. k
        BY <1>5, <3>2
      <4>2. p[i] \notin {"--", ";"}
        BY <1>2, <1>15, <4>1 DEF HeadFacts
      <4> QED BY <1>4, <4>1, <4>2
    <3> QED BY <3>1, <3>2
  <2> QED BY <2>1 DEF Clear
<1>7. w # << >> /\ Begins(w[1], b, k + 1)
  BY <1>5, <1>6, SqlBegins DEF b
<1>8. w \in Seq(Seq(X)) /\ w[1] \in Seq(X)
  <2>1. w \in Seq(Seq(X))
    BY SqlLaws
  <2> HIDE DEF w
  <2> QED BY <1>7, <2>1
<1> HIDE DEF w
<1>9. Len(w[1]) >= k + 1 /\ \A i \in 1 .. k + 1 : w[1][i] = b[i]
  BY <1>7 DEF Begins
<1>10. w[1][1] = p[1] /\ b[1] = p[1]
  <2>1. 1 \in 1 .. k /\ 1 \in 1 .. k + 1
    BY <1>5
  <2> QED BY <1>4, <1>9, <2>1
<1>11. After(w[1], Keyword(p[1])) = b[k + 1]
  <2> DEFINE v == w[1]
             x == Keyword(p[1])
  <2>1. v \in Seq(X) /\ k \in 1 .. Len(v) /\ k + 1 <= Len(v)
    BY <1>5, <1>8, <1>9
  <2>2. v[k] = x
    <3>1. k \in 1 .. k /\ k \in 1 .. k + 1
      BY <1>5
    <3>2. p[k] = x
      BY <1>2, <1>15 DEF HeadFacts
    <3> QED BY <1>4, <1>9, <3>1, <3>2
  <2>3. ASSUME NEW j \in 1 .. Len(v), j < k PROVE v[j] # x
    <3>1. j \in 1 .. k /\ j \in 1 .. k + 1
      BY <1>5, <2>1, <2>3
    <3>2. p[j] # p[k] /\ p[k] = x
      BY <1>2, <1>15, <2>3, <3>1 DEF HeadFacts
    <3> QED BY <1>4, <1>9, <3>1, <3>2
  <2>4. v[k + 1] = b[k + 1]
    BY <1>5, <1>9
  <2> HIDE DEF v, x
  <2>5. After(v, x) = v[k + 1]
    BY <2>1, <2>2, <2>3, AfterFirst
  <2> QED BY <2>4, <2>5 DEF v, x
<1>12. Sql(w[1]).verb = p[1] /\ Sql(w[1]).table = b[k + 1]
  <2> DEFINE v == w[1]
  <2>1. /\ Sql(v).verb = v[1]
        /\ Sql(v).table = After(v, CASE v[1] = "INSERT" -> "INTO" [] v[1] = "SELECT" -> "FROM"
                          [] v[1] = "VACUUM" -> "VACUUM" [] OTHER -> "TABLE")
    BY DEF Sql
  <2>2. Sql(v).table = After(v, Keyword(v[1]))
    BY <2>1 DEF Keyword
  <2> HIDE DEF v
  <2>3. v[1] = p[1]
    BY <1>10 DEF v
  <2> QED BY <1>11, <2>1, <2>2, <2>3 DEF v
<1>13. b # << >> /\ b[k + 1] \in X
  BY <1>3, <1>5
<1>14. w[1] # << >>
  BY <1>5, <1>8, <1>9
<1> QED BY <1>7, <1>8, <1>10, <1>12, <1>13, <1>14, <1>15 DEF w, b

(* The first words that the patterns of Parse look for.                    *)
LEMMA FirstWords ==
  ASSUME NEW X, NEW q \in Seq(X)
  PROVE  /\ \A h \in Heads(q, InsertHeads) : h[1] = "INSERT" /\ h \in Heads(q, KnownHeads)
         /\ \A h \in Heads(q, CreateHeads) : h[1] = "CREATE" /\ h \in Heads(q, KnownHeads)
         /\ \A h \in Heads(q, {<<"DROP", "TABLE">>}) :
              h[1] = "DROP" /\ h \in Heads(q, KnownHeads)
         /\ IsPrefix(<<"VACUUM">>, Blind(q)) =>
              Blind(q) # << >> /\ Blind(q)[1] = "VACUUM"
         /\ Heads(q, {<<"ALTER", "TABLE">>}) # {} =>
              Blind(q) # << >> /\ Blind(q)[1] = "ALTER"
         /\ SelectMatches(q) # {} => q # << >> /\ q[1] = "SELECT"
<1>1. \A hs : hs \in SUBSET KnownHeads =>
        \A h \in Heads(q, hs) : h \in Heads(q, KnownHeads) /\ h \in hs
  BY DEF Heads
<1>2. /\ InsertHeads \in SUBSET KnownHeads
      /\ CreateHeads \in SUBSET KnownHeads
      /\ {<<"DROP", "TABLE">>} \in SUBSET KnownHeads
  BY DEF KnownHeads
<1>3. \A h \in InsertHeads : h[1] = "INSERT"
  BY DEF InsertHeads
<1>4. \A h \in CreateHeads : h[1] = "CREATE"
  BY DEF CreateHeads
<1>5. \A h \in {<<"DROP", "TABLE">>} : h[1] = "DROP"
  OBVIOUS
<1>6. Blind(q) \in Seq(X)
  BY WithoutLaws DEF Blind
<1>7. ASSUME IsPrefix(<<"VACUUM">>, Blind(q))
      PROVE  Blind(q) # << >> /\ Blind(q)[1] = "VACUUM"
  <2> DEFINE p == <<"VACUUM">>
             b == Blind(q)
  <2>1. Len(p) = 1 /\ p[1] = "VACUUM"
    OBVIOUS
  <2>2. p \in Seq({"VACUUM"})
    BY Tuple1
  <2>3. IsPrefix(p, b) /\ b \in Seq(X)
    BY <1>6, <1>7
  <2> HIDE DEF p, b
  <2>5. Len(p) <= Len(b) /\ \A i \in 1 .. Len(p) : b[i] = p[i]
    BY <2>2, <2>3, PrefixMeans
  <2>4. 1 <= Len(b) /\ b[1] = p[1]
    <3>1. 1 \in 1 .. 1
      OBVIOUS
    <3> QED BY <2>1, <2>5, <3>1
  <2> QED BY <2>1, <2>3, <2>4 DEF b
<1>8. ASSUME Heads(q, {<<"ALTER", "TABLE">>}) # {}
      PROVE  Blind(q) # << >> /\ Blind(q)[1] = "ALTER"
  <2> DEFINE p == <<"ALTER", "TABLE">>
             b == Blind(q)
  <2>1. Len(p) = 2 /\ p[1] = "ALTER"
    OBVIOUS
  <2>2. p \in Seq({"ALTER", "TABLE"})
    BY Tuple2
  <2>3. IsPrefix(p, b) /\ b \in Seq(X)
    BY <1>6, <1>8 DEF Heads
  <2> HIDE DEF p, b
  <2>5. Len(p) <= Len(b) /\ \A i \in 1 .. Len(p) : b[i] = p[i]
    BY <2>2, <2>3, PrefixMeans
  <2>4. 2 <= Len(b) /\ b[1] = p[1]
    <3>1. 1 \in 1 .. 2
      OBVIOUS
    <3> QED BY <2>1, <2>5, <3>1
  <2> QED BY <2>1, <2>3, <2>4 DEF b
<1>9. SelectMatches(q) # {} => q # << >> /\ q[1] = "SELECT"
  BY DEF SelectMatches
<1> QED BY <1>1, <1>2, <1>3, <1>4, <1>5, <1>7, <1>8, <1>9

(* The patterns of Parse. *)
DropHeads == {<<"DROP", "TABLE">>}
AlterHeads == {<<"ALTER", "TABLE">>}
Selects(q) == SelectMatches(Trim(q)) # {}
Vacuums(q) == IsPrefix(<<"VACUUM">>, Blind(q))

(* Which patterns match a query. *)
Inserts(q) == Heads(q, InsertHeads) # {}
Creates(q) == Heads(q, CreateHeads) # {}
Alters(q) == Heads(q, AlterHeads) # {}
Drops(q) == Heads(q, DropHeads) # {}

(* No two of them do: their first words differ.                            *)
LEMMA PatternsApart ==
  ASSUME NEW X, Marked(X), NEW q \in Seq(X)
  PROVE  /\ Inserts(q) \/ Creates(q) \/ Selects(q) \/ Alters(q) \/ Vacuums(q) \/ Drops(q) =>
              Blind(q) # << >>
         /\ Inserts(q) => Blind(q)[1] = "INSERT"
         /\ Creates(q) => Blind(q)[1] = "CREATE"
         /\ Selects(q) => Blind(q)[1] = "SELECT"
         /\ Alters(q) => Blind(q)[1] = "ALTER"
         /\ Vacuums(q) => Blind(q)[1] = "VACUUM"
         /\ Drops(q) => Blind(q)[1] = "DROP"
<1>1. \A h \in Heads(q, KnownHeads) : Blind(q) # << >> /\ Blind(q)[1] = h[1]
  BY HeadReads
<1>2. /\ Inserts(q) => Blind(q) # << >> /\ Blind(q)[1] = "INSERT"
      /\ Creates(q) => Blind(q) # << >> /\ Blind(q)[1] = "CREATE"
      /\ Drops(q) => Blind(q) # << >> /\ Blind(q)[1] = "DROP"
  BY <1>1, FirstWords DEF Inserts, Creates, Drops, DropHeads
<1>3. /\ Alters(q) => Blind(q) # << >> /\ Blind(q)[1] = "ALTER"
      /\ Vacuums(q) => Blind(q) # << >> /\ Blind(q)[1] = "VACUUM"
  BY FirstWords DEF Alters, Vacuums, AlterHeads
<1>4. Selects(q) => Blind(q) # << >> /\ Blind(q)[1] = "SELECT"
  <2> DEFINE t == Trim(q)
  <2>1. t \in Seq(X) /\ Blind(t) = Blind(q)
    BY TrimLaws, TrimKeeps DEF Marked
  <2>2. Selects(q) => t # << >> /\ t[1] = "SELECT"
    BY <2>1, FirstWords DEF Selects
  <2> HIDE DEF t
  <2>3. t # << >> /\ t[1] # "NL" => Blind(t) # << >> /\ Blind(t)[1] = t[1]
    BY <2>1, WithoutFirst DEF Blind
  <2> QED BY <2>1, <2>2, <2>3
<1> QED BY <1>2, <1>3, <1>4

(* Parse trims the query first: it matters for SELECT and VACUUM only.     *)
LEMMA ParseCases ==
  ASSUME NEW X, Marked(X), NEW q \in Seq(X)
  PROVE  /\ Inserts(q) => Parse(q) = [op |-> "insert", table |-> NameAfter(q, InsertHeads)]
         /\ Creates(q) => Parse(q) = [op |-> "create_table", table |-> NameAfter(q, CreateHeads)]
         /\ Selects(q) => Parse(q).op = "select"
         /\ Alters(q) => Parse(q).op = "alter_table"
         /\ Vacuums(q) => Parse(q) = [op |-> "vacuum", table |-> VacuumTable(Trim(q))]
         /\ Drops(q) => Parse(q) = [op |-> "drop_table", table |-> NameAfter(q, DropHeads)]
         /\ ~Inserts(q) /\ ~Creates(q) /\ ~Selects(q) /\ ~Alters(q) /\ ~Vacuums(q) /\ ~Drops(q)
              => Parse(q).op = "unknown"
<1> DEFINE t == Trim(q)
<1>1. Blind(t) = Blind(q)
  BY TrimKeeps DEF Marked
<1>2. /\ Inserts(t) = Inserts(q) /\ Creates(t) = Creates(q)
      /\ Alters(t) = Alters(q) /\ Drops(t) = Drops(q) /\ Vacuums(t) = Vacuums(q)
      /\ NameAfter(t, InsertHeads) = NameAfter(q, InsertHeads)
      /\ NameAfter(t, CreateHeads) = NameAfter(q, CreateHeads)
      /\ NameAfter(t, DropHeads) = NameAfter(q, DropHeads)
  BY <1>1 DEF Heads, NameAfter, Inserts, Creates, Alters, Drops, Vacuums
<1>3. Inserts(t) /\ ~Creates(t) /\ ~Selects(q) /\ ~Alters(t) /\ ~Vacuums(t) /\ ~Drops(t)
        => Parse(q) = [op |-> "insert", table |-> NameAfter(t, InsertHeads)]
  BY Zenon DEF Parse, Inserts, Creates, Selects, Alters, Vacuums, Drops, AlterHeads, DropHeads
<1>4. ~Inserts(t) /\ Creates(t) /\ ~Selects(q) /\ ~Alters(t) /\ ~Vacuums(t) /\ ~Drops(t)
        => Parse(q) = [op |-> "create_table", table |-> NameAfter(t, CreateHeads)]
  BY Zenon DEF Parse, Inserts, Creates, Selects, Alters, Vacuums, Drops, AlterHeads, DropHeads
<1>5. ~Inserts(t) /\ ~Creates(t) /\ Selects(q) /\ ~Alters(t) /\ ~Vacuums(t) /\ ~Drops(t)
        => Parse(q).op = "select"
  BY Zenon DEF Parse, Inserts, Creates, Selects, Alters, Vacuums, Drops, AlterHeads, DropHeads
<1>6. ~Inserts(t) /\ ~Creates(t) /\ ~Selects(q) /\ Alters(t) /\ ~Vacuums(t) /\ ~Drops(t)
        => Parse(q).op = "alter_table"
  BY Zenon DEF Parse, Inserts, Creates, Selects, Alters, Vacuums, Drops, AlterHeads, DropHeads
<1>7. ~Inserts(t) /\ ~Creates(t) /\ ~Selects(q) /\ ~Alters(t) /\ Vacuums(t) /\ ~Drops(t)
        => Parse(q) = [op |-> "vacuum", table |-> VacuumTable(t)]
  BY Zenon DEF Parse, Inserts, Creates, Selects, Alters, Vacuums, Drops, AlterHeads, DropHeads
<1>8. ~Inserts(t) /\ ~Creates(t) /\ ~Selects(q) /\ ~Alters(t) /\ ~Vacuums(t) /\ Drops(t)
        => Parse(q) = [op |-> "drop_table", table |-> NameAfter(t, DropHeads)]
  BY Zenon DEF Parse, Inserts, Creates, Selects, Alters, Vacuums, Drops, AlterHeads, DropHeads
<1>9. ~Inserts(t) /\ ~Creates(t) /\ ~Selects(q) /\ ~Alters(t) /\ ~Vacuums(t) /\ ~Drops(t)
        => Parse(q).op = "unknown"
  BY Zenon DEF Parse, Inserts, Creates, Selects, Alters, Vacuums, Drops, AlterHeads, DropHeads
<1>10. t = Trim(q)
  OBVIOUS
<1> HIDE DEF t
<1> QED BY <1>2, <1>3, <1>4, <1>5, <1>6, <1>7, <1>8, <1>9, <1>10, PatternsApart

(* It finds neither operation nor table in the rest.                       *)
LEMMA ParseNothing ==
  ASSUME NEW X, Marked(X), NEW q \in Seq(X),
         ~Inserts(q), ~Creates(q), ~Selects(q), ~Alters(q), ~Vacuums(q), ~Drops(q)
  PROVE  Parse(q).op = "unknown" /\ Parse(q).table = ""
<1> DEFINE t == Trim(q)
<1>1. Blind(t) = Blind(q)
  BY TrimKeeps DEF Marked
<1>2. /\ Inserts(t) = Inserts(q) /\ Creates(t) = Creates(q)
      /\ Alters(t) = Alters(q) /\ Drops(t) = Drops(q) /\ Vacuums(t) = Vacuums(q)
  BY <1>1 DEF Heads, Inserts, Creates, Alters, Drops, Vacuums
<1>3. ~Inserts(t) /\ ~Creates(t) /\ ~Selects(q) /\ ~Alters(t) /\ ~Vacuums(t) /\ ~Drops(t)
        => Parse(q).op = "unknown" /\ Parse(q).table = ""
  BY Zenon DEF Parse, Inserts, Creates, Selects, Alters, Vacuums, Drops, AlterHeads, DropHeads
<1> HIDE DEF t
<1> QED BY <1>2, <1>3

(* A semicolon in the query. *)
HasSemicolon(q) == \E i \in 1 .. Len(q) : SemicolonAt(q, i)

(* A number above one is not one. *)
LEMMA MoreThanOne ==
  ASSUME NEW X
  PROVE  \A c \in Seq(X) : Len(c) > 1 => Len(c) # 1
<1>1. \A k \in Nat : k > 1 => k # 1
  OBVIOUS
<1>2. \A c \in Seq(X) : Len(c) \in Nat
  OBVIOUS
<1> QED BY Zenon, <1>1, <1>2

(* Parse finds the operation and the table that a head stands for; only    *)
(* after VACUUM it may take a semicolon for a part of the name.            *)
LEMMA ParseHead ==
  ASSUME NEW X, Marked(X), NEW q \in Seq(X), NEW h \in Heads(q, KnownHeads)
  PROVE  LET n == Blind(q)[Len(h) + 1]
         IN /\ h[1] = "INSERT" => Parse(q) = [op |-> "insert", table |-> n]
            /\ h[1] = "CREATE" => Parse(q) = [op |-> "create_table", table |-> n]
            /\ h[1] = "DROP" => Parse(q) = [op |-> "drop_table", table |-> n]
            /\ h[1] = "VACUUM" =>
                 /\ Parse(q).op = "vacuum"
                 /\ \/ Parse(q).table = n
                    \/ Parse(q).table = "name;" /\ HasSemicolon(Trim(q))
<1> DEFINE n == Blind(q)[Len(h) + 1]
           w == SqlStatements(q)
<1>1. /\ Sql(w[1]).table = n
      /\ \A g \in Heads(q, KnownHeads) : Blind(q)[Len(g) + 1] = Sql(w[1]).table
  BY HeadReads
<1> HIDE DEF w
<1>2. \A g \in Heads(q, KnownHeads) : Blind(q)[Len(g) + 1] = n
  BY <1>1
<1>3. h \in KnownHeads
  BY DEF Heads
<1>4. /\ h[1] = "INSERT" => h \in InsertHeads
      /\ h[1] = "CREATE" => h \in CreateHeads
      /\ h[1] = "DROP" => h \in DropHeads
      /\ h[1] = "VACUUM" => h = <<"VACUUM">>
  <2>1. /\ \A g \in InsertHeads : g[1] = "INSERT"
        /\ \A g \in CreateHeads : g[1] = "CREATE"
        /\ \A g \in DropHeads : g[1] = "DROP"
        /\ \A g \in {<<"VACUUM">>} : g[1] = "VACUUM"
    BY DEF InsertHeads, CreateHeads, DropHeads
  <2> QED BY <1>3, <2>1 DEF KnownHeads, DropHeads
<1>5. \A hs : h \in hs => h \in Heads(q, hs)
  BY DEF Heads
<1>6. \A hs : (\A g \in Heads(q, hs) : g \in Heads(q, KnownHeads)) /\ h \in hs =>
        Heads(q, hs) # {} /\ NameAfter(q, hs) = n
  <2> SUFFICES ASSUME NEW hs, \A g \in Heads(q, hs) : g \in Heads(q, KnownHeads), h \in hs
               PROVE  Heads(q, hs) # {} /\ NameAfter(q, hs) = n
    OBVIOUS
  <2>1. h \in Heads(q, hs)
    BY <1>5
  <2> DEFINE g == CHOOSE g \in Heads(q, hs) : TRUE
  <2>2. g \in Heads(q, hs)
    BY <2>1
  <2>3. NameAfter(q, hs) = Blind(q)[Len(g) + 1]
    BY DEF NameAfter
  <2> HIDE DEF g, n
  <2> QED BY <1>2, <2>1, <2>2, <2>3
<1>7. /\ h[1] = "INSERT" => Inserts(q) /\ NameAfter(q, InsertHeads) = n
      /\ h[1] = "CREATE" => Creates(q) /\ NameAfter(q, CreateHeads) = n
      /\ h[1] = "DROP" => Drops(q) /\ NameAfter(q, DropHeads) = n
  <2> HIDE DEF n
  <2>1. /\ \A g \in Heads(q, InsertHeads) : g \in Heads(q, KnownHeads)
        /\ \A g \in Heads(q, CreateHeads) : g \in Heads(q, KnownHeads)
        /\ \A g \in Heads(q, DropHeads) : g \in Heads(q, KnownHeads)
    BY FirstWords DEF DropHeads
  <2> QED BY <1>4, <1>6, <2>1 DEF Inserts, Creates, Drops
<1>8. ASSUME h[1] = "VACUUM"
      PROVE  /\ Parse(q).op = "vacuum"
             /\ \/ Parse(q).table = n
                \/ Parse(q).table = "name;" /\ HasSemicolon(Trim(q))
  <2> DEFINE t == Trim(q)
             b == Blind(q)
  <2>1. h = <<"VACUUM">> /\ Vacuums(q)
    BY <1>4, <1>8 DEF Heads, Vacuums
  <2>2. Parse(q) = [op |-> "vacuum", table |-> VacuumTable(t)]
    BY <2>1, ParseCases
  <2>3. Len(h) = 1 /\ Len(b) > 1
    BY <2>1 DEF Heads
  <2>4. Blind(t) = b /\ b \in Seq(X) /\ t \in Seq(X)
    BY TrimLaws, TrimKeeps, WithoutLaws DEF Marked, Blind
  <2>7. Len(b) # 1 /\ Len(b) > 1
    <3>1. \A c \in Seq(X) : Len(c) > 1 => Len(c) # 1
      BY MoreThanOne
    <3>2. b \in Seq(X) /\ Len(b) > 1
      BY <2>3, <2>4
    <3> HIDE DEF b
    <3> QED BY <3>1, <3>2
  <2>8. n = b[2]
    BY <2>3
  <2> HIDE DEF t, b, n
  <2>9. t = Trim(q) /\ b = Blind(q)
    BY DEF t, b
  <2>5. CASE \E i \in 2 .. Len(t) : t[i] = ";" /\ t[i - 1] = b[2]
    <3>1. VacuumTable(t) = "name;"
      BY Zenon, <2>7, <2>4, <2>5 DEF VacuumTable
    <3>2. HasSemicolon(t)
      <4>1. PICK i \in 2 .. Len(t) : t[i] = ";"
        BY <2>5
      <4>2. SemicolonAt(t, i)
        BY <4>1 DEF SemicolonAt
      <4>3. i \in 1 .. Len(t)
        BY <2>4
      <4> QED BY <4>2, <4>3 DEF HasSemicolon
    <3>4. Parse(q).op = "vacuum" /\ Parse(q).table = VacuumTable(t)
      BY <2>2
    <3>3. Parse(q).op = "vacuum" /\ Parse(q).table = "name;"
      BY <3>1, <3>4
    <3> QED BY <2>9, <3>2, <3>3
  <2>6. CASE ~ \E i \in 2 .. Len(t) : t[i] = ";" /\ t[i - 1] = b[2]
    <3>1. VacuumTable(t) = b[2]
      BY Zenon, <2>4, <2>6, <2>7 DEF VacuumTable
    <3> QED BY <2>2, <2>8, <3>1
  <2> QED BY <2>5, <2>6
<1> HIDE DEF n
<1>9. /\ h[1] = "INSERT" => Parse(q) = [op |-> "insert", table |-> n]
      /\ h[1] = "CREATE" => Parse(q) = [op |-> "create_table", table |-> n]
      /\ h[1] = "DROP" => Parse(q) = [op |-> "drop_table", table |-> n]
  BY <1>7, ParseCases
<1> QED BY <1>8, <1>9 DEF n

(* What Parse takes for an INSERT or a CREATE TABLE has such a head.       *)
LEMMA ParsedHead ==
  ASSUME NEW X, Marked(X), NEW q \in Seq(X)
  PROVE  /\ Parse(q).op = "insert" =>
              \E h \in Heads(q, KnownHeads) :
                h[1] = "INSERT" /\ Parse(q).table = Blind(q)[Len(h) + 1]
         /\ Parse(q).op = "create_table" =>
              \E h \in Heads(q, KnownHeads) :
                h[1] = "CREATE" /\ Parse(q).table = Blind(q)[Len(h) + 1]
<1>1. /\ Parse(q).op = "insert" => Inserts(q)
      /\ Parse(q).op = "create_table" => Creates(q)
  BY ParseCases
<1>2. /\ Inserts(q) => \E h \in Heads(q, KnownHeads) : h[1] = "INSERT"
      /\ Creates(q) => \E h \in Heads(q, KnownHeads) : h[1] = "CREATE"
  BY FirstWords DEF Inserts, Creates
<1>3. \A h \in Heads(q, KnownHeads) :
        /\ h[1] = "INSERT" => Parse(q).table = Blind(q)[Len(h) + 1]
        /\ h[1] = "CREATE" => Parse(q).table = Blind(q)[Len(h) + 1]
  <2> SUFFICES ASSUME NEW h \in Heads(q, KnownHeads)
               PROVE  /\ h[1] = "INSERT" => Parse(q).table = Blind(q)[Len(h) + 1]
                      /\ h[1] = "CREATE" => Parse(q).table = Blind(q)[Len(h) + 1]
    OBVIOUS
  <2> DEFINE n == Blind(q)[Len(h) + 1]
  <2>1. /\ h[1] = "INSERT" => Parse(q) = [op |-> "insert", table |-> n]
        /\ h[1] = "CREATE" => Parse(q) = [op |-> "create_table", table |-> n]
    BY ParseHead
  <2> HIDE DEF n
  <2>2. /\ h[1] = "INSERT" => Parse(q).table = n
        /\ h[1] = "CREATE" => Parse(q).table = n
    BY <2>1
  <2> QED BY <2>2 DEF n
<1> QED BY <1>1, <1>2, <1>3

(* Parse takes the query for a SELECT, or finds neither operation nor table. *)
Unlogged(q) ==
  Parse(q).op = "select" \/ (Parse(q).op = "unknown" /\ Parse(q).table = "")

(* A query that begins with another word is not logged.                    *)
LEMMA ParseOther ==
  ASSUME NEW X, Marked(X), NEW q \in Seq(X),
         Blind(q) = << >> \/ Blind(q)[1] \notin {"INSERT", "CREATE", "DROP", "VACUUM"}
  PROVE  ~Logged(q) /\ (Blind(q) # << >> /\ Blind(q)[1] = "SELECT" => Unlogged(q))
<1>1. ~Inserts(q) /\ ~Creates(q) /\ ~Vacuums(q) /\ ~Drops(q)
  BY PatternsApart
<1>2. Unlogged(q) \/ (Alters(q) /\ Parse(q).op = "alter_table")
  <2>1. CASE Selects(q)
    BY <2>1, ParseCases DEF Unlogged
  <2>2. CASE Alters(q)
    BY <2>2, ParseCases
  <2>3. CASE ~Selects(q) /\ ~Alters(q)
    BY <1>1, <2>3, ParseNothing DEF Unlogged
  <2> QED BY <2>1, <2>2, <2>3
<1>3. Parse(q).op \in {"select", "alter_table", "unknown"}
  BY <1>2 DEF Unlogged
<1>4. Alters(q) => Blind(q)[1] # "SELECT"
  BY PatternsApart
<1> QED BY <1>2, <1>3, <1>4 DEF Logged

-----------------------------------------------------------------------------
(***************************************************************************)
(* What the queries of clients are read as.                                *)
(***************************************************************************)
(* The operation of a statement that the log knows, by its verb. *)
OpOf(verb) ==
  CASE verb = "INSERT" -> "insert" [] verb = "CREATE" -> "create_table"
    [] verb = "DROP" -> "drop_table" [] OTHER -> "vacuum"

(* Parse takes the query q for the statement s, but for the name after a   *)
(* VACUUM, where it may find no table at all.                              *)
LoggedAs(q, s) ==
  /\ s.verb \in {"INSERT", "CREATE", "DROP", "VACUUM"}
  /\ Parse(q).op = OpOf(s.verb)
  /\ Parse(q).table = s.table \/ (s.verb = "VACUUM" /\ Parse(q).table \notin Tables)

(* A query with a head is logged as what it is.                            *)
LEMMA HeadLogged ==
  ASSUME NEW X, Marked(X), NEW q \in Seq(X), NEW h \in Heads(q, KnownHeads)
  PROVE  LET s == Sql(SqlStatements(q)[1])
         IN /\ LoggedAs(q, s)
            /\ HasSemicolon(Trim(q)) \/ Parse(q).table = s.table
            /\ s.verb = h[1] /\ Logged(q)
<1> DEFINE s == Sql(SqlStatements(q)[1])
           n == Blind(q)[Len(h) + 1]
<1>1. s.verb = h[1] /\ s.table = n
  BY HeadReads
<1>2. h[1] \in {"INSERT", "CREATE", "DROP", "VACUUM"}
  BY HeadWords DEF Heads, HeadFacts
<1> HIDE DEF s
<1>3. /\ h[1] = "INSERT" => Parse(q) = [op |-> "insert", table |-> n]
      /\ h[1] = "CREATE" => Parse(q) = [op |-> "create_table", table |-> n]
      /\ h[1] = "DROP" => Parse(q) = [op |-> "drop_table", table |-> n]
      /\ h[1] = "VACUUM" =>
           /\ Parse(q).op = "vacuum"
           /\ \/ Parse(q).table = n
              \/ Parse(q).table = "name;" /\ HasSemicolon(Trim(q))
  BY ParseHead
<1> HIDE DEF n
<1>4. /\ h[1] = "INSERT" => Parse(q).op = "insert" /\ Parse(q).table = n
      /\ h[1] = "CREATE" => Parse(q).op = "create_table" /\ Parse(q).table = n
      /\ h[1] = "DROP" => Parse(q).op = "drop_table" /\ Parse(q).table = n
  <2>1. \A o : Parse(q) = [op |-> o, table |-> n] => Parse(q).op = o /\ Parse(q).table = n
    OBVIOUS
  <2> QED BY Zenon, <1>3, <2>1
<1>5. "name;" \notin Tables
  BY ConstantsAssumption
<1>6. Parse(q).op = OpOf(h[1])
  BY <1>2, <1>3, <1>4 DEF OpOf
<1>7. Parse(q).table = n \/ (h[1] = "VACUUM" /\ Parse(q).table \notin Tables)
  BY <1>2, <1>3, <1>4, <1>5
<1>8. HasSemicolon(Trim(q)) \/ Parse(q).table = n
  BY <1>2, <1>3, <1>4
<1>9. Parse(q).op \in {"create_table", "insert", "vacuum", "drop_table"}
  BY <1>2, <1>3, <1>4
<1>10. LoggedAs(q, s)
  BY <1>1, <1>2, <1>6, <1>7 DEF LoggedAs
<1> QED BY <1>1, <1>8, <1>9, <1>10 DEF s, Logged

(* The queries that clients send: a comment, a SELECT, or a statement that *)
(* is logged as what it is.                                                *)
LEMMA QueryKinds ==
  ASSUME NEW X, Marked(X), NEW q \in Seq(X), Known(q), q # << >>, q[1] # "NL"
  PROVE  LET w == SqlStatements(q) IN
         \/ q[1] \in {"--", ";"} /\ ~Logged(q)
         \/ w # << >> /\ Sql(w[1]).verb = "SELECT" /\ ~Logged(q) /\ Unlogged(q)
         \/ /\ w # << >> /\ LoggedAs(q, Sql(w[1])) /\ Logged(q)
            /\ HasSemicolon(Trim(q)) \/ Parse(q).table = Sql(w[1]).table
<1> DEFINE w == SqlStatements(q)
           b == Blind(q)
<1>1. b \in Seq(X) /\ b # << >> /\ b[1] = q[1]
  BY WithoutFirst, WithoutLaws DEF Blind
<1>2. CASE q[1] \in {"--", ";"}
  <2>1. b[1] \notin {"INSERT", "CREATE", "DROP", "VACUUM"}
    BY <1>1, <1>2
  <2>2. ~Logged(q)
    BY <2>1, ParseOther
  <2> QED BY <1>2, <2>2
<1>3. CASE q[1] = "SELECT"
  <2>1. b[1] \notin {"INSERT", "CREATE", "DROP", "VACUUM"} /\ b[1] # "--" /\ b[1] # ";"
    BY <1>1, <1>3
  <2>2. ~Logged(q) /\ Unlogged(q)
    BY <1>1, <1>3, <2>1, ParseOther
  <2>3. Clear(b, 1, "--") /\ Clear(b, 1, ";")
    <3>1. 1 .. 1 = {1}
      OBVIOUS
    <3> HIDE DEF b
    <3> QED BY <2>1, <3>1 DEF Clear
  <2>4. 1 \in 1 .. Len(b)
    <3> HIDE DEF b
    <3> QED BY <1>1
  <2>5. w # << >> /\ Begins(w[1], b, 1)
    BY <2>3, <2>4, SqlBegins
  <2>6. w[1][1] = b[1]
    <3>1. 1 \in 1 .. 1
      OBVIOUS
    <3> HIDE DEF w, b
    <3> QED BY <2>5, <3>1 DEF Begins
  <2> DEFINE v == w[1]
  <2>7. Sql(v).verb = v[1]
    BY DEF Sql
  <2> HIDE DEF v
  <2>8. Sql(v).verb = "SELECT"
    BY <1>1, <1>3, <2>6, <2>7 DEF v
  <2> QED BY <2>2, <2>5, <2>8 DEF v
<1>4. CASE Heads(q, KnownHeads) # {}
  <2>1. PICK h \in Heads(q, KnownHeads) : TRUE
    BY <1>4
  <2>2. w # << >>
    BY <2>1, HeadReads
  <2> DEFINE s == Sql(w[1])
  <2>3. LoggedAs(q, s) /\ Logged(q) /\ (HasSemicolon(Trim(q)) \/ Parse(q).table = s.table)
    BY <2>1, HeadLogged
  <2> QED BY <2>2, <2>3
<1> QED BY <1>2, <1>3, <1>4 DEF Known

(* The trimmed text has no other words.                                    *)
LEMMA NoSemicolon ==
  ASSUME NEW X, Marked(X), NEW q \in Seq(Code(X))
  PROVE  /\ ~HasSemicolon(Trim(q))
         /\ q \in Seq(X)
         /\ q # << >> => q[1] # ";"
         /\ Len(SqlStatements(q)) \in {0, 1}
<1> DEFINE x == ";"
<1>1. Code(X) = X \ {x}
  BY DEF Code
<1>2. Trim(q) \in Seq(Code(X))
  BY TrimLaws
<1>3. ~HasSemicolon(Trim(q))
  <2> SUFFICES ASSUME NEW i \in 1 .. Len(Trim(q)) PROVE ~SemicolonAt(Trim(q), i)
    BY DEF HasSemicolon
  <2> DEFINE t == Trim(q)
  <2> HIDE DEF x, t
  <2>1. t[i] \in Code(X)
    BY <1>2 DEF t
  <2>2. t[i] # x
    BY <1>1, <2>1
  <2> QED BY <2>2 DEF SemicolonAt, t, x
<1>4. q \in Seq(X) /\ (q # << >> => q[1] # x)
  <2> HIDE DEF x
  <2>1. q \in Seq(X \ {x})
    BY <1>1
  <2> QED BY <2>1
<1>5. SqlStatements(q) = IF StripComments(q) = << >> THEN << >> ELSE <<StripComments(q)>>
  BY <1>1, SqlLaws
<1>6. Len(<< >>) = 0 /\ Len(<<StripComments(q)>>) = 1
  OBVIOUS
<1> HIDE DEF x
<1>7. Len(SqlStatements(q)) \in {0, 1}
  BY <1>5, <1>6
<1> QED BY <1>3, <1>4, <1>7 DEF x

(* A body that clients send is read as DuckDB reads it.                    *)
Reads(body) ==
  LET queries == SplitNonEmptyQueries(body) IN
  ~SemicolonInComment(body) =>
    /\ FlatSql(queries) = SqlStatements(body)
    /\ \A q \in ToSet(queries) :
         LET w == SqlStatements(q) IN
         IF w = << >> \/ Sql(w[1]).verb = "SELECT" THEN ~Logged(q)
         ELSE Logged(q) /\ Len(w) = 1 /\ Parse(q).table = Sql(w[1]).table

(* A query of a body that clients send: no statement, a SELECT, or a       *)
(* statement that is logged as what it is.                                 *)
LEMMA SplitQuery ==
  ASSUME NEW body \in Bodies, ~SemicolonInComment(body),
         NEW q \in ToSet(SplitNonEmptyQueries(body))
  PROVE  LET w == SqlStatements(q)
             s == Sql(w[1])
         IN /\ q \in Seq(Words)
            /\ \/ w = << >> /\ ~Logged(q)
               \/ /\ w # << >> /\ Len(w) = 1
                  /\ \/ s.verb = "SELECT" /\ ~Logged(q) /\ Unlogged(q)
                     \/ LoggedAs(q, s) /\ Logged(q) /\ Parse(q).table = s.table
<1> DEFINE X == Words
           queries == SplitNonEmptyQueries(body)
           w == SqlStatements(q)
           s == Sql(w[1])
<1>1. body \in Seq(X) /\ Marked(X)
  BY BodiesAssumption, MarkedWords DEF Words
<1> HIDE DEF X
<1>2. queries \in Seq(QueryOf(Code(X)))
  BY <1>1, SplitLaws
<1>3. q \in QueryOf(Code(X))
  <2> DEFINE Z == QueryOf(Code(X))
  <2> HIDE DEF Z, queries
  <2>1. queries \in Seq(Z) /\ q \in ToSet(queries)
    BY <1>2 DEF Z, queries
  <2> QED BY <2>1 DEF ToSet, Z
<1>4. Known(q)
  BY BodiesAssumption
<1>5. /\ q \in Seq(Code(X)) /\ q # << >> /\ q[1] # "NL"
      /\ q[1] = "--" => q \in Seq(Line(Code(X)))
  BY <1>3 DEF QueryOf
<1>6. /\ ~HasSemicolon(Trim(q)) /\ q \in Seq(X)
      /\ q[1] # ";" /\ Len(w) \in {0, 1}
  BY <1>1, <1>5, NoSemicolon
<1>7. \/ q[1] \in {"--", ";"} /\ ~Logged(q)
      \/ w # << >> /\ s.verb = "SELECT" /\ ~Logged(q) /\ Unlogged(q)
      \/ /\ w # << >> /\ LoggedAs(q, s) /\ Logged(q)
         /\ HasSemicolon(Trim(q)) \/ Parse(q).table = s.table
  BY <1>1, <1>4, <1>5, <1>6, QueryKinds
<1>8. q[1] = "--" => w = << >>
  <2>1. Line(Code(X)) = Code(X) \ {"NL"}
    BY DEF Line
  <2>2. q[1] = "--" => StripComments(q) = << >>
    BY <1>5, <2>1, LineStripped DEF LineComment
  <2>3. StripComments(<< >>) = << >> /\ SqlStatements(<< >>) = << >>
    BY <1>1, SqlLaws, StripLaws
  <2>4. q[1] = "--" => SqlStatements(q) = SqlStatements(<< >>)
    BY <2>2, <2>3, SameSql
  <2> QED BY <2>3, <2>4
<1>9. w # << >> => Len(w) = 1
  <2>1. w \in Seq(Seq(X))
    BY <1>1, <1>6, SqlLaws
  <2> HIDE DEF w
  <2>2. \A v \in Seq(Seq(X)) : v # << >> => Len(v) # 0
    OBVIOUS
  <2> QED BY <1>6, <2>1, <2>2
<1> HIDE DEF w, s
<1>10. \/ w = << >> /\ ~Logged(q)
       \/ /\ w # << >> /\ Len(w) = 1
          /\ \/ s.verb = "SELECT" /\ ~Logged(q) /\ Unlogged(q)
             \/ LoggedAs(q, s) /\ Logged(q) /\ Parse(q).table = s.table
  BY <1>6, <1>7, <1>8, <1>9
<1> QED BY <1>6, <1>10 DEF w, s, X

(* ReadsAsDuckDB, for a body that clients send.                            *)
LEMMA BodyRead ==
  ASSUME NEW body \in Bodies
  PROVE  body \in Seq(Words) /\ Reads(body)
<1> DEFINE queries == SplitNonEmptyQueries(body)
<1>1. body \in Seq(Words) /\ Marked(Words)
  BY BodiesAssumption, MarkedWords DEF Words
<1>2. ~SemicolonInComment(body) => FlatSql(queries) = SqlStatements(body)
  BY <1>1, SplitKeepsStatements
<1>3. ASSUME ~SemicolonInComment(body), NEW q \in ToSet(queries)
      PROVE  LET w == SqlStatements(q) IN
             IF w = << >> \/ Sql(w[1]).verb = "SELECT" THEN ~Logged(q)
             ELSE Logged(q) /\ Len(w) = 1 /\ Parse(q).table = Sql(w[1]).table
  <2> DEFINE w == SqlStatements(q)
             s == Sql(w[1])
  <2>1. \/ w = << >> /\ ~Logged(q)
        \/ /\ w # << >> /\ Len(w) = 1
           /\ \/ s.verb = "SELECT" /\ ~Logged(q)
              \/ LoggedAs(q, s) /\ Logged(q) /\ Parse(q).table = s.table
    BY Zenon, <1>3, SplitQuery
  <2>2. LoggedAs(q, s) => s.verb # "SELECT"
    BY DEF LoggedAs
  <2> HIDE DEF w, s
  <2>3. IF w = << >> \/ s.verb = "SELECT" THEN ~Logged(q)
         ELSE Logged(q) /\ Len(w) = 1 /\ Parse(q).table = s.table
    BY <2>1, <2>2
  <2> QED BY <2>3 DEF w, s
<1>4. Reads(body)
  BY <1>2, <1>3 DEF Reads
<1> QED BY <1>1, <1>4

-----------------------------------------------------------------------------
(***************************************************************************)
(* The request under way: BodiesReadAsDuckDB.                              *)
(***************************************************************************)
Requests ==
  [pc : {"idle", "check", "run"}, method : Methods \cup {""}, bearer : BOOLEAN,
   path : Paths \cup {""}, body : Seq(Words)]

(* The request under way carries a body that a client sent.                *)
Serving ==
  /\ req \in Requests
  /\ req.pc = "run" => req.body \in Bodies

(* Serving is inductive by itself.                                         *)
LEMMA ServingStep ==
  ASSUME Serving, [Next]_vars
  PROVE  Serving'
<1>1. req \in Requests
  BY DEF Serving
<1>2. ASSUME NEW code, Answer(code)
      PROVE  Serving'
  BY <1>1, <1>2 DEF Answer, Serving, Requests
<1>3. ASSUME NEW m \in Methods, NEW b \in BOOLEAN, NEW p \in Paths, Arrive(m, b, p)
      PROVE  Serving'
  <2>1. req' = [pc |-> "check", method |-> m, bearer |-> b, path |-> p, body |-> << >>]
    BY <1>3 DEF Arrive
  <2>2. << >> \in Seq(Words)
    OBVIOUS
  <2> QED BY <2>1, <2>2 DEF Serving, Requests
<1>4. CASE Reject
  BY <1>2, <1>4 DEF Reject
<1>5. ASSUME NEW body \in Bodies, PostEndpoint(body)
      PROVE  Serving'
  <2>1. CASE req' = [req EXCEPT !.pc = "run", !.body = body]
    <3>1. body \in Seq(Words)
      BY BodyRead
    <3> QED BY <1>1, <2>1, <3>1 DEF Serving, Requests
  <2> QED BY <1>2, <1>5, <2>1 DEF PostEndpoint
<1>6. CASE RunStatement
  BY <1>6 DEF RunStatement, Serving
<1>7. CASE StatementFails
  BY <1>2, <1>7 DEF StatementFails
<1>8. CASE StorageFails
  BY <1>2, <1>8 DEF StorageFails
<1>9. CASE Respond
  BY <1>2, <1>9 DEF Respond
<1>10. CASE Crash
  BY <1>2, <1>10 DEF Crash
<1>11. CASE Rest
  BY <1>11 DEF Rest, vars, Serving
<1>12. CASE UNCHANGED vars
  BY <1>12 DEF vars, Serving
<1> QED BY <1>3, <1>4, <1>5, <1>6, <1>7, <1>8, <1>9, <1>10, <1>11, <1>12 DEF Next, Handle

(* No request yet.                                                         *)
LEMMA ServingInit ==
  ASSUME Init
  PROVE  Serving
<1>1. req = [pc |-> "idle", method |-> "", bearer |-> FALSE, path |-> "", body |-> << >>]
  BY DEF Init, NoRequest
<1>2. << >> \in Seq(Words)
  OBVIOUS
<1> QED BY <1>1, <1>2 DEF Serving, Requests

(* The queries that the server runs are the statements that DuckDB reads,  *)
(* and each is logged as what it is.                                       *)
THEOREM BodiesReadAsDuckDB == Spec => []ReadsAsDuckDB
<1>1. Serving => ReadsAsDuckDB
  BY BodyRead DEF Serving, Reads, ReadsAsDuckDB, FlatSql, SqlOf
<1> QED BY <1>1, ServingInit, ServingStep, PTL DEF Spec

-----------------------------------------------------------------------------
(***************************************************************************)
(* DuckDB and the bucket, by the statement.                                *)
(***************************************************************************)
(* When a statement runs, by its verb. *)
LEMMA RunsCases ==
  ASSUME NEW tx, NEW s
  PROVE  /\ s.verb = "CREATE" => (Runs(tx, s) <=> s.table \in Tables /\ tx[s.table] = Absent)
         /\ s.verb \in {"INSERT", "DROP"} =>
              (Runs(tx, s) <=> /\ s.table \in Tables /\ tx[s.table] # Absent
                               /\ ~tx[s.table].view)
         /\ s.verb = "VACUUM" =>
              (Runs(tx, s) <=> /\ s.table \in Tables /\ tx[s.table] # Absent
                               /\ ~tx[s.table].view /\ tx[s.table].state # "stuck")
         /\ s.verb = "SELECT" =>
              (Runs(tx, s) <=> \/ s.table = ""
                               \/ /\ s.table \in Tables /\ tx[s.table] # Absent
                                  /\ tx[s.table].state \in {"whole", "fresh"})
<1>1. s.verb = "CREATE" => (Runs(tx, s) <=> s.table \in Tables /\ tx[s.table] = Absent)
  BY Zenon DEF Runs
<1>2. s.verb \in {"INSERT", "DROP"} =>
              (Runs(tx, s) <=> /\ s.table \in Tables /\ tx[s.table] # Absent
                               /\ ~tx[s.table].view)
  BY Zenon DEF Runs
<1>3. s.verb = "VACUUM" =>
              (Runs(tx, s) <=> /\ s.table \in Tables /\ tx[s.table] # Absent
                               /\ ~tx[s.table].view /\ tx[s.table].state # "stuck")
  BY Zenon DEF Runs
<1>4. s.verb = "SELECT" =>
              (Runs(tx, s) <=> \/ s.table = ""
                               \/ /\ s.table \in Tables /\ tx[s.table] # Absent
                                  /\ tx[s.table].state \in {"whole", "fresh"})
  BY Zenon DEF Runs
<1> QED BY <1>1, <1>2, <1>3, <1>4

(* What a statement does, by its verb. *)
LEMMA EffectCases ==
  ASSUME NEW tx, NEW s
  PROVE  /\ ~Runs(tx, s) => Effect(tx, s) = tx
         /\ Runs(tx, s) /\ s.verb = "CREATE" =>
              Effect(tx, s) = [tx EXCEPT ![s.table] = Empty]
         /\ Runs(tx, s) /\ s.verb = "INSERT" =>
              Effect(tx, s) = [tx EXCEPT ![s.table] =
                                 Written(tx[s.table], Append(tx[s.table].rows, s.row))]
         /\ Runs(tx, s) /\ s.verb = "VACUUM" =>
              Effect(tx, s) = [tx EXCEPT ![s.table] = Written(tx[s.table], tx[s.table].rows)]
         /\ Runs(tx, s) /\ s.verb = "DROP" =>
              Effect(tx, s) = [tx EXCEPT ![s.table] = Absent]
         /\ s.verb \notin {"CREATE", "INSERT", "DROP", "VACUUM"} => Effect(tx, s) = tx
<1>1. ~Runs(tx, s) => Effect(tx, s) = tx
  BY DEF Effect
<1>2. Runs(tx, s) /\ s.verb = "CREATE" =>
              Effect(tx, s) = [tx EXCEPT ![s.table] = Empty]
  BY Zenon DEF Effect
<1>3. Runs(tx, s) /\ s.verb = "INSERT" =>
              Effect(tx, s) = [tx EXCEPT ![s.table] =
                                 Written(tx[s.table], Append(tx[s.table].rows, s.row))]
  BY Zenon DEF Effect
<1>4. Runs(tx, s) /\ s.verb = "VACUUM" =>
              Effect(tx, s) = [tx EXCEPT ![s.table] = Written(tx[s.table], tx[s.table].rows)]
  BY Zenon DEF Effect
<1>5. Runs(tx, s) /\ s.verb = "DROP" =>
              Effect(tx, s) = [tx EXCEPT ![s.table] = Absent]
  BY Zenon DEF Effect
<1>6. s.verb \notin {"CREATE", "INSERT", "DROP", "VACUUM"} => Effect(tx, s) = tx
  BY Zenon DEF Effect
<1> QED BY <1>1, <1>2, <1>3, <1>4, <1>5, <1>6

(* The words of a statement are words of the text. *)
LEMMA SqlWords ==
  ASSUME NEW w \in Seq(Words)
  PROVE  Sql(w).row \in Words
<1>1. \A x : After(w, x) \in Words
  <2> SUFFICES ASSUME NEW x PROVE After(w, x) \in Words
    OBVIOUS
  <2> DEFINE at == {j \in 1 .. Len(w) : w[j] = x}
             i == FirstFrom(w, 1, LAMBDA y : y = x)
  <2>1. at # {} => Min(at) \in at
    <3>1. at \in SUBSET Nat
      OBVIOUS
    <3> HIDE DEF at
    <3> QED BY <3>1, MinOf
  <2>2. i \in 1 .. Len(w) + 1
    <3>1. i = IF at = {} THEN Len(w) + 1 ELSE Min(at)
      BY DEF FirstFrom
    <3> HIDE DEF i
    <3>2. \A j \in at : j \in 1 .. Len(w)
      OBVIOUS
    <3> HIDE DEF at
    <3> QED BY <2>1, <3>1, <3>2
  <2>3. After(w, x) = IF i < Len(w) THEN w[i + 1] ELSE ""
    BY DEF After
  <2>4. "" \in Words
    BY LiteralWords
  <2> HIDE DEF i
  <2>5. i < Len(w) => w[i + 1] \in Words
    BY <2>2
  <2> QED BY <2>3, <2>4, <2>5
<1>2. \E x : Sql(w).row = After(w, x) \/ Sql(w).row = ""
  BY DEF Sql
<1> QED BY <1>1, <1>2, LiteralWords

-----------------------------------------------------------------------------
(***************************************************************************)
(* The tables of a transaction and of the bucket: TypeCorrect.             *)
(***************************************************************************)
Seen == [rows : Seq(Words), view : BOOLEAN, state : States]
Kept == [create : Seq(Words), rows : Seq(Words), state : States]
Tx == [Tables -> {Absent} \cup Seen]

(* A record with other rows, or in another state. *)
LEMMA SeenRows ==
  ASSUME NEW A, NEW B, NEW C, NEW r \in [rows : A, view : B, state : C], NEW e
  PROVE  [r EXCEPT !.rows = e] = [rows |-> e, view |-> r.view, state |-> r.state]
OBVIOUS

LEMMA SeenState ==
  ASSUME NEW A, NEW B, NEW C, NEW r \in [rows : A, view : B, state : C], NEW st
  PROVE  [r EXCEPT !.state = st] = [rows |-> r.rows, view |-> r.view, state |-> st]
OBVIOUS

LEMMA KeptRows ==
  ASSUME NEW A, NEW B, NEW C, NEW r \in [create : B, rows : A, state : C], NEW e
  PROVE  [r EXCEPT !.rows = e] = [create |-> r.create, rows |-> e, state |-> r.state]
OBVIOUS

LEMMA KeptState ==
  ASSUME NEW A, NEW B, NEW C, NEW r \in [create : B, rows : A, state : C], NEW st
  PROVE  [r EXCEPT !.state = st] = [create |-> r.create, rows |-> r.rows, state |-> st]
OBVIOUS

LEMMA OtherRows ==
  ASSUME NEW e \in Seq(Words), NEW st \in States
  PROVE  /\ \A r \in Seen :
              /\ Written(r, e) = [rows |-> e, view |-> r.view, state |-> Exported(r.state)]
              /\ In(r, st) = [rows |-> r.rows, view |-> r.view, state |-> st]
         /\ \A r \in Kept :
              /\ In(r, st) \in Kept
              /\ Written(r, e) = [create |-> r.create, rows |-> e, state |-> Exported(r.state)]
              /\ In(r, st) = [create |-> r.create, rows |-> r.rows, state |-> st]
<1> DEFINE A == Seq(Words)
<1>1. ASSUME NEW r \in Seen, NEW x
      PROVE  In(r, x) = [rows |-> r.rows, view |-> r.view, state |-> x]
  <2>1. r \in [rows : A, view : BOOLEAN, state : States]
    BY DEF Seen
  <2> HIDE DEF A
  <2> QED BY <2>1, SeenState DEF In
<1>2. ASSUME NEW r \in Seen
      PROVE  Written(r, e) = [rows |-> e, view |-> r.view, state |-> Exported(r.state)]
  <2> DEFINE y == [r EXCEPT !.rows = e]
             x == Exported(r.state)
  <2>1. r \in [rows : A, view : BOOLEAN, state : States]
    BY DEF Seen
  <2>2. Written(r, e) = In(y, x)
    BY DEF Written
  <2> HIDE DEF x, A
  <2>3. y = [rows |-> e, view |-> r.view, state |-> r.state]
    BY <2>1, SeenRows
  <2> HIDE DEF y
  <2>4. y \in Seen /\ y.rows = e /\ y.view = r.view
    BY <2>3 DEF Seen
  <2>5. In(y, x) = [rows |-> e, view |-> r.view, state |-> x]
    BY <1>1, <2>4
  <2> QED BY <2>2, <2>5 DEF x
<1>3. ASSUME NEW r \in Kept, NEW x
      PROVE  In(r, x) = [create |-> r.create, rows |-> r.rows, state |-> x]
  <2>1. r \in [create : A, rows : A, state : States]
    BY DEF Kept
  <2> HIDE DEF A
  <2> QED BY <2>1, KeptState DEF In
<1>4. ASSUME NEW r \in Kept
      PROVE  Written(r, e) = [create |-> r.create, rows |-> e, state |-> Exported(r.state)]
  <2> DEFINE y == [r EXCEPT !.rows = e]
             x == Exported(r.state)
  <2>1. r \in [create : A, rows : A, state : States]
    BY DEF Kept
  <2>2. Written(r, e) = In(y, x)
    BY DEF Written
  <2> HIDE DEF x, A
  <2>3. y = [create |-> r.create, rows |-> e, state |-> r.state]
    BY <2>1, KeptRows
  <2> HIDE DEF y
  <2>4. y \in Kept /\ y.rows = e /\ y.create = r.create
    BY <2>3 DEF Kept
  <2>5. In(y, x) = [create |-> r.create, rows |-> e, state |-> x]
    BY <1>3, <2>4
  <2> QED BY <2>2, <2>5 DEF x
<1>5. ASSUME NEW r \in Kept PROVE In(r, st) \in Kept
  <2>1. In(r, st) = [create |-> r.create, rows |-> r.rows, state |-> st]
    BY <1>3
  <2> QED BY <2>1 DEF Kept
<1> QED BY <1>1, <1>2, <1>3, <1>4, <1>5

(* An INSERT that runs adds its row. *)
LEMMA InsertEffect ==
  ASSUME NEW tx \in Tx, NEW s, Runs(tx, s), s.verb = "INSERT", s.row \in Words
  PROVE  /\ s.table \in Tables /\ tx[s.table] \in Seen
         /\ Append(tx[s.table].rows, s.row) \in Seq(Words)
         /\ Effect(tx, s) = [tx EXCEPT ![s.table] =
                               [rows |-> Append(tx[s.table].rows, s.row),
                                view |-> tx[s.table].view,
                                state |-> Exported(tx[s.table].state)]]
<1> DEFINE t == s.table
           e == Append(tx[t].rows, s.row)
<1>1. t \in Tables /\ tx[t] # Absent
  BY RunsCases
<1>2. tx[t] \in Seen
  <2> HIDE DEF t
  <2> QED BY <1>1 DEF Tx
<1>3. e \in Seq(Words)
  <2> HIDE DEF t
  <2> QED BY <1>2 DEF Seen
<1>4. Effect(tx, s) = [tx EXCEPT ![t] = Written(tx[t], e)]
  BY Zenon, EffectCases
<1> HIDE DEF t, e
<1>5. "whole" \in States
  BY DEF States
<1>6. Written(tx[t], e) = [rows |-> e, view |-> tx[t].view, state |-> Exported(tx[t].state)]
  BY <1>2, <1>3, <1>5, OtherRows
<1> QED BY <1>1, <1>2, <1>3, <1>4, <1>6 DEF t, e

(* A VACUUM that runs saves what it finds. *)
LEMMA VacuumEffect ==
  ASSUME NEW tx \in Tx, NEW s, Runs(tx, s), s.verb = "VACUUM"
  PROVE  /\ s.table \in Tables /\ tx[s.table] \in Seen
         /\ Effect(tx, s) = [tx EXCEPT ![s.table] =
                               [rows |-> tx[s.table].rows, view |-> tx[s.table].view,
                                state |-> Exported(tx[s.table].state)]]
<1> DEFINE t == s.table
           e == tx[t].rows
<1>1. t \in Tables /\ tx[t] # Absent
  BY RunsCases
<1>2. tx[t] \in Seen
  <2> HIDE DEF t
  <2> QED BY <1>1 DEF Tx
<1>3. e \in Seq(Words)
  <2> HIDE DEF t
  <2> QED BY <1>2 DEF Seen
<1>4. Effect(tx, s) = [tx EXCEPT ![t] = Written(tx[t], e)]
  BY Zenon, EffectCases
<1> HIDE DEF t, e
<1>5. "whole" \in States
  BY DEF States
<1>6. Written(tx[t], e) = [rows |-> e, view |-> tx[t].view, state |-> Exported(tx[t].state)]
  BY <1>2, <1>3, <1>5, OtherRows
<1> QED BY <1>1, <1>2, <1>4, <1>6 DEF t, e

(* A statement leaves tables behind. *)
LEMMA EffectType ==
  ASSUME NEW tx \in Tx, NEW w \in Seq(Words)
  PROVE  Effect(tx, Sql(w)) \in Tx
<1> DEFINE s == Sql(w)
<1>1. s.row \in Words
  BY SqlWords
<1> HIDE DEF s
<1>2. CASE ~Runs(tx, s)
  BY <1>2, EffectCases DEF s
<1>3. CASE Runs(tx, s) /\ s.verb = "CREATE"
  <2>1. Empty \in Seen
    BY DEF Empty, Seen, States
  <2>2. Effect(tx, s) = [tx EXCEPT ![s.table] = Empty]
    BY <1>3, EffectCases
  <2> QED BY <2>1, <2>2 DEF Tx, s
<1>0. \A x : Exported(x) \in States
  BY DEF Exported, States
<1>4. CASE Runs(tx, s) /\ s.verb = "INSERT"
  <2> DEFINE t == s.table
             r == [rows |-> Append(tx[t].rows, s.row), view |-> tx[t].view,
                   state |-> Exported(tx[t].state)]
  <2>1. /\ t \in Tables /\ tx[t] \in Seen /\ Append(tx[t].rows, s.row) \in Seq(Words)
        /\ Effect(tx, s) = [tx EXCEPT ![t] = r]
    BY <1>1, <1>4, InsertEffect
  <2> HIDE DEF t
  <2>2. r \in Seen
    BY <1>0, <2>1 DEF Seen
  <2> HIDE DEF r
  <2> QED BY <2>1, <2>2 DEF Tx, s
<1>5. CASE Runs(tx, s) /\ s.verb = "VACUUM"
  <2> DEFINE t == s.table
             r == [rows |-> tx[t].rows, view |-> tx[t].view, state |-> Exported(tx[t].state)]
  <2>1. t \in Tables /\ tx[t] \in Seen /\ Effect(tx, s) = [tx EXCEPT ![t] = r]
    BY <1>5, VacuumEffect
  <2> HIDE DEF t
  <2>2. r \in Seen
    BY <1>0, <2>1 DEF Seen
  <2> HIDE DEF r
  <2> QED BY <2>1, <2>2 DEF Tx, s
<1>6. CASE Runs(tx, s) /\ s.verb = "DROP"
  <2>1. Effect(tx, s) = [tx EXCEPT ![s.table] = Absent]
    BY <1>6, EffectCases
  <2> QED BY <2>1 DEF Tx, s
<1>7. CASE s.verb \notin {"CREATE", "INSERT", "DROP", "VACUUM"}
  BY <1>7, EffectCases DEF s
<1> QED BY <1>2, <1>3, <1>4, <1>5, <1>6, <1>7

(* What one more statement does. *)
Then(v, y) == Effect(v, Sql(y))

(* Effects, by the last statement.                                         *)
LEMMA EffectsLaws ==
  ASSUME NEW tx \in Tx
  PROVE  /\ Effects(tx, << >>) = tx
         /\ \A s \in Seq(Seq(Words)) : Effects(tx, s) \in Tx
         /\ \A s \in Seq(Seq(Words)), y \in Seq(Words) :
              Effects(tx, Append(s, y)) = Then(Effects(tx, s), y)
<1> DEFINE V == Tx
           G == [p \in V \X Seq(Words) |-> Then(p[1], p[2])]
<1>1. ASSUME NEW v \in V, NEW y \in Seq(Words)
      PROVE  Then(v, y) \in V /\ G[<<v, y>>] = Then(v, y)
  BY EffectType DEF Then
<1>2. StepOn(G, V, Seq(Words)) /\ tx \in V
  <2>1. \A p \in V \X Seq(Words) : G[p] \in V
    BY <1>1
  <2>2. tx \in V
    OBVIOUS
  <2> HIDE DEF V
  <2> QED BY <2>1, <2>2 DEF StepOn
<1>3. ASSUME NEW s \in Seq(Seq(Words)) PROVE Effects(tx, s) = FoldOf(tx, G, s, V)
  <2> DEFINE n == Len(s)
             Is(it) == it = [t \in SUBSET (1 .. n) |->
                               IF t = {} THEN tx
                               ELSE Then(it[t \ {Max(t)}], s[Max(t)])]
             it == CHOOSE it : Is(it)
             f == CHOOSE f : IsFold(f, tx, G, s, V)
  <2>1. n \in Nat /\ DOMAIN s = 1 .. n
    OBVIOUS
  <2>2. Effects(tx, s) = it[1 .. n]
    BY <2>1 DEF Effects, FoldLeft, MapThenFoldSet, Then
  <2> HIDE DEF G, V
  <2>3. IsFold(f, tx, G, s, V)
    BY <1>2, FoldExists
  <2> HIDE DEF f
  <2>4. ASSUME NEW t \in SUBSET (1 .. n), t # {}
        PROVE  f[t] = Then(f[t \ {Max(t)}], s[Max(t)])
    <3>1. /\ f[t] = G[<<f[t \ {Max(t)}], s[Max(t)]>>]
          /\ f[t \ {Max(t)}] \in V /\ s[Max(t)] \in Seq(Words)
      BY <2>3, <2>4, FoldStep
    <3> QED BY <1>1, <3>1
  <2>5. Is(f)
    BY <2>1, <2>3, <2>4 DEF IsFold
  <2>6. Is(it)
    <3> HIDE DEF Is
    <3> QED BY <2>5
  <2> HIDE DEF it
  <2>7. AgreeByMax(it, f, n)
    BY <2>1, <2>4, <2>5, <2>6 DEF AgreeByMax
  <2>8. it[1 .. n] = f[1 .. n]
    <3> HIDE DEF n
    <3> QED BY <2>1, <2>7, FoldAgree DEF Agree
  <2> QED BY <2>2, <2>8 DEF FoldOf, f
<1>4. /\ << >> \in Seq(Seq(Words))
      /\ \A s \in Seq(Seq(Words)), y \in Seq(Words) : Append(s, y) \in Seq(Seq(Words))
  OBVIOUS
<1> HIDE DEF V, G
<1>5. FoldOf(tx, G, << >>, V) = tx
  BY <1>2, FoldEmpty
<1>6. ASSUME NEW s \in Seq(Seq(Words)) PROVE FoldOf(tx, G, s, V) \in V
  BY <1>2, FoldLaws
<1>7. ASSUME NEW s \in Seq(Seq(Words)), NEW y \in Seq(Words)
      PROVE  FoldOf(tx, G, Append(s, y), V) = G[<<FoldOf(tx, G, s, V), y>>]
  BY <1>2, FoldLaws
<1>8. Effects(tx, << >>) = tx
  BY <1>3, <1>4, <1>5
<1>9. \A s \in Seq(Seq(Words)) : Effects(tx, s) \in V
  BY <1>3, <1>6
<1>10. ASSUME NEW s \in Seq(Seq(Words)), NEW y \in Seq(Words)
       PROVE  Effects(tx, Append(s, y)) = Then(Effects(tx, s), y)
  <2>1. Append(s, y) \in Seq(Seq(Words))
    BY <1>4
  <2>2. Effects(tx, Append(s, y)) = FoldOf(tx, G, Append(s, y), V)
    BY <1>3, <2>1
  <2>3. Effects(tx, s) = FoldOf(tx, G, s, V)
    BY <1>3
  <2>4. Effects(tx, s) \in V
    BY <1>9
  <2> QED BY <1>1, <1>7, <2>2, <2>3, <2>4
<1> QED BY <1>8, <1>9, <1>10 DEF V

(* Tables as the bucket holds them. *)
Good(tabs) ==
  /\ tabs \in [Tables -> {Absent} \cup Kept]
  /\ \A t \in Tables :
       tabs[t] # Absent => Parse(tabs[t].create) = [op |-> "create_table", table |-> t]

(* A text without statements, and one with a first one. *)
LEMMA FirstRuns ==
  ASSUME NEW tx \in Tx, NEW w \in Seq(Seq(Words)), AllRun(tx, w), w # << >>
  PROVE  Runs(tx, Sql(w[1]))
<1>1. 1 \in 1 .. Len(w)
  OBVIOUS
<1>2. Runs(Effects(tx, SubSeq(w, 1, 1 - 1)), Sql(w[1]))
  BY <1>1 DEF AllRun
<1>3. SubSeq(w, 1, 1 - 1) = << >>
  OBVIOUS
<1>4. Effects(tx, << >>) = tx
  BY EffectsLaws
<1> QED BY <1>2, <1>3, <1>4

(* The transaction of a statement holds tables. *)
LEMMA PreparedType ==
  ASSUME Good(tables), NEW p
  PROVE  /\ NoTables \in Tx /\ Prepared(p) \in Tx
         /\ ~Exists(p.table) => Prepared(p) = NoTables
         /\ Exists(p.table) => p.table \in Tables /\ tables[p.table] \in Kept
<1>1. NoTables \in Tx
  BY DEF NoTables, Tx
<1>2. Exists(p.table) => p.table \in Tables /\ tables[p.table] \in Kept
  <2> DEFINE t == p.table
  <2> HIDE DEF t
  <2>1. Exists(t) => t \in Tables /\ tables[t] \in Kept
    BY DEF Exists, Good
  <2> QED BY <2>1 DEF t
<1>3. ASSUME Exists(p.table) PROVE Prepared(p) \in Tx
  <2> DEFINE t == p.table
             r == [rows |-> tables[t].rows, view |-> TRUE, state |-> tables[t].state]
  <2>1. t \in Tables /\ tables[t] \in Kept
    BY <1>2, <1>3
  <2>2. \/ Prepared(p) = [NoTables EXCEPT ![t] = r]
        \/ Prepared(p) = Effects(NoTables, SqlStatements(tables[t].create))
    BY <1>3 DEF Prepared
  <2> HIDE DEF t
  <2>3. r \in Seen /\ tables[t].create \in Seq(Words)
    BY <2>1 DEF Kept, Seen
  <2>4. SqlStatements(tables[t].create) \in Seq(Seq(Words))
    BY <2>3, MarkedWords, SqlLaws
  <2>5. Effects(NoTables, SqlStatements(tables[t].create)) \in Tx
    BY <1>1, <2>4, EffectsLaws
  <2> HIDE DEF r
  <2>6. [NoTables EXCEPT ![t] = r] \in Tx
    BY <1>1, <2>3 DEF Tx
  <2> QED BY <2>2, <2>5, <2>6
<1>4. ~Exists(p.table) => Prepared(p) = NoTables
  BY DEF Prepared
<1> QED BY <1>1, <1>2, <1>3, <1>4

(* When a query succeeds, by its operation.                                *)
LEMMA SucceedsCases ==
  ASSUME NEW q, Succeeds(q)
  PROVE  LET p == Parse(q)
             tx == Prepared(p)
             w == SqlStatements(q)
         IN /\ p.op = "vacuum" => /\ Exists(p.table) /\ tx[p.table] # Absent
                                  /\ tx[p.table].state # "stuck"
            /\ p.op = "insert" =>
                 AllRun(tx, w) /\ p.table \in Tables /\ Effects(tx, w)[p.table] # Absent
            /\ p.op \notin {"drop_table", "vacuum", "insert"} => AllRun(tx, w)
<1> DEFINE p == Parse(q)
           tx == Prepared(p)
           w == SqlStatements(q)
<1>1. p.op = "vacuum" => /\ Exists(p.table) /\ tx[p.table] # Absent
                         /\ tx[p.table].state # "stuck"
  BY Zenon DEF Succeeds
<1>2. p.op = "insert" =>
        AllRun(tx, w) /\ p.table \in Tables /\ Effects(tx, w)[p.table] # Absent
  BY Zenon DEF Succeeds
<1>3. p.op \notin {"drop_table", "vacuum", "insert"} => AllRun(tx, w)
  BY Zenon DEF Succeeds
<1> QED BY <1>1, <1>2, <1>3

(* What a query writes, by its operation.                                  *)
LEMMA CommittedCases ==
  ASSUME NEW q
  PROVE  LET p == Parse(q)
             t == p.table
             tx == Prepared(p)
             w == SqlStatements(q)
         IN /\ t \notin Tables => Committed(q) = tables
            /\ ~Logged(q) => Committed(q) = tables
            /\ t \in Tables =>
                 /\ p.op = "create_table" =>
                      Committed(q) = IF Exists(t) THEN tables
                                     ELSE [tables EXCEPT ![t] =
                                             [create |-> q, rows |-> << >>, state |-> "whole"]]
                 /\ p.op = "insert" =>
                      Committed(q) = [tables EXCEPT ![t] =
                        Written(tables[t], tables[t].rows \o Effects(tx, w)[t].rows)]
                 /\ p.op = "vacuum" =>
                      Committed(q) = [tables EXCEPT ![t] = Written(tables[t], tx[t].rows)]
                 /\ p.op = "drop_table" => Committed(q) = [tables EXCEPT ![t] = Absent]
<1> DEFINE p == Parse(q)
           t == p.table
           tx == Prepared(p)
           w == SqlStatements(q)
<1>1. t \notin Tables => Committed(q) = tables
  BY DEF Committed
<1>2. ~Logged(q) => Committed(q) = tables
  BY Zenon DEF Committed, Logged
<1>3. t \in Tables /\ p.op = "create_table" =>
        Committed(q) = IF Exists(t) THEN tables
                       ELSE [tables EXCEPT ![t] =
                               [create |-> q, rows |-> << >>, state |-> "whole"]]
  BY Zenon DEF Committed
<1>4. t \in Tables /\ p.op = "insert" =>
        Committed(q) = [tables EXCEPT ![t] =
                        Written(tables[t], tables[t].rows \o Effects(tx, w)[t].rows)]
  BY Zenon DEF Committed
<1>5. t \in Tables /\ p.op = "vacuum" =>
        Committed(q) = [tables EXCEPT ![t] = Written(tables[t], tx[t].rows)]
  BY Zenon DEF Committed
<1>6. t \in Tables /\ p.op = "drop_table" => Committed(q) = [tables EXCEPT ![t] = Absent]
  BY Zenon DEF Committed
<1> HIDE DEF p, t, tx, w
<1> QED BY <1>1, <1>2, <1>3, <1>4, <1>5, <1>6 DEF p, t, tx, w

(* An INSERT that succeeds adds the rows of its transaction to a table.    *)
LEMMA InsertCommit ==
  ASSUME Good(tables), NEW q \in Seq(Words), Succeeds(q), Parse(q).op = "insert"
  PROVE  LET t == Parse(q).table
             ran == Effects(Prepared(Parse(q)), SqlStatements(q))
         IN /\ Exists(t) /\ t \in Tables /\ tables[t] \in Kept /\ ran[t] \in Seen
            /\ Committed(q) = [tables EXCEPT ![t] =
                                 [create |-> tables[t].create,
                                  rows |-> tables[t].rows \o ran[t].rows,
                                  state |-> Exported(tables[t].state)]]
<1> DEFINE p == Parse(q)
           t == p.table
           tx == Prepared(p)
           w == SqlStatements(q)
           ran == Effects(tx, w)
<1>1. AllRun(tx, w) /\ t \in Tables /\ ran[t] # Absent
  BY SucceedsCases
<1>2. w \in Seq(Seq(Words)) /\ tx \in Tx /\ NoTables \in Tx
  BY PreparedType, MarkedWords, SqlLaws
<1>3. ran \in Tx
  <2> HIDE DEF tx, w
  <2> QED BY <1>2, EffectsLaws
<1>4. ran[t] \in Seen
  <2> HIDE DEF ran, t
  <2> QED BY <1>1, <1>3 DEF Tx
<1>5. w # << >> /\ Sql(w[1]).verb = "INSERT" /\ Sql(w[1]).table = t
  <2>1. PICK h \in Heads(q, KnownHeads) : h[1] = "INSERT" /\ t = Blind(q)[Len(h) + 1]
    BY MarkedWords, ParsedHead
  <2> QED BY <2>1, MarkedWords, HeadReads
<1>6. Exists(t)
  <2>1. SUFFICES ASSUME ~Exists(t) PROVE FALSE
    OBVIOUS
  <2>2. tx = NoTables
    BY <2>1, PreparedType
  <2>3. Runs(NoTables, Sql(w[1]))
    <3> HIDE DEF tx, w
    <3> QED BY <1>1, <1>2, <1>5, <2>2, FirstRuns
  <2> DEFINE s == Sql(w[1])
  <2> HIDE DEF s, t
  <2>4. NoTables[t] # Absent
    BY <1>5, <2>3, RunsCases DEF s
  <2> QED BY <1>1, <2>4 DEF NoTables
<1>7. tables[t] \in Kept
  BY <1>6, PreparedType
<1> DEFINE e == tables[t].rows \o ran[t].rows
<1>8. Committed(q) = [tables EXCEPT ![t] = Written(tables[t], e)]
  BY Zenon, <1>1, CommittedCases
<1>9. Written(tables[t], e) = [create |-> tables[t].create, rows |-> e,
                               state |-> Exported(tables[t].state)]
  <2>1. e \in Seq(Words)
    <3> HIDE DEF t, ran
    <3> QED BY <1>4, <1>7 DEF Kept, Seen
  <2>2. "whole" \in States
    BY DEF States
  <2> HIDE DEF e, t
  <2> QED BY <1>7, <2>1, <2>2, OtherRows
<1> HIDE DEF e
<1>10. Committed(q) = [tables EXCEPT ![t] = [create |-> tables[t].create, rows |-> e,
                                             state |-> Exported(tables[t].state)]]
  BY <1>8, <1>9
<1> QED BY <1>1, <1>4, <1>6, <1>7, <1>10 DEF e

(* A VACUUM that succeeds writes the rows of its transaction.              *)
LEMMA VacuumCommit ==
  ASSUME Good(tables), NEW q \in Seq(Words), Succeeds(q), Parse(q).op = "vacuum"
  PROVE  LET t == Parse(q).table
             tx == Prepared(Parse(q))
         IN /\ Exists(t) /\ t \in Tables /\ tables[t] \in Kept /\ tx[t] \in Seen
            /\ tx[t].state # "stuck"
            /\ Committed(q) = [tables EXCEPT ![t] = [create |-> tables[t].create,
                                                     rows |-> tx[t].rows,
                                                     state |-> Exported(tables[t].state)]]
<1> DEFINE p == Parse(q)
           t == p.table
           tx == Prepared(p)
<1>1. Exists(t) /\ tx[t] # Absent /\ tx[t].state # "stuck"
  BY SucceedsCases
<1>2. tx \in Tx /\ t \in Tables /\ tables[t] \in Kept
  BY <1>1, PreparedType
<1>3. tx[t] \in Seen
  <2> HIDE DEF tx, t
  <2> QED BY <1>1, <1>2 DEF Tx
<1> DEFINE e == tx[t].rows
<1>4. Committed(q) = [tables EXCEPT ![t] = Written(tables[t], e)]
  BY Zenon, <1>2, CommittedCases
<1>5. Written(tables[t], e) = [create |-> tables[t].create, rows |-> e,
                               state |-> Exported(tables[t].state)]
  <2>1. e \in Seq(Words)
    <3> HIDE DEF t, tx
    <3> QED BY <1>3 DEF Seen
  <2>2. "whole" \in States
    BY DEF States
  <2> HIDE DEF e, t
  <2> QED BY <1>2, <2>1, <2>2, OtherRows
<1> HIDE DEF e
<1>6. Committed(q) = [tables EXCEPT ![t] = [create |-> tables[t].create, rows |-> e,
                                            state |-> Exported(tables[t].state)]]
  BY <1>4, <1>5
<1> QED BY <1>1, <1>2, <1>3, <1>6 DEF e

(* What a query writes keeps the bucket good: the text kept with a table   *)
(* creates that table.                                                     *)
LEMMA CommitGood ==
  ASSUME Good(tables), NEW q \in Seq(Words), Succeeds(q)
  PROVE  Good(Committed(q))
<1> DEFINE p == Parse(q)
           t == p.table
<1>1. ASSUME NEW u \in Tables, NEW r \in Kept,
             Parse(r.create) = [op |-> "create_table", table |-> u],
             Committed(q) = [tables EXCEPT ![u] = r]
      PROVE  Good(Committed(q))
  BY <1>1 DEF Good
<1>0. \A x : Exported(x) \in States
  BY DEF Exported, States
<1>2. CASE Committed(q) = tables
  BY <1>2
<1>3. CASE p.op = "insert"
  <2> DEFINE r == [create |-> tables[t].create,
                   rows |-> tables[t].rows \o Effects(Prepared(p), SqlStatements(q))[t].rows,
                   state |-> Exported(tables[t].state)]
             v == Effects(Prepared(p), SqlStatements(q))[t]
  <2>1. /\ Exists(t) /\ t \in Tables /\ tables[t] \in Kept /\ v \in Seen
        /\ Committed(q) = [tables EXCEPT ![t] = r]
    BY <1>3, InsertCommit
  <2> HIDE DEF t, v
  <2>2. r = [create |-> tables[t].create, rows |-> tables[t].rows \o v.rows,
             state |-> Exported(tables[t].state)]
    BY DEF v
  <2> HIDE DEF r
  <2>3. r \in Kept
    BY <1>0, <2>1, <2>2 DEF Kept, Seen
  <2>4. tables[t] # Absent
    BY <2>1 DEF Exists
  <2>5. Parse(r.create) = [op |-> "create_table", table |-> t]
    BY <2>1, <2>2, <2>4 DEF Good
  <2> QED BY <1>1, <2>1, <2>3, <2>5
<1>4. CASE p.op = "vacuum"
  <2> DEFINE v == Prepared(p)[t]
             r == [create |-> tables[t].create, rows |-> v.rows,
                   state |-> Exported(tables[t].state)]
  <2>1. /\ Exists(t) /\ t \in Tables /\ tables[t] \in Kept /\ v \in Seen
        /\ Committed(q) = [tables EXCEPT ![t] = r]
    BY <1>4, VacuumCommit
  <2> HIDE DEF t, v
  <2>2. r \in Kept /\ r.create = tables[t].create
    BY <1>0, <2>1 DEF Kept, Seen
  <2>4. tables[t] # Absent
    BY <2>1 DEF Exists
  <2> HIDE DEF r
  <2>5. Parse(r.create) = [op |-> "create_table", table |-> t]
    BY <2>1, <2>2, <2>4 DEF Good
  <2> QED BY <1>1, <2>1, <2>2, <2>5
<1>5. CASE p.op = "create_table" /\ t \in Tables
  <2> DEFINE r == [create |-> q, rows |-> << >>, state |-> "whole"]
  <2>1. Committed(q) = tables \/ Committed(q) = [tables EXCEPT ![t] = r]
    BY <1>5, CommittedCases
  <2>2. r \in Kept /\ r.create = q
    BY DEF Kept, States
  <2>3. Parse(q) = [op |-> "create_table", table |-> Parse(q).table]
    <3>1. \E x : Parse(q) = [op |-> "create_table", table |-> x]
      BY <1>5, MarkedWords, ParseCases
    <3> QED BY <3>1
  <2> HIDE DEF r
  <2> QED BY <1>1, <1>2, <1>5, <2>1, <2>2, <2>3
<1>6. CASE p.op = "drop_table" /\ t \in Tables
  <2>1. Committed(q) = [tables EXCEPT ![t] = Absent]
    BY <1>6, CommittedCases
  <2> HIDE DEF t
  <2> QED BY <2>1 DEF Good
<1>7. CASE t \notin Tables \/ ~Logged(q)
  BY <1>2, <1>7, CommittedCases
<1> QED BY <1>3, <1>4, <1>5, <1>6, <1>7 DEF Logged

(* Absent is neither a table of the bucket nor one of a transaction.       *)
LEMMA AbsentApart ==
  Absent \notin Kept /\ Absent \notin Seen
BY ConstantsAssumption DEF Kept, Seen, Words

(* A table in another state. *)
LEMMA StateGood ==
  ASSUME NEW tabs, Good(tabs), NEW t \in Tables, tabs[t] # Absent, NEW st \in States
  PROVE  /\ Good([tabs EXCEPT ![t] = In(tabs[t], st)])
         /\ In(tabs[t], st) \in Kept
<1> DEFINE r == In(tabs[t], st)
<1>1. tabs[t] \in Kept
  BY DEF Good
<1>2. r \in Kept /\ r.create = tabs[t].create
  <2>1. << >> \in Seq(Words)
    OBVIOUS
  <2> DEFINE k == tabs[t]
  <2> HIDE DEF k
  <2>2. In(k, st) \in Kept /\ In(k, st) = [create |-> k.create, rows |-> k.rows, state |-> st]
    BY <1>1, <2>1, OtherRows DEF k
  <2> QED BY <2>2 DEF k
<1> HIDE DEF r
<1>3. Parse(r.create) = [op |-> "create_table", table |-> t]
  BY <1>2 DEF Good
<1> QED BY <1>2, <1>3 DEF Good, r

(* What a query leaves that stops half-way, by its operation.              *)
LEMMA HalfDoneCases ==
  ASSUME NEW q
  PROVE  LET p == Parse(q)
             t == p.table
             new == Committed(q)
         IN /\ t \notin Tables => HalfDone(q) = tables
            /\ ~Logged(q) => HalfDone(q) = tables
            /\ t \in Tables =>
                 /\ p.op = "create_table" =>
                      HalfDone(q) = IF Exists(t) THEN tables
                                    ELSE [new EXCEPT ![t] = In(new[t], "fresh")]
                 /\ p.op \in {"insert", "vacuum"} =>
                      HalfDone(q) = IF Exists(t) /\ ~Saved(t)
                                    THEN [new EXCEPT ![t] = In(new[t], "stuck")]
                                    ELSE tables
                 /\ p.op = "drop_table" =>
                      HalfDone(q) = IF Saved(t) THEN [tables EXCEPT ![t] = In(tables[t], "torn")]
                                    ELSE new
<1> DEFINE p == Parse(q)
           t == p.table
           new == Committed(q)
<1>1. t \notin Tables => HalfDone(q) = tables
  BY Zenon DEF HalfDone, StoppedBefore, Exists, Saved
<1>2. ~Logged(q) => HalfDone(q) = tables
  BY Zenon DEF HalfDone, StoppedBefore, Logged
<1>3. t \in Tables /\ p.op = "create_table" =>
        HalfDone(q) = IF Exists(t) THEN tables ELSE [new EXCEPT ![t] = In(new[t], "fresh")]
  BY Zenon DEF HalfDone, StoppedBefore
<1>4. t \in Tables /\ p.op \in {"insert", "vacuum"} =>
        HalfDone(q) = IF Exists(t) /\ ~Saved(t)
                      THEN [new EXCEPT ![t] = In(new[t], "stuck")] ELSE tables
  BY Zenon DEF HalfDone, StoppedBefore
<1>5. t \in Tables /\ p.op = "drop_table" =>
        HalfDone(q) = IF Saved(t) THEN [tables EXCEPT ![t] = In(tables[t], "torn")] ELSE new
  BY Zenon DEF HalfDone, StoppedBefore
<1> HIDE DEF p, t, new
<1> QED BY <1>1, <1>2, <1>3, <1>4, <1>5 DEF p, t, new

(* What a query leaves half-way comes from a change of state, of its table *)
(* in what it found or would have written.                                 *)
LEMMA HalfDoneFrom ==
  ASSUME Good(tables), NEW q \in Seq(Words), Succeeds(q)
  PROVE  LET t == Parse(q).table IN
         \/ HalfDone(q) = tables
         \/ HalfDone(q) = Committed(q)
         \/ \E tabs \in {tables, Committed(q)}, st \in States :
              /\ t \in Tables /\ tabs[t] # Absent
              /\ HalfDone(q) = [tabs EXCEPT ![t] = In(tabs[t], st)]
<1> DEFINE p == Parse(q)
           t == p.table
           new == Committed(q)
<1>1. {"torn", "fresh", "stuck"} \subseteq States /\ "whole" \in States
  BY DEF States
<1>2. CASE t \notin Tables \/ ~Logged(q)
  BY <1>2, HalfDoneCases
<1>0. tables \in [Tables -> {Absent} \cup Kept]
  BY DEF Good
<1>3. CASE t \in Tables /\ p.op = "create_table"
  <2>1. CASE Exists(t)
    BY <1>3, <2>1, HalfDoneCases
  <2>2. CASE ~Exists(t)
    <3> DEFINE r == [create |-> q, rows |-> << >>, state |-> "whole"]
    <3>1. new = [tables EXCEPT ![t] = r]
      BY <1>3, <2>2, CommittedCases
    <3>2. r \in Kept
      BY <1>1 DEF Kept
    <3>3. HalfDone(q) = [new EXCEPT ![t] = In(new[t], "fresh")]
      BY <1>3, <2>2, HalfDoneCases
    <3> HIDE DEF new, t, r
    <3>4. new[t] # Absent
      BY <1>0, <1>3, <3>1, <3>2, AbsentApart
    <3> QED BY <1>1, <1>3, <3>3, <3>4 DEF new, t
  <2> QED BY <2>1, <2>2
<1>4. CASE t \in Tables /\ p.op \in {"insert", "vacuum"}
  <2>1. CASE ~(Exists(t) /\ ~Saved(t))
    BY <1>4, <2>1, HalfDoneCases
  <2>2. CASE Exists(t) /\ ~Saved(t)
    <3>1. HalfDone(q) = [new EXCEPT ![t] = In(new[t], "stuck")]
      BY <1>4, <2>2, HalfDoneCases
    <3>2. \A x : Exported(x) \in States
      BY DEF Exported, States
    <3>3. \E r \in Kept : new = [tables EXCEPT ![t] = r]
      <4>1. CASE p.op = "insert"
        <5> DEFINE v == Effects(Prepared(p), SqlStatements(q))[t]
                   r == [create |-> tables[t].create, rows |-> tables[t].rows \o v.rows,
                         state |-> Exported(tables[t].state)]
        <5>1. tables[t] \in Kept /\ v \in Seen /\ new = [tables EXCEPT ![t] = r]
          BY <4>1, InsertCommit
        <5> HIDE DEF v, t, new
        <5>2. r \in Kept
          BY <3>2, <5>1 DEF Kept, Seen
        <5> QED BY <5>1, <5>2 DEF new, t
      <4>2. CASE p.op = "vacuum"
        <5> DEFINE v == Prepared(p)[t]
                   r == [create |-> tables[t].create, rows |-> v.rows,
                         state |-> Exported(tables[t].state)]
        <5>1. tables[t] \in Kept /\ v \in Seen /\ new = [tables EXCEPT ![t] = r]
          BY <4>2, VacuumCommit
        <5> HIDE DEF v, t, new
        <5>2. r \in Kept
          BY <3>2, <5>1 DEF Kept, Seen
        <5> QED BY <5>1, <5>2 DEF new, t
      <4> QED BY <1>4, <4>1, <4>2
    <3> HIDE DEF new, t
    <3>4. new[t] # Absent
      BY <1>0, <1>4, <3>3, AbsentApart
    <3> QED BY <1>1, <1>4, <3>1, <3>4 DEF new, t
  <2> QED BY <2>1, <2>2
<1>5. CASE t \in Tables /\ p.op = "drop_table"
  <2>1. CASE Saved(t)
    <3>1. HalfDone(q) = [tables EXCEPT ![t] = In(tables[t], "torn")]
      BY <1>5, <2>1, HalfDoneCases
    <3>2. tables[t] # Absent
      BY <2>1 DEF Saved, Exists
    <3> QED BY <1>1, <1>5, <3>1, <3>2
  <2>2. CASE ~Saved(t)
    BY <1>5, <2>2, HalfDoneCases
  <2> QED BY <2>1, <2>2
<1> QED BY <1>2, <1>3, <1>4, <1>5 DEF Logged

(* The outcomes of a query that is interrupted are good. *)
LEMMA InterruptedGood ==
  ASSUME Good(tables), NEW q \in Seq(Words), Succeeds(q), NEW new \in Interrupted(q)
  PROVE  Good(new)
<1>1. Good(Committed(q))
  BY CommitGood
<1>2. Good(HalfDone(q))
  <2>1. ASSUME NEW tabs \in {tables, Committed(q)}, NEW st \in States,
               Parse(q).table \in Tables, tabs[Parse(q).table] # Absent,
               HalfDone(q) = [tabs EXCEPT ![Parse(q).table] = In(tabs[Parse(q).table], st)]
        PROVE  Good(HalfDone(q))
    <3> DEFINE t == Parse(q).table
    <3> HIDE DEF t
    <3>1. Good(tabs)
      BY <1>1, <2>1
    <3>2. Good([tabs EXCEPT ![t] = In(tabs[t], st)])
      BY <2>1, <3>1, StateGood DEF t
    <3> QED BY <2>1, <3>2 DEF t
  <2> QED BY <1>1, <2>1, HalfDoneFrom
<1>3. new \in {Committed(q), HalfDone(q), tables}
  BY DEF Interrupted, Outcomes, HalfDone
<1> QED BY <1>1, <1>2, <1>3

(* A restart keeps good tables good. *)
LEMMA ForgetGood ==
  ASSUME NEW tabs, Good(tabs)
  PROVE  Good(Forget(tabs))
<1>1. \A t \in Tables : Forget(tabs)[t] \in {Absent, tabs[t]}
  BY DEF Forget
<1>2. Forget(tabs) = [t \in Tables |-> Forget(tabs)[t]]
  BY DEF Forget
<1>3. \A t \in Tables : Forget(tabs)[t] \in {Absent} \cup Kept
  BY <1>1 DEF Good
<1>4. Forget(tabs) \in [Tables -> {Absent} \cup Kept]
  BY <1>2, <1>3
<1> QED BY <1>1, <1>4 DEF Good

(* The CREATE TABLE of an earlier request is read as one.                  *)
LEMMA MadeRead ==
  ASSUME NEW t \in Tables
  PROVE  LET q == <<"CREATE", "TABLE", t>>
         IN q \in Seq(Words) /\ Parse(q) = [op |-> "create_table", table |-> t]
<1> DEFINE q == <<"CREATE", "TABLE", t>>
           h == <<"CREATE", "TABLE">>
           a == "CREATE"
           b == "TABLE"
<1>1. t \in Words /\ t \notin {"NL", "--", ";"}
  BY ConstantsAssumption DEF Words
<1>2. /\ Len(q) = 3 /\ q[1] = a /\ q[2] = b /\ q[3] = t
      /\ Len(h) = 2 /\ h[1] = a /\ h[2] = b
  OBVIOUS
<1>3. q \in Seq(Words \ {"NL"}) /\ q \in Seq(Words) /\ h \in Seq(Words)
  <2> DEFINE Y == Words \ {"NL"}
  <2>1. a \in Y /\ b \in Y /\ t \in Y /\ a \in Words /\ b \in Words
    BY <1>1, LiteralWords
  <2> HIDE DEF Y, a, b
  <2>2. <<a, b, t>> \in Seq(Y) /\ <<a, b, t>> \in Seq(Words) /\ <<a, b>> \in Seq(Words)
    BY <1>1, <2>1, Tuple3, Tuple2
  <2> QED BY <2>2 DEF Y, a, b
<1>4. Blind(q) = q
  BY <1>3, NoneToFind DEF Blind
<1>5. a = "CREATE" /\ h \in KnownHeads
  BY DEF KnownHeads, CreateHeads
<1> HIDE DEF q, h, a, b
<1>6. SubSeq(h, 1, 2) = SubSeq(q, 1, 2)
  <2>1. /\ SubSeq(h, 1, 2) \in Seq(Words) /\ SubSeq(q, 1, 2) \in Seq(Words)
        /\ Len(SubSeq(h, 1, 2)) = 2 /\ Len(SubSeq(q, 1, 2)) = 2
        /\ \A i \in 1 .. 2 : SubSeq(h, 1, 2)[i] = h[i] /\ SubSeq(q, 1, 2)[i] = q[i]
    BY SMTT(30), <1>2, <1>3
  <2>2. \A i \in 1 .. 2 : h[i] = q[i]
    <3>1. 1 .. 2 = {1, 2}
      OBVIOUS
    <3> QED BY <1>2, <3>1
  <2> QED BY <2>1, <2>2, SeqEqual
<1>7. IsPrefix(h, q)
  BY <1>2, <1>3, <1>6 DEF IsPrefix
<1>8. h \in Heads(q, KnownHeads)
  <2>1. IsPrefix(h, Blind(q)) /\ Len(Blind(q)) > Len(h)
    BY <1>2, <1>4, <1>7
  <2>2. Blind(q)[Len(h) + 1] = t
    BY <1>2, <1>4
  <2>3. Blind(q)[Len(h) + 1] \notin {"--", ";"}
    BY <1>1, <2>2
  <2> QED BY <1>5, <2>1, <2>3 DEF Heads
<1>9. Parse(q) = [op |-> "create_table", table |-> Blind(q)[Len(h) + 1]]
  BY <1>2, <1>3, <1>5, <1>8, MarkedWords, ParseHead
<1>10. Blind(q)[Len(h) + 1] = t
  BY <1>2, <1>4
<1> QED BY <1>3, <1>9, <1>10 DEF q

(* The queries of a body are sequences of words. *)
LEMMA BodyQueries ==
  ASSUME NEW body \in Bodies
  PROVE  /\ SplitNonEmptyQueries(body) \in Seq(Seq(Words))
         /\ <<Trim(body)>> \in Seq(Seq(Words))
<1>1. body \in Seq(Words)
  BY BodyRead
<1>2. Trim(body) \in Seq(Words)
  BY <1>1, TrimLaws
<1>3. SplitNonEmptyQueries(body) \in Seq(QueryOf(Code(Words)))
  BY <1>1, MarkedWords, SplitLaws
<1>4. \A q \in QueryOf(Code(Words)) : q \in Seq(Words)
  <2>1. \A q \in QueryOf(Code(Words)) : q \in Seq(Code(Words))
    BY DEF QueryOf
  <2>2. \A x \in Code(Words) : x \in Words
    BY DEF Code
  <2> QED BY <2>1, <2>2
<1>5. SplitNonEmptyQueries(body) \in Seq(Seq(Words))
  <2> DEFINE Z == QueryOf(Code(Words))
             s == SplitNonEmptyQueries(body)
  <2> HIDE DEF Z, s
  <2>1. s \in Seq(Z) /\ \A q \in Z : q \in Seq(Words)
    BY <1>3, <1>4 DEF Z, s
  <2> QED BY <2>1 DEF s
<1> QED BY <1>2, <1>5

Typed ==
  /\ Serving
  /\ Good(tables)
  /\ queue \in Seq(Seq(Words))
  /\ queue # << >> => req.pc = "run"
  /\ authToken \in BOOLEAN /\ splitting \in BOOLEAN
  /\ status \in {0, 200, 400, 401, 405}
  /\ requests \in Nat /\ faults \in Nat /\ crashes \in Nat

(* Typed holds at the start.                                               *)
LEMMA TypedInit ==
  ASSUME Init
  PROVE  Typed
<1>1. queue = << >> /\ status = 0 /\ requests = 0 /\ faults = 0 /\ crashes = 0
  BY DEF Init
<1>2. Good(tables)
  <2>1. CASE tables \in [Tables -> {Absent}]
    BY <2>1 DEF Good
  <2>2. ASSUME NEW i \in Starts, tables = [t \in Tables |-> Made(t, i[1], i[2])]
        PROVE  Good(tables)
    <3> DEFINE rows == i[1]
               st == i[2]
    <3>1. rows \in Seq(Words) /\ st \in States
      <4> DEFINE x == "r0"
      <4>1. x \in Words
        BY LiteralWords
      <4>2. rows \in {<< >>, <<x>>} /\ st \in States
        BY DEF Starts, States
      <4> HIDE DEF x
      <4>3. << >> \in Seq(Words) /\ <<x>> \in Seq(Words)
        BY <4>1
      <4> HIDE DEF rows, st
      <4> QED BY <4>2, <4>3
    <3> HIDE DEF rows, st
    <3>2. ASSUME NEW t \in Tables
          PROVE  /\ tables[t] \in Kept
                 /\ Parse(tables[t].create) = [op |-> "create_table", table |-> t]
      <4> DEFINE q == <<"CREATE", "TABLE", t>>
      <4>1. tables[t] = [create |-> q, rows |-> rows, state |-> st]
        BY <2>2 DEF Made, rows, st
      <4>2. q \in Seq(Words) /\ Parse(q) = [op |-> "create_table", table |-> t]
        BY MadeRead
      <4> HIDE DEF q
      <4> QED BY <3>1, <4>1, <4>2 DEF Kept
    <3> QED BY <2>2, <3>2 DEF Good
  <2> QED BY <2>1, <2>2 DEF Init
<1>3. queue \in Seq(Seq(Words))
  BY <1>1
<1>4. Serving
  BY ServingInit
<1>5. authToken \in BOOLEAN /\ splitting \in BOOLEAN
  BY DEF Init
<1> QED BY <1>1, <1>2, <1>3, <1>4, <1>5 DEF Typed

(* Typed is inductive by itself.                                           *)
LEMMA TypedStep ==
  ASSUME Typed, [Next]_vars
  PROVE  Typed'
<1>1. Serving' /\ Serving
  BY ServingStep DEF Typed
<1>2. /\ Good(tables) /\ queue \in Seq(Seq(Words)) /\ status \in {0, 200, 400, 401, 405}
      /\ authToken \in BOOLEAN /\ splitting \in BOOLEAN
      /\ requests \in Nat /\ faults \in Nat /\ crashes \in Nat
      /\ queue # << >> => req.pc = "run"
  BY DEF Typed
<1>3. ASSUME Good(tables)', queue' \in Seq(Seq(Words)), queue' # << >> => req'.pc = "run",
             UNCHANGED config, status' \in {0, 200, 400, 401, 405},
             requests' \in Nat, faults' \in Nat, crashes' \in Nat
      PROVE  Typed'
  BY <1>1, <1>2, <1>3 DEF Typed, config
<1>4. ASSUME NEW code \in {0, 200, 400, 401, 405}, Answer(code)
      PROVE  /\ queue' \in Seq(Seq(Words)) /\ queue' = << >>
             /\ status' \in {0, 200, 400, 401, 405}
  BY <1>4 DEF Answer
<1>5. ASSUME UNCHANGED tables
      PROVE  Good(tables)'
  BY <1>2, <1>5 DEF Good
<1>6. ASSUME queue # << >>
      PROVE  /\ Head(queue) \in Seq(Words) /\ Tail(queue) \in Seq(Seq(Words))
             /\ Succeeds(Head(queue)) =>
                  /\ Good(Committed(Head(queue)))
                  /\ \A new \in Interrupted(Head(queue)) : Good(new)
  <2>1. Head(queue) \in Seq(Words) /\ Tail(queue) \in Seq(Seq(Words))
    BY <1>2, <1>6
  <2> QED BY <1>2, <2>1, CommitGood, InterruptedGood
<1>7. ASSUME NEW m \in Methods, NEW b \in BOOLEAN, NEW p \in Paths, Arrive(m, b, p)
      PROVE  Typed'
  <2>1. /\ UNCHANGED <<config, tables, queue, faults, crashes>>
        /\ requests' = requests + 1 /\ status' = 0 /\ req.pc = "idle"
    BY <1>7 DEF Arrive
  <2>2. queue' = << >>
    BY <1>2, <2>1
  <2> QED BY <1>2, <1>3, <1>5, <2>1, <2>2
<1>8. CASE Reject
  <2>1. PICK code \in {0, 200, 400, 401, 405} : Answer(code)
    BY <1>8 DEF Reject
  <2>2. UNCHANGED <<config, tables, before, bounds>>
    BY <1>8 DEF Reject
  <2> QED BY <1>2, <1>3, <1>4, <1>5, <2>1, <2>2 DEF bounds
<1>9. ASSUME NEW body \in Bodies, PostEndpoint(body)
      PROVE  Typed'
  <2>1. UNCHANGED <<config, tables, before, bounds>>
    BY <1>9 DEF PostEndpoint
  <2>2. CASE /\ req' = [req EXCEPT !.pc = "run", !.body = body]
             /\ queue' = IF splitting THEN SplitNonEmptyQueries(body) ELSE <<Trim(body)>>
             /\ UNCHANGED status
    <3>1. req'.pc = "run"
      BY <1>1, <2>2 DEF Serving, Requests
    <3>2. queue' \in Seq(Seq(Words))
      BY <2>2, BodyQueries
    <3> QED BY <1>2, <1>3, <1>5, <2>1, <2>2, <3>1, <3>2 DEF bounds
  <2>3. CASE Answer(200) \/ Answer(400)
    BY <1>2, <1>3, <1>4, <1>5, <2>1, <2>3 DEF bounds
  <2> QED BY <1>9, <2>2, <2>3 DEF PostEndpoint
<1>10. CASE RunStatement
  <2>1. /\ queue # << >> /\ req.pc = "run" /\ Succeeds(Head(queue))
        /\ tables' = Committed(Head(queue)) /\ queue' = Tail(queue)
        /\ UNCHANGED <<config, req, status, before, bounds>>
    BY <1>10 DEF RunStatement, Running
  <2>2. Good(tables)'
    BY <1>6, <2>1 DEF Good
  <2> QED BY <1>2, <1>3, <1>6, <2>1, <2>2 DEF bounds
<1>11. CASE StatementFails
  <2>1. Answer(400) /\ UNCHANGED <<config, tables, before, bounds>>
    BY <1>11 DEF StatementFails
  <2> QED BY <1>2, <1>3, <1>4, <1>5, <2>1 DEF bounds
<1>12. CASE StorageFails
  <2>1. /\ queue # << >> /\ Succeeds(Head(queue)) /\ faults' = faults + 1
        /\ tables' \in Interrupted(Head(queue))
        /\ Answer(400) /\ UNCHANGED <<config, before, requests, crashes>>
    BY <1>12 DEF StorageFails, Running
  <2>2. Good(tables)'
    BY <1>6, <2>1 DEF Good
  <2> QED BY <1>2, <1>3, <1>4, <2>1, <2>2
<1>13. CASE Respond
  <2>1. Answer(200) /\ UNCHANGED <<config, tables, before, bounds>>
    BY <1>13 DEF Respond
  <2> QED BY <1>2, <1>3, <1>4, <1>5, <2>1 DEF bounds
<1>14. CASE Crash
  <2>1. /\ Answer(0) /\ crashes' = crashes + 1
        /\ UNCHANGED <<config, before, requests, faults>>
    BY <1>14 DEF Crash
  <2>2. PICK left : /\ tables' = Forget(left)
                    /\ \/ left = tables
                       \/ /\ queue # << >> /\ Succeeds(Head(queue))
                          /\ left \in Interrupted(Head(queue))
    BY <1>14 DEF Crash, Running
  <2>3. Good(left)
    BY <1>2, <1>6, <2>2
  <2>4. Good(tables')
    BY <2>2, <2>3, ForgetGood
  <2>5. Good(tables)'
    BY <2>4 DEF Good
  <2> QED BY <1>2, <1>3, <1>4, <2>1, <2>5
<1>15. CASE Rest \/ UNCHANGED vars
  <2>1. UNCHANGED vars
    BY <1>15 DEF Rest
  <2> QED BY <1>2, <1>3, <1>5, <2>1 DEF vars, bounds
<1> QED BY <1>7, <1>8, <1>9, <1>10, <1>11, <1>12, <1>13, <1>14, <1>15 DEF Next, Handle

(* Every variable has the shape the code gives it; the text kept with a    *)
(* table creates that table, whatever the bodies that clients send.        *)
THEOREM TypeCorrect == Spec => []TypeOK
<1>1. Typed => TypeOK
  <2> SUFFICES ASSUME Typed PROVE TypeOK
    OBVIOUS
  <2>1. req.pc \in {"idle", "check", "run"}
    BY DEF Typed, Serving, Requests
  <2>2. {requests, faults, crashes} \subseteq Nat
    BY DEF Typed
  <2>3. \A t \in Tables :
          tables[t] # Absent =>
            /\ Parse(tables[t].create) = [op |-> "create_table", table |-> t]
            /\ tables[t].state \in States
    BY DEF Typed, Good, Kept
  <2>4. status \in {0, 200, 400, 401, 405}
    BY DEF Typed
  <2> QED BY <2>1, <2>2, <2>3, <2>4 DEF Typed, TypeOK
<1> QED BY <1>1, TypedInit, TypedStep, PTL DEF Spec

-----------------------------------------------------------------------------
(***************************************************************************)
(* A statement that is served runs: on the tables of the bucket it does what *)
(* its query commits.                                                      *)
(***************************************************************************)
(* The tables without the text kept with them are tables of a transaction. *)
LEMMA PlainType ==
  ASSUME NEW tabs, Good(tabs)
  PROVE  /\ Plain(tabs) \in Tx
         /\ \A t \in Tables :
              /\ tabs[t] = Absent => Plain(tabs)[t] = Absent
              /\ tabs[t] # Absent =>
                   /\ tabs[t] \in Kept /\ Plain(tabs)[t] \in Seen /\ Plain(tabs)[t] # Absent
                   /\ Plain(tabs)[t] = [rows |-> tabs[t].rows, view |-> FALSE,
                                        state |-> tabs[t].state]
<1>1. ASSUME NEW t \in Tables
      PROVE  /\ tabs[t] = Absent => Plain(tabs)[t] = Absent
             /\ tabs[t] # Absent =>
                  /\ tabs[t] \in Kept /\ Plain(tabs)[t] \in Seen /\ Plain(tabs)[t] # Absent
                  /\ Plain(tabs)[t] = [rows |-> tabs[t].rows, view |-> FALSE,
                                       state |-> tabs[t].state]
  <2>1. Plain(tabs)[t] = IF tabs[t] = Absent THEN Absent
                         ELSE [rows |-> tabs[t].rows, view |-> FALSE, state |-> tabs[t].state]
    BY DEF Plain
  <2>2. tabs[t] # Absent => tabs[t] \in Kept
    BY DEF Good
  <2>3. tabs[t] # Absent =>
          [rows |-> tabs[t].rows, view |-> FALSE, state |-> tabs[t].state] \in Seen
    BY <2>2 DEF Kept, Seen
  <2> QED BY <2>1, <2>2, <2>3, AbsentApart
<1>2. Plain(tabs) = [t \in Tables |-> Plain(tabs)[t]]
  BY DEF Plain
<1>3. \A t \in Tables : Plain(tabs)[t] \in {Absent} \cup Seen
  BY <1>1
<1>4. Plain(tabs) \in Tx
  BY <1>2, <1>3 DEF Tx
<1> QED BY <1>1, <1>4

(* One table changed. *)
LEMMA PlainExcept ==
  ASSUME NEW tabs, Good(tabs), NEW t \in Tables
  PROVE  /\ \A r \in Kept : Plain([tabs EXCEPT ![t] = r]) =
              [Plain(tabs) EXCEPT ![t] = [rows |-> r.rows, view |-> FALSE, state |-> r.state]]
         /\ Plain([tabs EXCEPT ![t] = Absent]) = [Plain(tabs) EXCEPT ![t] = Absent]
<1>1. tabs \in [Tables -> {Absent} \cup Kept]
  BY DEF Good
<1>2. ASSUME NEW r \in Kept
      PROVE  Plain([tabs EXCEPT ![t] = r]) =
               [Plain(tabs) EXCEPT ![t] = [rows |-> r.rows, view |-> FALSE, state |-> r.state]]
  <2>1. r # Absent
    BY AbsentApart
  <2> QED BY <1>1, <2>1 DEF Plain
<1>3. Plain([tabs EXCEPT ![t] = Absent]) = [Plain(tabs) EXCEPT ![t] = Absent]
  BY <1>1 DEF Plain
<1> QED BY <1>2, <1>3

(* A text that is a single statement. *)
LEMMA OneStatement ==
  ASSUME NEW tx \in Tx, NEW w \in Seq(Seq(Words)), Len(w) = 1
  PROVE  /\ Effects(tx, w) = Effect(tx, Sql(w[1]))
         /\ AllRun(tx, w) => Runs(tx, Sql(w[1]))
<1>1. w # << >> /\ w[1] \in Seq(Words) /\ w = Append(<< >>, w[1])
  OBVIOUS
<1>2. << >> \in Seq(Seq(Words))
  OBVIOUS
<1>3. Effects(tx, << >>) = tx
  BY EffectsLaws
<1>4. Effects(tx, Append(<< >>, w[1])) = Then(Effects(tx, << >>), w[1])
  BY <1>1, <1>2, EffectsLaws
<1>5. Effects(tx, w) = Effect(tx, Sql(w[1]))
  BY <1>1, <1>3, <1>4 DEF Then
<1> QED BY <1>1, <1>5, FirstRuns

(* The tables were created by single statements. *)
Single(tabs) ==
  \A t \in Tables : tabs[t] # Absent => Len(SqlStatements(tabs[t].create)) = 1

(* Such a statement, run again, makes the table anew and no other.         *)
LEMMA CreateAgain ==
  ASSUME Good(tables), Single(tables), NEW t \in Tables, tables[t] # Absent
  PROVE  Effects(NoTables, SqlStatements(tables[t].create)) = [NoTables EXCEPT ![t] = Empty]
<1> DEFINE c == tables[t].create
           w == SqlStatements(c)
           s == Sql(w[1])
<1>1. c \in Seq(Words) /\ Parse(c) = [op |-> "create_table", table |-> t] /\ Len(w) = 1
  <2>1. tables[t] \in Kept
    BY DEF Good
  <2>2. c \in Seq(Words)
    BY <2>1 DEF Kept
  <2> QED BY <2>2 DEF Good, Single
<1> HIDE DEF c
<1>2. Parse(c).op = "create_table" /\ Parse(c).table = t
  BY <1>1
<1>3. PICK h \in Heads(c, KnownHeads) : h[1] = "CREATE" /\ t = Blind(c)[Len(h) + 1]
  BY <1>1, <1>2, MarkedWords, ParsedHead
<1>4. s.verb = "CREATE" /\ s.table = t
  BY <1>1, <1>3, MarkedWords, HeadReads
<1>5. w \in Seq(Seq(Words)) /\ NoTables \in Tx
  BY <1>1, MarkedWords, SqlLaws, PreparedType
<1>6. Effects(NoTables, w) = Effect(NoTables, s)
  BY <1>1, <1>5, OneStatement
<1> HIDE DEF s, w
<1>7. NoTables[t] = Absent
  BY DEF NoTables
<1>8. Runs(NoTables, s)
  BY <1>4, <1>7, RunsCases
<1>9. Effect(NoTables, s) = [NoTables EXCEPT ![t] = Empty]
  BY <1>4, <1>8, EffectCases
<1> QED BY <1>6, <1>9 DEF w, c

(* The transaction of a statement then holds the table that it is about,   *)
(* and no other; for VACUUM with its rows.                                 *)
LEMMA PreparedIs ==
  ASSUME Good(tables), Single(tables), NEW p, Exists(p.table)
  PROVE  \E r \in Seen :
           /\ Prepared(p) = [NoTables EXCEPT ![p.table] = r]
           /\ p.op = "vacuum" => r.rows = tables[p.table].rows
           /\ p.op \in {"select", "vacuum"} /\ tables[p.table].state \in {"torn", "stuck"} =>
                r.state = tables[p.table].state
           /\ p.op \notin {"select", "vacuum"} => r = Empty
<1> DEFINE t == p.table
           r == [rows |-> tables[t].rows, view |-> TRUE, state |-> tables[t].state]
           viewed == /\ p.op \in {"select", "vacuum"}
                     /\ tables[t].rows # << >> \/ tables[t].state \in {"torn", "stuck"}
<1>1. t \in Tables /\ tables[t] # Absent /\ tables[t] \in Kept
  BY PreparedType DEF Exists
<1>2. Effects(NoTables, SqlStatements(tables[t].create)) = [NoTables EXCEPT ![t] = Empty]
  <2> HIDE DEF t
  <2> QED BY <1>1, CreateAgain
<1>3. Empty \in Seen /\ Empty.rows = << >>
  BY DEF Empty, Seen, States
<1>4. CASE viewed
  <2>1. Prepared(p) = [NoTables EXCEPT ![t] = r]
    BY <1>4 DEF Prepared
  <2> HIDE DEF t
  <2>2. r \in Seen /\ r.rows = tables[t].rows /\ r.state = tables[t].state
    BY <1>1 DEF Kept, Seen
  <2> HIDE DEF r
  <2> QED BY <1>4, <2>1, <2>2 DEF t
<1>5. CASE ~viewed
  <2>1. Prepared(p) = Effects(NoTables, SqlStatements(tables[t].create))
    BY <1>5 DEF Prepared
  <2> HIDE DEF t
  <2>2. p.op = "vacuum" => Empty.rows = tables[t].rows
    BY <1>3, <1>5
  <2>3. p.op \in {"select", "vacuum"} /\ tables[t].state \in {"torn", "stuck"} =>
          Empty.state = tables[t].state
    BY <1>5
  <2> HIDE DEF viewed
  <2>4. Prepared(p) = [NoTables EXCEPT ![t] = Empty]
    BY <1>2, <2>1
  <2> QED BY <1>3, <2>2, <2>3, <2>4 DEF t
<1> QED BY <1>4, <1>5

(* The operations, one by one.                                             *)
LEMMA OpOfIs ==
  ASSUME NEW v
  PROVE  /\ v = "INSERT" => OpOf(v) = "insert"
         /\ v = "CREATE" => OpOf(v) = "create_table"
         /\ v = "DROP" => OpOf(v) = "drop_table"
         /\ v = "VACUUM" => OpOf(v) = "vacuum"
<1>1. v = "INSERT" => OpOf(v) = "insert"
  BY Zenon DEF OpOf
<1>2. v = "CREATE" => OpOf(v) = "create_table"
  BY Zenon DEF OpOf
<1>3. v = "DROP" => OpOf(v) = "drop_table"
  BY Zenon DEF OpOf
<1>4. v = "VACUUM" => OpOf(v) = "vacuum"
  BY Zenon DEF OpOf
<1> QED BY <1>1, <1>2, <1>3, <1>4

(* The query q, a single statement, is read as what it is. *)
Served(q) ==
  LET w == SqlStatements(q) IN
  /\ q \in Seq(Words) /\ Len(w) = 1
  /\ \/ LoggedAs(q, Sql(w[1]))
     \/ Sql(w[1]).verb = "SELECT" /\ ~Logged(q) /\ Unlogged(q)

(* s ran on the tables, or is a DROP, and new is what it made of them. *)
Ran(s, tabs, new) ==
  /\ Plain(new) = Effect(Plain(tabs), s)
  /\ s.verb = "DROP" \/ Runs(Plain(tabs), s)
  /\ Single(new)

(* INSERT, through the log.                                                *)
LEMMA InsertRan ==
  ASSUME Good(tables), Single(tables), NEW q, Served(q), Succeeds(q),
         Sql(SqlStatements(q)[1]).verb = "INSERT"
  PROVE  Ran(Sql(SqlStatements(q)[1]), tables, Committed(q))
<1> DEFINE w == SqlStatements(q)
           s == Sql(w[1])
           p == Parse(q)
           t == p.table
           tx == Prepared(p)
           ran == Effects(tx, w)
<1>1. q \in Seq(Words) /\ Len(w) = 1 /\ p.op = "insert" /\ t = s.table
  BY Zenon, OpOfIs DEF Served, LoggedAs, Logged
<1>2. w \in Seq(Seq(Words)) /\ tx \in Tx
  BY <1>1, PreparedType, MarkedWords, SqlLaws
<1>3. /\ Exists(t) /\ t \in Tables /\ tables[t] \in Kept /\ ran[t] \in Seen
      /\ Committed(q) = [tables EXCEPT ![t] = [create |-> tables[t].create,
                                               rows |-> tables[t].rows \o ran[t].rows,
                                               state |-> Exported(tables[t].state)]]
  BY <1>1, InsertCommit
<1>4. AllRun(tx, w)
  BY <1>1, SucceedsCases
<1>5. Runs(tx, s) /\ ran = Effect(tx, s)
  <2> HIDE DEF tx
  <2> QED BY <1>1, <1>2, <1>4, OneStatement
<1>6. tx = [NoTables EXCEPT ![t] = Empty]
  BY <1>1, <1>3, PreparedIs
<1>7. w[1] \in Seq(Words)
  <2>1. \A v \in Seq(Seq(Words)) : Len(v) = 1 => v[1] \in Seq(Words)
    OBVIOUS
  <2>2. w \in Seq(Seq(Words)) /\ Len(w) = 1
    BY <1>1, <1>2
  <2> HIDE DEF w
  <2> QED BY <2>1, <2>2
<1>8. s.row \in Words
  BY <1>7, SqlWords
<1>9. s.verb = "INSERT"
  OBVIOUS
<1> DEFINE r == [create |-> tables[t].create, rows |-> tables[t].rows \o ran[t].rows,
                 state |-> Exported(tables[t].state)]
           tabs == Plain(tables)
           new == Committed(q)
<1> HIDE DEF w, s, tx, ran, t, new
<1>10. tx[t] = Empty
  BY <1>3, <1>6 DEF NoTables
<1>11. ran = [tx EXCEPT ![t] = [rows |-> Append(tx[t].rows, s.row), view |-> tx[t].view,
                                state |-> Exported(tx[t].state)]]
  BY <1>1, <1>2, <1>5, <1>8, <1>9, InsertEffect
<1>12. ran[t].rows = <<s.row>>
  <2>1. ran[t].rows = Append(Empty.rows, s.row)
    BY <1>2, <1>3, <1>10, <1>11 DEF Tx
  <2>2. Empty.rows = << >>
    BY DEF Empty
  <2> QED BY <2>1, <2>2
<1>13. r.rows = Append(tables[t].rows, s.row) /\ r \in Kept
  <2> DEFINE a == tables[t].rows
             x == s.row
  <2>1. a \in Seq(Words) /\ x \in Words
    BY <1>3, <1>8 DEF Kept
  <2>2. r.rows = a \o <<x>> /\ r.create = tables[t].create /\ tables[t].create \in Seq(Words)
    BY <1>3, <1>12 DEF Kept
  <2> HIDE DEF a, x
  <2>3. a \o <<x>> = Append(a, x) /\ Append(a, x) \in Seq(Words)
    BY <2>1, ConcatAppend
  <2>4. /\ r = [create |-> tables[t].create, rows |-> r.rows,
                 state |-> Exported(tables[t].state)]
        /\ Exported(tables[t].state) \in States
    BY DEF Exported, States
  <2> HIDE DEF r
  <2>5. r \in Kept
    BY <2>2, <2>3, <2>4 DEF Kept
  <2> QED BY <2>2, <2>3, <2>5 DEF a, x
<1>14. tables[t] # Absent
  BY <1>3 DEF Exists
<1>15. /\ tabs \in Tx /\ tabs[t] # Absent
       /\ tabs[t] = [rows |-> tables[t].rows, view |-> FALSE, state |-> tables[t].state]
  BY <1>3, <1>14, PlainType
<1>16. Runs(tabs, s)
  <2>1. ~tabs[t].view
    BY <1>15
  <2> HIDE DEF tabs
  <2> QED BY <1>1, <1>3, <1>9, <1>15, <2>1, RunsCases
<1>17. Effect(tabs, s) = [tabs EXCEPT ![t] = [rows |-> Append(tabs[t].rows, s.row),
                                              view |-> tabs[t].view,
                                              state |-> Exported(tabs[t].state)]]
  <2> HIDE DEF tabs
  <2> QED BY <1>1, <1>8, <1>9, <1>15, <1>16, InsertEffect
<1>18. new = [tables EXCEPT ![t] = r]
  BY <1>3 DEF new
<1>22. r.state = Exported(tables[t].state)
  OBVIOUS
<1> HIDE DEF r
<1>19. Plain(new) = [tabs EXCEPT ![t] = [rows |-> r.rows, view |-> FALSE, state |-> r.state]]
  <2>1. Plain([tables EXCEPT ![t] = r]) =
          [Plain(tables) EXCEPT ![t] = [rows |-> r.rows, view |-> FALSE, state |-> r.state]]
    <3>1. t \in Tables /\ r \in Kept
      BY <1>3, <1>13
    <3>2. \A u \in Tables : \A x \in Kept : Plain([tables EXCEPT ![u] = x]) =
            [Plain(tables) EXCEPT ![u] = [rows |-> x.rows, view |-> FALSE, state |-> x.state]]
      BY Zenon, PlainExcept
    <3> QED BY Zenon, <3>1, <3>2
  <2> QED BY Zenon, <1>18, <2>1 DEF tabs
<1>20. Plain(new) = Effect(tabs, s)
  <2>1. tabs[t].rows = tables[t].rows /\ tabs[t].view = FALSE /\ tabs[t].state = tables[t].state
    BY <1>15
  <2> QED BY <1>13, <1>17, <1>19, <1>22, <2>1
<1>21. Single(new)
  <2>1. r.create = tables[t].create
    BY DEF r
  <2>2. tables \in [Tables -> {Absent} \cup Kept]
    BY DEF Good
  <2> QED BY <1>3, <1>14, <1>18, <2>1, <2>2 DEF Single
<1> QED BY <1>16, <1>20, <1>21 DEF Ran, s, w, new

(* The element of a sequence of one. *)
LEMMA OnlyOne ==
  ASSUME NEW X, NEW s \in Seq(X), Len(s) = 1
  PROVE  s[1] \in X /\ s = <<s[1]>>
<1>1. 1 \in 1 .. Len(s)
  OBVIOUS
<1>2. s[1] \in X
  BY <1>1
<1>3. s = <<s[1]>>
  OBVIOUS
<1> QED BY <1>2, <1>3

(* What all the cases of a served query share. *)
LEMMA ServedFacts ==
  ASSUME Good(tables), NEW q, Served(q)
  PROVE  LET w == SqlStatements(q) IN
         /\ q \in Seq(Words) /\ w \in Seq(Seq(Words)) /\ Len(w) = 1 /\ w[1] \in Seq(Words)
         /\ Prepared(Parse(q)) \in Tx
         /\ Effects(Prepared(Parse(q)), w) = Effect(Prepared(Parse(q)), Sql(w[1]))
         /\ AllRun(Prepared(Parse(q)), w) => Runs(Prepared(Parse(q)), Sql(w[1]))
<1> DEFINE w == SqlStatements(q)
           tx == Prepared(Parse(q))
<1>1. q \in Seq(Words) /\ Len(w) = 1
  BY DEF Served
<1>2. w \in Seq(Seq(Words)) /\ tx \in Tx
  BY <1>1, PreparedType, MarkedWords, SqlLaws
<1> HIDE DEF w, tx
<1>3. Effects(tx, w) = Effect(tx, Sql(w[1])) /\ (AllRun(tx, w) => Runs(tx, Sql(w[1])))
  BY <1>1, <1>2, OneStatement
<1>4. w[1] \in Seq(Words)
  BY <1>1, <1>2, OnlyOne
<1> QED BY <1>1, <1>2, <1>3, <1>4 DEF w, tx

(* CREATE TABLE, through the log.                                          *)
LEMMA CreateRan ==
  ASSUME Good(tables), Single(tables), NEW q, Served(q), Succeeds(q),
         Sql(SqlStatements(q)[1]).verb = "CREATE"
  PROVE  Ran(Sql(SqlStatements(q)[1]), tables, Committed(q))
<1> DEFINE w == SqlStatements(q)
           s == Sql(w[1])
           p == Parse(q)
           t == p.table
           tx == Prepared(p)
           r == [create |-> q, rows |-> << >>, state |-> "whole"]
           tabs == Plain(tables)
           new == Committed(q)
<1>1. p.op = "create_table" /\ t = s.table
  BY Zenon, OpOfIs DEF Served, LoggedAs, Logged
<1>2. AllRun(tx, w)
  BY <1>1, SucceedsCases
<1>3. q \in Seq(Words) /\ Len(w) = 1 /\ tx \in Tx /\ Runs(tx, s)
  BY <1>2, ServedFacts
<1>4. s.verb = "CREATE"
  OBVIOUS
<1> HIDE DEF s, tx
<1>5. t \in Tables /\ tx[t] = Absent
  BY <1>1, <1>3, <1>4, RunsCases
<1>6. ~Exists(t)
  <2> SUFFICES ASSUME Exists(t) PROVE FALSE
    OBVIOUS
  <2>1. tx = [NoTables EXCEPT ![t] = Empty]
    BY <1>1, PreparedIs DEF tx
  <2> HIDE DEF t
  <2>2. tx[t] = Empty
    BY <1>5, <2>1 DEF NoTables
  <2>3. Empty \in Seen
    BY DEF Empty, Seen, States
  <2> QED BY <1>5, <2>2, <2>3, AbsentApart
<1>7. new = [tables EXCEPT ![t] = r]
  BY <1>1, <1>5, <1>6, CommittedCases
<1>8. r \in Kept /\ r.rows = << >> /\ r.create = q /\ r.state = "whole"
  BY <1>3 DEF Kept, States
<1>9. tabs \in Tx /\ tabs[t] = Absent
  BY <1>5, <1>6, PlainType DEF Exists
<1>12. Good(tables) /\ tables \in [Tables -> {Absent} \cup Kept] /\ Single(tables)
  BY DEF Good
<1> HIDE DEF new, t, r
<1>10. Plain(new) = [tabs EXCEPT ![t] = Empty]
  <2>1. \A u \in Tables : \A x \in Kept : Plain([tables EXCEPT ![u] = x]) =
          [Plain(tables) EXCEPT ![u] = [rows |-> x.rows, view |-> FALSE, state |-> x.state]]
    BY Zenon, PlainExcept
  <2>2. Plain(new) = [tabs EXCEPT ![t] = [rows |-> r.rows, view |-> FALSE, state |-> r.state]]
    BY Zenon, <1>5, <1>7, <1>8, <2>1
  <2> QED BY <1>8, <2>2 DEF Empty
<1> HIDE DEF tabs
<1>11. Runs(tabs, s) /\ Effect(tabs, s) = [tabs EXCEPT ![t] = Empty]
  BY <1>1, <1>4, <1>5, <1>9, RunsCases, EffectCases
<1>13. Single(new)
  BY <1>3, <1>5, <1>7, <1>8, <1>12 DEF Single
<1> QED BY <1>10, <1>11, <1>13 DEF Ran, s, new, tabs, w

(* DROP TABLE, through the log. *)
LEMMA DropRan ==
  ASSUME Good(tables), Single(tables), NEW q, Served(q), Succeeds(q),
         Sql(SqlStatements(q)[1]).verb = "DROP"
  PROVE  Ran(Sql(SqlStatements(q)[1]), tables, Committed(q))
<1> DEFINE w == SqlStatements(q)
           s == Sql(w[1])
           p == Parse(q)
           t == p.table
           tabs == Plain(tables)
           new == Committed(q)
<1>1. p.op = "drop_table" /\ t = s.table
  BY Zenon, OpOfIs DEF Served, LoggedAs, Logged
<1>2. s.verb = "DROP"
  OBVIOUS
<1>3. /\ t \notin Tables => new = tables
      /\ t \in Tables => new = [tables EXCEPT ![t] = Absent]
  BY <1>1, CommittedCases
<1>4. tabs \in Tx
  BY PlainType
<1>5. Good(tables) /\ tables \in [Tables -> {Absent} \cup Kept] /\ Single(tables)
  BY DEF Good
<1> HIDE DEF s, new, t
<1>6. CASE t \notin Tables
  <2>1. new = tables /\ ~Runs(tabs, s)
    BY <1>1, <1>2, <1>3, <1>6, RunsCases
  <2> QED BY <1>2, <1>5, <2>1, EffectCases DEF Ran, s, new, w
<1>7. CASE t \in Tables
  <2>1. Plain(new) = [tabs EXCEPT ![t] = Absent]
    <3>1. \A u \in Tables :
            Plain([tables EXCEPT ![u] = Absent]) = [Plain(tables) EXCEPT ![u] = Absent]
      BY Zenon, PlainExcept
    <3> QED BY Zenon, <1>3, <1>7, <3>1
  <2>2. Single(new)
    BY <1>3, <1>5, <1>7 DEF Single
  <2>3. tabs[t] # Absent => tabs[t].view = FALSE
    <3>1. tabs[t] # Absent => tabs[t] = [rows |-> tables[t].rows, view |-> FALSE,
                                         state |-> tables[t].state]
      BY <1>7, PlainType
    <3> QED BY <3>1
  <2> HIDE DEF tabs
  <2>4. Effect(tabs, s) = [tabs EXCEPT ![t] = Absent]
    <3>1. CASE tabs[t] = Absent
      <4>1. ~Runs(tabs, s)
        BY <1>1, <1>2, <3>1, RunsCases
      <4>2. [tabs EXCEPT ![t] = Absent] = tabs
        BY <1>4, <1>7, <3>1 DEF Tx
      <4> QED BY <4>1, <4>2, EffectCases
    <3>2. CASE tabs[t] # Absent
      <4>1. Runs(tabs, s)
        BY <1>1, <1>2, <1>7, <2>3, <3>2, RunsCases
      <4> QED BY <1>1, <1>2, <4>1, EffectCases
    <3> QED BY <3>1, <3>2
  <2> QED BY <1>2, <2>1, <2>2, <2>4 DEF Ran, s, new, tabs, w
<1> QED BY <1>6, <1>7

(* VACUUM, through the log: it writes the rows that it found.              *)
LEMMA VacuumRan ==
  ASSUME Good(tables), Single(tables), NEW q, Served(q), Succeeds(q),
         Sql(SqlStatements(q)[1]).verb = "VACUUM"
  PROVE  Ran(Sql(SqlStatements(q)[1]), tables, Committed(q))
<1> DEFINE w == SqlStatements(q)
           s == Sql(w[1])
           p == Parse(q)
           t == p.table
           tx == Prepared(p)
           tabs == Plain(tables)
           new == Committed(q)
           r == [create |-> tables[t].create, rows |-> tx[t].rows,
                 state |-> Exported(tables[t].state)]
<1>1. q \in Seq(Words) /\ p.op = "vacuum" /\ (t = s.table \/ t \notin Tables)
  BY Zenon, OpOfIs DEF Served, LoggedAs, Logged
<1>2. s.verb = "VACUUM"
  OBVIOUS
<1>3. /\ Exists(t) /\ t \in Tables /\ tables[t] \in Kept /\ tx[t] \in Seen
      /\ tx[t].state # "stuck" /\ new = [tables EXCEPT ![t] = r]
  BY <1>1, VacuumCommit
<1>4. PICK v \in Seen : /\ tx = [NoTables EXCEPT ![t] = v] /\ v.rows = tables[t].rows
                        /\ tables[t].state \in {"torn", "stuck"} => v.state = tables[t].state
  BY <1>1, <1>3, PreparedIs
<1>5. tables[t] # Absent
  BY <1>3 DEF Exists
<1>6. /\ tabs \in Tx /\ tabs[t] # Absent
      /\ tabs[t] = [rows |-> tables[t].rows, view |-> FALSE, state |-> tables[t].state]
  BY <1>3, <1>5, PlainType
<1>7. Good(tables) /\ tables \in [Tables -> {Absent} \cup Kept] /\ Single(tables)
  BY DEF Good
<1> HIDE DEF s, new, t, tx
<1>8. tx[t] = v
  BY <1>3, <1>4 DEF NoTables
<1>9. r.rows = tables[t].rows /\ r.create = tables[t].create /\ r.state = Exported(tables[t].state)
  BY <1>4, <1>8
<1>10. r \in Kept
  <2>1. Exported(tables[t].state) \in States
    BY DEF Exported, States
  <2> QED BY <1>3, <2>1 DEF Kept, Seen
<1> HIDE DEF r
<1>11. tables[t].state # "stuck"
  BY <1>3, <1>4, <1>8
<1>12. Plain(new) = [tabs EXCEPT ![t] = [rows |-> r.rows, view |-> FALSE, state |-> r.state]]
  <2>1. \A u \in Tables : \A x \in Kept : Plain([tables EXCEPT ![u] = x]) =
          [Plain(tables) EXCEPT ![u] = [rows |-> x.rows, view |-> FALSE, state |-> x.state]]
    BY Zenon, PlainExcept
  <2> QED BY Zenon, <1>3, <1>10, <2>1
<1>13. Single(new)
  BY <1>3, <1>5, <1>7, <1>9 DEF Single
<1> HIDE DEF tabs
<1>14. tabs[t].rows = tables[t].rows /\ tabs[t].view = FALSE /\ tabs[t].state = tables[t].state
  BY <1>6
<1>15. Runs(tabs, s)
  BY <1>1, <1>2, <1>3, <1>6, <1>11, <1>14, RunsCases
<1>16. Effect(tabs, s) = [tabs EXCEPT ![t] = [rows |-> tabs[t].rows, view |-> tabs[t].view,
                                              state |-> Exported(tabs[t].state)]]
  <2>1. s.table = t
    BY <1>1, <1>3
  <2> QED BY <1>2, <1>6, <1>15, <2>1, VacuumEffect
<1>17. Plain(new) = Effect(tabs, s)
  BY <1>9, <1>12, <1>14, <1>16
<1> QED BY <1>13, <1>15, <1>17 DEF Ran, s, new, tabs, w

(* SELECT, which the log does not know. *)
LEMMA SelectRan ==
  ASSUME Good(tables), Single(tables), NEW q, Served(q), Succeeds(q),
         Sql(SqlStatements(q)[1]).verb = "SELECT", ~Logged(q), Unlogged(q)
  PROVE  Ran(Sql(SqlStatements(q)[1]), tables, Committed(q))
<1> DEFINE w == SqlStatements(q)
           s == Sql(w[1])
           p == Parse(q)
           t == s.table
           tx == Prepared(p)
           tabs == Plain(tables)
           new == Committed(q)
<1>1. s.verb = "SELECT"
  OBVIOUS
<1>2. new = tables
  BY CommittedCases
<1>3. AllRun(tx, w)
  BY SucceedsCases DEF Logged
<1>4. Runs(tx, s)
  BY <1>3, ServedFacts
<1>5. Single(tables)
  OBVIOUS
<1>6. t # "" => /\ Exists(t) /\ t \in Tables
                /\ tables[t].state \in {"whole", "fresh"}
  <2> SUFFICES ASSUME t # "" PROVE /\ Exists(t) /\ t \in Tables
                                   /\ tables[t].state \in {"whole", "fresh"}
    OBVIOUS
  <2>1. t \in Tables /\ tx[t] # Absent /\ tx[t].state \in {"whole", "fresh"}
    <3> HIDE DEF s, tx
    <3> QED BY <1>1, <1>4, RunsCases
  <2>2. Exists(p.table)
    <3> SUFFICES ASSUME ~Exists(p.table) PROVE FALSE
      OBVIOUS
    <3>1. tx = NoTables
      BY PreparedType
    <3> HIDE DEF t, tx
    <3> QED BY <2>1, <3>1 DEF NoTables
  <2>5. p.op = "select"
    <3>1. p.table \in Tables /\ "" \notin Tables
      BY <2>2, ConstantsAssumption DEF Exists
    <3>2. p.op = "select" \/ p.table = ""
      BY DEF Unlogged
    <3> QED BY <3>1, <3>2
  <2>3. PICK r \in Seen : /\ tx = [NoTables EXCEPT ![p.table] = r]
                          /\ tables[p.table].state \in {"torn", "stuck"} =>
                               r.state = tables[p.table].state
    <3>1. tx = Prepared(p)
      OBVIOUS
    <3> HIDE DEF tx, p
    <3>2. \E r \in Seen :
             /\ Prepared(p) = [NoTables EXCEPT ![p.table] = r]
             /\ p.op \in {"select", "vacuum"} /\ tables[p.table].state \in {"torn", "stuck"} =>
                  r.state = tables[p.table].state
      BY <2>2, PreparedIs
    <3>3. p.op \in {"select", "vacuum"}
      BY <2>5
    <3> HIDE DEF tx
    <3> QED BY <3>1, <3>2, <3>3
  <2>4. t = p.table
    <3> DEFINE u == p.table
    <3> HIDE DEF t, tx, u
    <3>1. tx = [NoTables EXCEPT ![u] = r]
      BY <2>3 DEF u
    <3>2. t # u => tx[t] = Absent
      BY <2>1, <3>1 DEF NoTables
    <3> QED BY <2>1, <3>2 DEF u
  <2>6. tables[t] \in Kept
    BY <2>2, <2>4, PreparedType
  <2>7. tx[t] = r
    <3> HIDE DEF t, tx
    <3> QED BY <2>1, <2>3, <2>4 DEF NoTables
  <2>8. tables[t].state \in States
    BY <2>6 DEF Kept
  <2>9. Exists(t)
    BY <2>2, <2>4
  <2>10. tables[t].state \in {"torn", "stuck"} => r.state = tables[t].state
    BY <2>3, <2>4
  <2>11. r.state \in {"whole", "fresh"}
    BY <2>1, <2>7
  <2> HIDE DEF t
  <2> QED BY <2>1, <2>8, <2>9, <2>10, <2>11 DEF States
<1>7. t # "" => t \in Tables /\ tabs[t] # Absent /\ tabs[t].state \in {"whole", "fresh"}
  <2> SUFFICES ASSUME t # ""
               PROVE  t \in Tables /\ tabs[t] # Absent /\ tabs[t].state \in {"whole", "fresh"}
    OBVIOUS
  <2>1. t \in Tables /\ tables[t] # Absent
    BY <1>6 DEF Exists
  <2>2. /\ tabs[t] # Absent
        /\ tabs[t] = [rows |-> tables[t].rows, view |-> FALSE, state |-> tables[t].state]
    BY <2>1, PlainType
  <2> HIDE DEF t, tabs
  <2> DEFINE y == tabs[t]
             a == tables[t].rows
             b == tables[t].state
  <2>4. y = [rows |-> a, view |-> FALSE, state |-> b]
    BY <2>2
  <2> HIDE DEF y, a, b
  <2>5. y.state = b
    BY <2>4
  <2>3. tabs[t].state = tables[t].state
    BY <2>5 DEF y, b
  <2> QED BY <1>6, <2>1, <2>2, <2>3
<1> HIDE DEF tabs, new, s
<1>8. Runs(tabs, s) /\ Effect(tabs, s) = tabs
  BY <1>1, <1>7, RunsCases, EffectCases
<1> QED BY <1>2, <1>5, <1>8 DEF Ran, s, new, tabs, w

(* A query that is served runs its statement. *)
LEMMA StatementRan ==
  ASSUME Good(tables), Single(tables), NEW q, Served(q), Succeeds(q)
  PROVE  Ran(Sql(SqlStatements(q)[1]), tables, Committed(q))
<1> DEFINE s == Sql(SqlStatements(q)[1])
<1>1. \/ s.verb \in {"INSERT", "CREATE", "DROP", "VACUUM"}
      \/ s.verb = "SELECT" /\ ~Logged(q) /\ Unlogged(q)
  BY Zenon DEF Served, LoggedAs
<1> QED BY <1>1, InsertRan, CreateRan, DropRan, VacuumRan, SelectRan

-----------------------------------------------------------------------------
(***************************************************************************)
(* A statement that stops half-way.                                        *)
(***************************************************************************)
(* A table in another state. *)
Restated(tabs, t, st) == [tabs EXCEPT ![t] = In(tabs[t], st)]

LEMMA PlainState ==
  ASSUME NEW tabs, Good(tabs), NEW t \in Tables, tabs[t] # Absent, NEW st \in States
  PROVE  Plain(Restated(tabs, t, st)) = Restated(Plain(tabs), t, st)
<1> DEFINE k == tabs[t]
           r == In(k, st)
           y == Plain(tabs)[t]
<1>1. << >> \in Seq(Words)
  OBVIOUS
<1>2. /\ k \in Kept /\ y \in Seen
      /\ y = [rows |-> k.rows, view |-> FALSE, state |-> k.state]
  BY PlainType
<1>3. r \in Kept
  BY StateGood
<1>4. Plain([tabs EXCEPT ![t] = r]) =
        [Plain(tabs) EXCEPT ![t] = [rows |-> r.rows, view |-> FALSE, state |-> r.state]]
  <2>1. \A u \in Tables : \A x \in Kept : Plain([tabs EXCEPT ![u] = x]) =
          [Plain(tabs) EXCEPT ![u] = [rows |-> x.rows, view |-> FALSE, state |-> x.state]]
    BY Zenon, PlainExcept
  <2> QED BY Zenon, <1>3, <2>1
<1> HIDE DEF k, y
<1>5. r = [create |-> k.create, rows |-> k.rows, state |-> st]
  BY <1>1, <1>2, OtherRows
<1>6. In(y, st) = [rows |-> y.rows, view |-> y.view, state |-> st]
  BY <1>1, <1>2, OtherRows
<1>7. y.rows = k.rows /\ y.view = FALSE
  BY <1>2
<1> HIDE DEF r
<1>8. r.rows = k.rows /\ r.state = st
  BY <1>5
<1>9. In(y, st) = [rows |-> r.rows, view |-> FALSE, state |-> r.state]
  BY <1>6, <1>7, <1>8
<1>10. Plain([tabs EXCEPT ![t] = r]) = [Plain(tabs) EXCEPT ![t] = In(y, st)]
  BY <1>4, <1>9
<1> QED BY <1>10 DEF r, k, y, Restated

(* What a restart leaves. *)
LEMMA PlainForget ==
  ASSUME NEW tabs, Good(tabs)
  PROVE  Plain(Forget(tabs)) = Forget(Plain(tabs))
<1> DEFINE a == Plain(Forget(tabs))
           b == Forget(Plain(tabs))
           x == Plain(tabs)
<1>1. Good(Forget(tabs))
  BY ForgetGood
<1>2. ASSUME NEW t \in Tables PROVE a[t] = b[t]
  <2>1. Forget(tabs)[t] = IF tabs[t] # Absent /\ tabs[t].state \in Unsaved THEN Absent
                          ELSE tabs[t]
    BY DEF Forget
  <2>2. b[t] = IF x[t] # Absent /\ x[t].state \in Unsaved THEN Absent ELSE x[t]
    BY DEF Forget
  <2>3. CASE tabs[t] = Absent
    <3>1. x[t] = Absent
      BY <2>3, PlainType
    <3>2. a[t] = Absent
      BY <1>1, <2>1, <2>3, PlainType
    <3> QED BY <2>2, <3>1, <3>2
  <2>4. CASE tabs[t] # Absent
    <3> DEFINE k == tabs[t]
               y == x[t]
    <3>1. y # Absent /\ y = [rows |-> k.rows, view |-> FALSE, state |-> k.state]
      BY <2>4, PlainType
    <3>2. k.state \notin Unsaved =>
            a[t] = [rows |-> k.rows, view |-> FALSE, state |-> k.state]
      BY <1>1, <2>1, <2>4, PlainType
    <3>3. k.state \in Unsaved => a[t] = Absent
      BY <1>1, <2>1, <2>4, PlainType
    <3>4. b[t] = IF y # Absent /\ y.state \in Unsaved THEN Absent ELSE y
      BY <2>2
    <3> HIDE DEF y, a, b, k
    <3>5. y.state = k.state
      BY <3>1
    <3> QED BY <3>1, <3>2, <3>3, <3>4, <3>5
  <2> QED BY <2>3, <2>4
<1>3. a = [t \in Tables |-> a[t]] /\ b = [t \in Tables |-> b[t]]
  BY DEF Plain, Forget
<1> HIDE DEF a, b
<1>4. a = b
  BY <1>2, <1>3
<1> QED BY <1>4 DEF a, b

(* What a statement may leave that stops, by its verb. *)
LEMMA PartialCases ==
  ASSUME NEW tx, NEW s, s.table \in Tables
  PROVE  LET t == s.table
             new == Effect(tx, s)
         IN /\ s.verb = "CREATE" /\ tx[t] = Absent =>
                 Partial(tx, s) = [new EXCEPT ![t] = In(new[t], "fresh")]
            /\ s.verb \in {"INSERT", "VACUUM"} /\ tx[t] # Absent /\ tx[t].state \in Unsaved =>
                 Partial(tx, s) = [new EXCEPT ![t] = In(new[t], "stuck")]
            /\ s.verb = "DROP" /\ tx[t] # Absent /\ tx[t].state \notin Unsaved =>
                 Partial(tx, s) = [tx EXCEPT ![t] = In(tx[t], "torn")]
<1> DEFINE t == s.table
           new == Effect(tx, s)
<1>1. s.verb = "CREATE" /\ tx[t] = Absent =>
        Partial(tx, s) = [new EXCEPT ![t] = In(new[t], "fresh")]
  BY Zenon DEF Partial
<1>2. s.verb \in {"INSERT", "VACUUM"} /\ tx[t] # Absent /\ tx[t].state \in Unsaved =>
        Partial(tx, s) = [new EXCEPT ![t] = In(new[t], "stuck")]
  BY Zenon DEF Partial
<1>3. s.verb = "DROP" /\ tx[t] # Absent /\ tx[t].state \notin Unsaved =>
        Partial(tx, s) = [tx EXCEPT ![t] = In(tx[t], "torn")]
  BY Zenon DEF Partial
<1> QED BY <1>1, <1>2, <1>3

(* The table of a CREATE, INSERT or VACUUM is there after it. *)
LEMMA CommitMakes ==
  ASSUME Good(tables), NEW q \in Seq(Words), Succeeds(q), Parse(q).table \in Tables,
         Parse(q).op \in {"create_table", "insert", "vacuum"}
  PROVE  Committed(q)[Parse(q).table] # Absent
<1> DEFINE t == Parse(q).table
           new == Committed(q)
<1>0. tables \in [Tables -> {Absent} \cup Kept]
  BY DEF Good
<1>1. CASE new = tables /\ Exists(t)
  BY <1>1 DEF Exists
<1>2. ASSUME NEW r \in Kept, new = [tables EXCEPT ![t] = r]
      PROVE  new[t] # Absent
  <2>1. t \in Tables
    OBVIOUS
  <2> HIDE DEF t, new
  <2> QED BY <1>0, <1>2, <2>1, AbsentApart
<1>3. CASE Parse(q).op = "create_table"
  <2> DEFINE r == [create |-> q, rows |-> << >>, state |-> "whole"]
  <2>1. new = IF Exists(t) THEN tables ELSE [tables EXCEPT ![t] = r]
    BY <1>3, CommittedCases
  <2>2. r \in Kept
    BY DEF Kept, States
  <2> HIDE DEF r, t, new
  <2> QED BY <1>1, <1>2, <2>1, <2>2 DEF t, new
<1>4. \A x : Exported(x) \in States
  BY DEF Exported, States
<1>5. CASE Parse(q).op = "insert"
  <2> DEFINE v == Effects(Prepared(Parse(q)), SqlStatements(q))[t]
             r == [create |-> tables[t].create, rows |-> tables[t].rows \o v.rows,
                   state |-> Exported(tables[t].state)]
  <2>1. tables[t] \in Kept /\ v \in Seen /\ new = [tables EXCEPT ![t] = r]
    BY <1>5, InsertCommit
  <2> HIDE DEF t, v, new
  <2>2. r \in Kept
    BY <1>4, <2>1 DEF Kept, Seen
  <2> HIDE DEF r
  <2> QED BY <1>2, <2>1, <2>2 DEF t, new
<1>6. CASE Parse(q).op = "vacuum"
  <2> DEFINE v == Prepared(Parse(q))[t]
             r == [create |-> tables[t].create, rows |-> v.rows,
                   state |-> Exported(tables[t].state)]
  <2>1. tables[t] \in Kept /\ v \in Seen /\ new = [tables EXCEPT ![t] = r]
    BY <1>6, VacuumCommit
  <2> HIDE DEF t, v, new
  <2>2. r \in Kept
    BY <1>4, <2>1 DEF Kept, Seen
  <2> HIDE DEF r
  <2> QED BY <1>2, <2>1, <2>2 DEF t, new
<1> QED BY <1>3, <1>5, <1>6

(* A query that is served leaves half-way what Partial says of its         *)
(* statement, or stops before or after it.                                 *)
LEMMA HalfRan ==
  ASSUME Good(tables), Single(tables), NEW q, Served(q), Succeeds(q)
  PROVE  LET s == Sql(SqlStatements(q)[1])
         IN Plain(HalfDone(q)) \in
              {Plain(tables), Effect(Plain(tables), s), Partial(Plain(tables), s)}
<1> DEFINE s == Sql(SqlStatements(q)[1])
           p == Parse(q)
           t == p.table
           new == Committed(q)
           x == Plain(tables)
           half == HalfDone(q)
<1>1. q \in Seq(Words) /\ Good(new)
  BY CommitGood DEF Served
<1>2. Plain(new) = Effect(x, s)
  BY StatementRan DEF Ran
<1>3. CASE half \in {tables, new}
  BY <1>2, <1>3
<1>4. CASE t \notin Tables \/ ~Logged(q)
  BY <1>3, <1>4, HalfDoneCases
<1>5. Logged(q) /\ t \in Tables =>
        LoggedAs(q, s) /\ s.table = t /\ p.op = OpOf(s.verb)
  BY Zenon DEF Served, LoggedAs
<1>6. {"torn", "fresh", "stuck"} \subseteq States
  BY DEF States
<1>7. t \in Tables /\ tables[t] # Absent => x[t] # Absent /\ x[t].state = tables[t].state
  <2> SUFFICES ASSUME t \in Tables, tables[t] # Absent
               PROVE  x[t] # Absent /\ x[t].state = tables[t].state
    OBVIOUS
  <2> DEFINE y == x[t]
             a == tables[t].rows
             b == tables[t].state
  <2>1. y # Absent /\ y = [rows |-> a, view |-> FALSE, state |-> b]
    BY PlainType
  <2> HIDE DEF y, a, b
  <2>2. y.state = b
    BY <2>1
  <2> QED BY <2>1, <2>2 DEF y, b
<1>8. t \in Tables /\ tables[t] = Absent => x[t] = Absent
  BY PlainType
<1>9. CASE t \in Tables /\ p.op = "create_table"
  <2>1. s.verb = "CREATE" /\ s.table = t
    BY <1>5, <1>9 DEF OpOf, LoggedAs, Logged
  <2>2. CASE Exists(t)
    BY <1>3, <1>9, <2>2, HalfDoneCases
  <2>3. CASE ~Exists(t)
    <3>1. half = Restated(new, t, "fresh")
      BY <1>9, <2>3, HalfDoneCases DEF Restated
    <3>2. new[t] # Absent
      BY <1>1, <1>9, CommitMakes
    <3>3. x[t] = Absent
      BY <1>8, <1>9, <2>3 DEF Exists
    <3> HIDE DEF x, new, t, s, half
    <3>4. Plain(half) = Restated(Plain(new), t, "fresh")
      <4>1. "fresh" \in States /\ t \in Tables /\ Good(new)
        BY <1>1, <1>6, <1>9
      <4> QED BY <3>1, <3>2, <4>1, PlainState
    <3>5. Partial(x, s) = Restated(Effect(x, s), t, "fresh")
      BY <1>9, <2>1, <3>3, PartialCases DEF Restated
    <3>6. Plain(half) = Partial(x, s)
      BY <1>2, <3>4, <3>5
    <3> QED BY <3>6 DEF half, x, s
  <2> QED BY <2>2, <2>3
<1>10. CASE t \in Tables /\ p.op \in {"insert", "vacuum"}
  <2>1. s.verb \in {"INSERT", "VACUUM"} /\ s.table = t
    BY <1>5, <1>10 DEF OpOf, LoggedAs, Logged
  <2>2. CASE ~(Exists(t) /\ ~Saved(t))
    BY <1>3, <1>10, <2>2, HalfDoneCases
  <2>3. CASE Exists(t) /\ ~Saved(t)
    <3>1. half = Restated(new, t, "stuck")
      BY <1>10, <2>3, HalfDoneCases DEF Restated
    <3>2. new[t] # Absent
      BY <1>1, <1>10, CommitMakes
    <3>3. x[t] # Absent /\ x[t].state \in Unsaved
      BY <1>7, <1>10, <2>3 DEF Exists, Saved
    <3> HIDE DEF x, new, t, s, half
    <3>4. Plain(half) = Restated(Plain(new), t, "stuck")
      <4>1. "stuck" \in States /\ t \in Tables /\ Good(new)
        BY <1>1, <1>6, <1>10
      <4> QED BY <3>1, <3>2, <4>1, PlainState
    <3>5. Partial(x, s) = Restated(Effect(x, s), t, "stuck")
      BY <1>10, <2>1, <3>3, PartialCases DEF Restated
    <3>6. Plain(half) = Partial(x, s)
      BY <1>2, <3>4, <3>5
    <3> QED BY <3>6 DEF half, x, s
  <2> QED BY <2>2, <2>3
<1>11. CASE t \in Tables /\ p.op = "drop_table"
  <2>1. s.verb = "DROP" /\ s.table = t
    BY <1>5, <1>11 DEF OpOf, LoggedAs, Logged
  <2>2. CASE ~Saved(t)
    BY <1>3, <1>11, <2>2, HalfDoneCases
  <2>3. CASE Saved(t)
    <3>1. half = Restated(tables, t, "torn")
      BY <1>11, <2>3, HalfDoneCases DEF Restated
    <3>2. tables[t] # Absent
      BY <2>3 DEF Saved, Exists
    <3>3. x[t] # Absent /\ x[t].state \notin Unsaved
      BY <1>7, <1>11, <2>3 DEF Exists, Saved
    <3>4. Plain(half) = Restated(x, t, "torn")
      <4>1. "torn" \in States /\ t \in Tables /\ Good(tables)
        BY <1>6, <1>11
      <4> HIDE DEF t, half
      <4> QED BY <3>1, <3>2, <4>1, PlainState
    <3> HIDE DEF x, t, s, half
    <3>5. Partial(x, s) = Restated(x, t, "torn")
      BY <1>11, <2>1, <3>3, PartialCases DEF Restated
    <3>6. Plain(half) = Partial(x, s)
      BY <3>4, <3>5
    <3> QED BY <3>6 DEF half, x, s
  <2> QED BY <2>2, <2>3
<1> QED BY <1>4, <1>9, <1>10, <1>11 DEF Logged

-----------------------------------------------------------------------------
(***************************************************************************)
(* The queries of a body can be run.                                       *)
(***************************************************************************)
(* A query that is run: it has no statement and is not logged, or it is    *)
(* served.                                                                 *)
Runnable(q) ==
  /\ q \in Seq(Words)
  /\ (SqlStatements(q) = << >> /\ ~Logged(q)) \/ Served(q)

(* What handleQuery makes of a body. *)
QueriesOf(body) == IF splitting THEN SplitNonEmptyQueries(body) ELSE <<Trim(body)>>

(* A body that may be sent: splitting, or one statement that a comment or  *)
(* semicolon does not precede.                                             *)
Readable(body) ==
  /\ ~SemicolonInComment(body)
  /\ \/ splitting
     \/ /\ Len(SqlStatements(body)) <= 1
        /\ Trim(body) # << >> => Trim(body)[1] \notin {"--", ";"}

(* At most one and not none. *)
LEMMA AtMostOne ==
  ASSUME NEW X
  PROVE  \A c \in Seq(X) : c # << >> /\ Len(c) <= 1 => Len(c) = 1
<1>1. \A c \in Seq(X) : Len(c) \in Nat /\ (c # << >> => Len(c) # 0)
  OBVIOUS
<1>2. \A k \in Nat : k # 0 /\ k <= 1 => k = 1
  OBVIOUS
<1> QED BY Zenon, <1>1, <1>2

(* Without splitting, the body is the query. *)
LEMMA WholeQuery ==
  ASSUME NEW body \in Bodies, ~SemicolonInComment(body), Len(SqlStatements(body)) <= 1,
         Trim(body) # << >> => Trim(body)[1] \notin {"--", ";"}
  PROVE  Runnable(Trim(body)) /\ SqlStatements(Trim(body)) = SqlStatements(body)
<1> DEFINE X == Words
           q == Trim(body)
           w == SqlStatements(q)
           s == Sql(w[1])
<1>1. body \in Seq(X) /\ Marked(X)
  BY BodiesAssumption, MarkedWords DEF Words
<1> HIDE DEF X
<1>2. q \in Seq(X) /\ (q # << >> => q[1] # "NL")
  BY <1>1, TrimLaws
<1>3. w = SqlStatements(body)
  BY <1>1, TrimKeeps DEF Marked
<1>4. Known(q)
  BY BodiesAssumption
<1>5. w \in Seq(Seq(X))
  BY <1>1, <1>2, SqlLaws
<1>6. Len(w) <= 1 /\ (q # << >> => q[1] \notin {"--", ";"})
  BY <1>3
<1>7. CASE q = << >>
  <2>1. w = << >>
    BY <1>1, <1>7, SqlLaws
  <2>2. Blind(q) = << >>
    BY <1>7, WithoutLaws DEF Blind
  <2>3. ~Logged(q)
    BY <1>1, <1>2, <2>2, ParseOther
  <2> QED BY <1>2, <1>3, <2>1, <2>3 DEF Runnable, X
<1>8. CASE q # << >>
  <2>1. \/ w # << >> /\ s.verb = "SELECT" /\ ~Logged(q) /\ Unlogged(q)
        \/ w # << >> /\ LoggedAs(q, s)
    BY Zenon, <1>1, <1>2, <1>4, <1>6, <1>8, QueryKinds
  <2>2. Len(w) = 1
    <3>1. w # << >>
      BY <2>1
    <3> QED BY Zenon, <1>5, <1>6, <3>1, AtMostOne
  <2> HIDE DEF w, s
  <2>3. LoggedAs(q, s) \/ (s.verb = "SELECT" /\ ~Logged(q) /\ Unlogged(q))
    BY <2>1
  <2>4. Served(q)
    BY <1>2, <2>2, <2>3 DEF Served, s, w, X
  <2> QED BY <1>2, <1>3, <2>4 DEF Runnable, X, w
<1> QED BY <1>7, <1>8

(* The queries of a readable body can be run, and hold its statements.     *)
LEMMA QueriesRunnable ==
  ASSUME NEW body \in Bodies, Readable(body)
  PROVE  LET queries == QueriesOf(body) IN
         /\ queries \in Seq(Seq(Words))
         /\ \A i \in 1 .. Len(queries) : Runnable(queries[i])
         /\ FlatSql(queries) = SqlStatements(body)
<1>1. body \in Seq(Words)
  BY BodyRead
<1>2. CASE splitting
  <2> DEFINE queries == SplitNonEmptyQueries(body)
  <2>1. queries = QueriesOf(body)
    BY <1>2 DEF QueriesOf
  <2>2. ~SemicolonInComment(body)
    BY DEF Readable
  <2>3. queries \in Seq(Seq(Words)) /\ FlatSql(queries) = SqlStatements(body)
    BY <2>2, BodyQueries, BodyRead DEF Reads
  <2>4. ASSUME NEW i \in 1 .. Len(queries) PROVE Runnable(queries[i])
    <3> DEFINE q == queries[i]
               w == SqlStatements(q)
               s == Sql(w[1])
    <3>1. q \in ToSet(queries)
      <4> HIDE DEF queries
      <4> QED BY <2>3, <2>4 DEF ToSet
    <3> HIDE DEF q
    <3>2. /\ q \in Seq(Words)
          /\ \/ w = << >> /\ ~Logged(q)
             \/ /\ w # << >> /\ Len(w) = 1
                /\ \/ s.verb = "SELECT" /\ ~Logged(q) /\ Unlogged(q)
                   \/ LoggedAs(q, s) /\ Logged(q) /\ Parse(q).table = s.table
      BY Zenon, <2>2, <3>1, SplitQuery
    <3>3. Runnable(q)
      BY <3>2 DEF Runnable, Served
    <3> QED BY <3>3 DEF q
  <2> QED BY <2>1, <2>3, <2>4
<1>3. CASE ~splitting
  <2> DEFINE q == Trim(body)
  <2>1. QueriesOf(body) = <<q>>
    BY <1>3 DEF QueriesOf
  <2>2. Runnable(q) /\ SqlStatements(q) = SqlStatements(body)
    BY <1>3, WholeQuery DEF Readable
  <2>3. q \in Seq(Words)
    BY <2>2 DEF Runnable
  <2>4. FlatSql(<<q>>) = SqlStatements(body)
    BY <2>2, <2>3, MarkedWords, FlatSqlLaws
  <2> HIDE DEF q
  <2>5. <<q>> \in Seq(Seq(Words)) /\ \A i \in 1 .. Len(<<q>>) : <<q>>[i] = q
    <3> DEFINE Z == Seq(Words)
    <3> HIDE DEF Z
    <3>1. q \in Z
      BY <2>3 DEF Z
    <3>2. <<q>> \in Seq(Z) /\ \A i \in 1 .. Len(<<q>>) : <<q>>[i] = q
      BY <3>1
    <3> QED BY <3>2 DEF Z
  <2> QED BY <2>1, <2>2, <2>4, <2>5
<1> QED BY <1>2, <1>3

-----------------------------------------------------------------------------
(***************************************************************************)
(* Between two statements of a request.                                    *)
(***************************************************************************)
(* The statements w ran on tx, all but a DROP of a missing table. *)
AllDone(tx, w) ==
  \A i \in 1 .. Len(w) :
    \/ Sql(w[i]).verb = "DROP"
    \/ Runs(Effects(tx, SubSeq(w, 1, i - 1)), Sql(w[i]))

(* tabs is what the statements asked made of from, but for the last ones,  *)
(* which are left.                                                         *)
Halfway(tabs, from, asked, left) ==
  \E done \in Seq(Seq(Words)) :
    /\ asked = done \o left
    /\ Plain(tabs) = Effects(Plain(from), done)
    /\ AllDone(Plain(from), done)

(* What is left says how many statements ran. *)
Underway(tabs, from, asked, left) ==
  /\ Len(left) <= Len(asked)
  /\ Plain(tabs) = Effects(Plain(from), SubSeq(asked, 1, Len(asked) - Len(left)))

(* The first statements asked make x of from, with what the next leaves.   *)
LeftBy(x, from, asked) ==
  \E n \in 0 .. Len(asked) :
    x = First(Plain(from), asked, n) \/ x = FirstAndPartial(Plain(from), asked, n)

(* What an answer says of the tables, and the loss of a server. *)
Ended(tabs, from, asked, code) ==
  IF code = 200
  THEN Plain(tabs) = Effects(Plain(from), asked) /\ AllDone(Plain(from), asked)
  ELSE IF code = 0
  THEN \E x : LeftBy(x, from, asked) /\ Plain(tabs) = Forget(x)
  ELSE LeftBy(Plain(tabs), from, asked)

(* The first elements of a sequence. *)
LEMMA FirstPart ==
  ASSUME NEW X, NEW a \in Seq(X), NEW b \in Seq(X)
  PROVE  /\ Len(b) <= Len(a \o b) /\ Len(a) = Len(a \o b) - Len(b)
         /\ Len(a) \in 0 .. Len(a \o b)
         /\ SubSeq(a \o b, 1, Len(a)) = a
<1> DEFINE c == a \o b
           d == SubSeq(c, 1, Len(a))
<1>1. /\ c \in Seq(X) /\ Len(c) = Len(a) + Len(b) /\ Len(a) \in Nat /\ Len(b) \in Nat
      /\ \A i \in 1 .. Len(a) : c[i] = a[i]
  OBVIOUS
<1> HIDE DEF c
<1>2. d \in Seq(X) /\ Len(d) = Len(a) /\ \A i \in 1 .. Len(a) : d[i] = c[i]
  BY <1>1
<1> HIDE DEF d
<1>3. d = a
  BY <1>1, <1>2, SeqEqual
<1> QED BY <1>1, <1>3 DEF c, d

(* The first elements of one more. *)
LEMMA FirstOfMore ==
  ASSUME NEW X, NEW a \in Seq(X), NEW y \in X
  PROVE  /\ Append(a, y) \in Seq(X)
         /\ \A i \in 1 .. Len(Append(a, y)) :
              \/ /\ i \in 1 .. Len(a) /\ Append(a, y)[i] = a[i]
                 /\ SubSeq(Append(a, y), 1, i - 1) = SubSeq(a, 1, i - 1)
              \/ /\ i = Len(a) + 1 /\ Append(a, y)[i] = y
                 /\ SubSeq(Append(a, y), 1, i - 1) = a
<1> DEFINE c == Append(a, y)
<1>1. /\ c \in Seq(X) /\ Len(c) = Len(a) + 1 /\ Len(a) \in Nat
      /\ c[Len(a) + 1] = y /\ \A i \in 1 .. Len(a) : c[i] = a[i]
  OBVIOUS
<1> HIDE DEF c
<1>2. ASSUME NEW i \in 1 .. Len(a)
      PROVE  SubSeq(c, 1, i - 1) = SubSeq(a, 1, i - 1)
  <2> DEFINE u == SubSeq(c, 1, i - 1)
             v == SubSeq(a, 1, i - 1)
  <2>1. u \in Seq(X) /\ Len(u) = i - 1 /\ \A j \in 1 .. i - 1 : u[j] = c[j]
    BY <1>1
  <2>2. v \in Seq(X) /\ Len(v) = i - 1 /\ \A j \in 1 .. i - 1 : v[j] = a[j]
    BY <1>1
  <2>3. \A j \in 1 .. i - 1 : j \in 1 .. Len(a)
    BY <1>1
  <2> HIDE DEF u, v
  <2>4. u = v
    BY <1>1, <2>1, <2>2, <2>3, SeqEqual
  <2> QED BY <2>4 DEF u, v
<1>3. SubSeq(c, 1, Len(a)) = a
  <2> DEFINE u == SubSeq(c, 1, Len(a))
  <2>1. u \in Seq(X) /\ Len(u) = Len(a) /\ \A j \in 1 .. Len(a) : u[j] = c[j]
    BY <1>1
  <2> HIDE DEF u
  <2>2. u = a
    BY <1>1, <2>1, SeqEqual
  <2> QED BY <2>2 DEF u
<1>4. ASSUME NEW i \in 1 .. Len(c)
      PROVE  i \in 1 .. Len(a) \/ (i = Len(a) + 1 /\ i - 1 = Len(a))
  BY <1>1
<1>5. ASSUME NEW i \in 1 .. Len(c)
      PROVE  \/ /\ i \in 1 .. Len(a) /\ c[i] = a[i]
                /\ SubSeq(c, 1, i - 1) = SubSeq(a, 1, i - 1)
             \/ /\ i = Len(a) + 1 /\ c[i] = y
                /\ SubSeq(c, 1, i - 1) = a
  <2>1. CASE i \in 1 .. Len(a)
    BY <1>1, <1>2, <2>1
  <2>2. CASE i = Len(a) + 1 /\ i - 1 = Len(a)
    BY <1>1, <1>3, <2>2
  <2> QED BY <1>4, <2>1, <2>2
<1> QED BY <1>1, <1>5 DEF c

(* One more statement ran. *)
LEMMA DoneMore ==
  ASSUME NEW tx, NEW w \in Seq(Seq(Words)), NEW y \in Seq(Words), AllDone(tx, w),
         Sql(y).verb = "DROP" \/ Runs(Effects(tx, w), Sql(y))
  PROVE  AllDone(tx, Append(w, y))
<1> DEFINE c == Append(w, y)
<1> SUFFICES ASSUME NEW i \in 1 .. Len(c)
             PROVE  \/ Sql(c[i]).verb = "DROP"
                    \/ Runs(Effects(tx, SubSeq(c, 1, i - 1)), Sql(c[i]))
  BY DEF AllDone
<1>1. \/ /\ i \in 1 .. Len(w) /\ c[i] = w[i]
         /\ SubSeq(c, 1, i - 1) = SubSeq(w, 1, i - 1)
      \/ /\ i = Len(w) + 1 /\ c[i] = y
         /\ SubSeq(c, 1, i - 1) = w
  BY FirstOfMore
<1> DEFINE v == SubSeq(c, 1, i - 1)
           u == SubSeq(w, 1, i - 1)
           x == c[i]
<1>2. i \in 1 .. Len(w) => Sql(w[i]).verb = "DROP" \/ Runs(Effects(tx, u), Sql(w[i]))
  BY DEF AllDone
<1>3. (i \in 1 .. Len(w) /\ x = w[i] /\ v = u) \/ (x = y /\ v = w)
  BY <1>1
<1> HIDE DEF v, u, x, c
<1>4. Sql(x).verb = "DROP" \/ Runs(Effects(tx, v), Sql(x))
  BY <1>2, <1>3
<1> QED BY <1>4 DEF v, x

(* One more statement done is one less to do. *)
LEMMA AppendThenRest ==
  ASSUME NEW S, NEW s \in Seq(S), NEW e \in S, NEW t \in Seq(S)
  PROVE  s \o (<<e>> \o t) = Append(s, e) \o t /\ Append(s, e) \in Seq(S)
<1>1. <<e>> \in Seq(S) /\ Append(s, e) \in Seq(S)
  OBVIOUS
<1>2. (s \o <<e>>) \o t = s \o (<<e>> \o t)
  BY <1>1, ConcatAssociative
<1>3. s \o <<e>> = Append(s, e)
  OBVIOUS
<1> QED BY Zenon, <1>1, <1>2, <1>3

(* From before a statement to after it. *)
LEMMA HalfwayStep ==
  ASSUME NEW tabs, NEW from, Good(from), NEW asked, NEW y \in Seq(Words),
         NEW left \in Seq(Seq(Words)), Halfway(tabs, from, asked, <<y>> \o left),
         NEW new, Ran(Sql(y), tabs, new)
  PROVE  Halfway(new, from, asked, left)
<1> DEFINE tx == Plain(from)
           Z == Seq(Words)
<1>1. PICK done \in Seq(Seq(Words)) :
        /\ asked = done \o (<<y>> \o left)
        /\ Plain(tabs) = Effects(tx, done)
        /\ AllDone(tx, done)
  BY DEF Halfway
<1>2. tx \in Tx
  BY PlainType
<1> HIDE DEF tx
<1>3. Effects(tx, Append(done, y)) = Effect(Plain(tabs), Sql(y))
  BY <1>1, <1>2, EffectsLaws DEF Then
<1>4. Plain(new) = Effects(tx, Append(done, y))
  BY <1>3 DEF Ran
<1>5. AllDone(tx, Append(done, y))
  BY <1>1, DoneMore DEF Ran
<1>6. asked = Append(done, y) \o left /\ Append(done, y) \in Seq(Seq(Words))
  <2>1. done \in Seq(Z) /\ left \in Seq(Z) /\ y \in Z
    OBVIOUS
  <2> HIDE DEF Z
  <2>2. done \o (<<y>> \o left) = Append(done, y) \o left /\ Append(done, y) \in Seq(Z)
    BY Zenon, <2>1, AppendThenRest
  <2> QED BY <1>1, <2>2 DEF Z
<1> QED BY <1>4, <1>5, <1>6 DEF Halfway, tx

(* Where the tables stand between two statements. *)
LEMMA HalfwayMeans ==
  ASSUME NEW tabs, NEW from, NEW asked \in Seq(Seq(Words)), NEW left \in Seq(Seq(Words)),
         Halfway(tabs, from, asked, left)
  PROVE  /\ Underway(tabs, from, asked, left)
         /\ LeftBy(Plain(tabs), from, asked)
         /\ left = << >> => Ended(tabs, from, asked, 200)
<1>1. PICK done \in Seq(Seq(Words)) :
        /\ asked = done \o left
        /\ Plain(tabs) = Effects(Plain(from), done)
        /\ AllDone(Plain(from), done)
  BY DEF Halfway
<1> DEFINE Z == Seq(Words)
<1>2. done \in Seq(Z) /\ left \in Seq(Z)
  OBVIOUS
<1> HIDE DEF Z
<1>3. /\ Len(left) <= Len(asked) /\ Len(done) = Len(asked) - Len(left)
      /\ Len(done) \in 0 .. Len(asked)
      /\ SubSeq(asked, 1, Len(done)) = done
  BY Zenon, <1>1, <1>2, FirstPart
<1>4. left = << >> => asked = done
  BY <1>1, <1>2, ConcatAppend
<1>5. Underway(tabs, from, asked, left)
  BY Zenon, <1>1, <1>3 DEF Underway
<1>6. \E n \in 0 .. Len(asked) : Plain(tabs) = First(Plain(from), asked, n)
  BY Zenon, <1>1, <1>3 DEF First
<1>7. left = << >> => Plain(tabs) = Effects(Plain(from), asked) /\ AllDone(Plain(from), asked)
  BY Zenon, <1>1, <1>4
<1>8. LeftBy(Plain(tabs), from, asked)
  BY Zenon, <1>6 DEF LeftBy
<1>9. left = << >> => Ended(tabs, from, asked, 200)
  BY Zenon, <1>7 DEF Ended
<1> QED BY <1>5, <1>8, <1>9

(* The first element of what follows. *)
LEMMA NextOf ==
  ASSUME NEW Z, NEW a \in Seq(Z), NEW b \in Seq(Z), Len(b) > 0, NEW c, c = a \o b
  PROVE  Len(a) < Len(c) /\ c[Len(a) + 1] = b[1]
<1>1. Len(a) \in Nat /\ Len(b) \in Nat
  OBVIOUS
<1> QED BY <1>1

(* The next statement stops half-way. *)
LEMMA HalfwayPartial ==
  ASSUME NEW tabs, NEW from, NEW asked, NEW y \in Seq(Words), NEW left \in Seq(Seq(Words)),
         Halfway(tabs, from, asked, <<y>> \o left)
  PROVE  LeftBy(Partial(Plain(tabs), Sql(y)), from, asked)
<1> DEFINE Z == Seq(Words)
<1>1. PICK done \in Seq(Seq(Words)) :
        /\ asked = done \o (<<y>> \o left)
        /\ Plain(tabs) = Effects(Plain(from), done)
  BY DEF Halfway
<1>2. done \in Seq(Z) /\ left \in Seq(Z) /\ y \in Z
  OBVIOUS
<1> HIDE DEF Z
<1>3. /\ <<y>> \o left \in Seq(Z) /\ Len(done) < Len(asked) /\ asked[Len(done) + 1] = y
  <2> DEFINE c == <<y>> \o left
  <2>1. <<y>> \in Seq(Z)
    BY <1>2
  <2>2. c \in Seq(Z) /\ Len(c) > 0 /\ c[1] = y
    BY <1>2, <2>1
  <2>3. asked = done \o c
    BY <1>1
  <2> HIDE DEF c
  <2>4. Len(done) < Len(asked) /\ asked[Len(done) + 1] = c[1]
    BY Zenon, <1>2, <2>2, <2>3, NextOf
  <2> QED BY <2>2, <2>4 DEF c
<1>4. Len(done) \in 0 .. Len(asked) /\ SubSeq(asked, 1, Len(done)) = done
  BY Zenon, <1>1, <1>2, <1>3, FirstPart
<1>5. First(Plain(from), asked, Len(done)) = Plain(tabs)
  BY Zenon, <1>1, <1>4 DEF First
<1>6. FirstAndPartial(Plain(from), asked, Len(done)) = Partial(Plain(tabs), Sql(y))
  BY Zenon, <1>3, <1>5 DEF FirstAndPartial
<1> QED BY Zenon, <1>4, <1>6 DEF LeftBy

(* The beginning. *)
LEMMA HalfwayStart ==
  ASSUME NEW tabs, Good(tabs), NEW asked \in Seq(Seq(Words))
  PROVE  /\ Halfway(tabs, tabs, asked, asked)
         /\ Plain(tabs) = Effects(Plain(tabs), SubSeq(asked, 1, 0))
         /\ Effects(Plain(tabs), << >>) = Plain(tabs)
         /\ AllDone(Plain(tabs), << >>)
<1> DEFINE Z == Seq(Words)
<1>1. asked \in Seq(Z)
  OBVIOUS
<1> HIDE DEF Z
<1>2. << >> \in Seq(Z) /\ << >> \o asked = asked /\ SubSeq(asked, 1, 0) = << >>
  BY <1>1, ConcatEmptySeq
<1>3. Effects(Plain(tabs), << >>) = Plain(tabs)
  BY PlainType, EffectsLaws
<1>4. AllDone(Plain(tabs), << >>)
  <2>1. 1 .. Len(<< >>) = {}
    OBVIOUS
  <2> QED BY <2>1 DEF AllDone
<1> QED BY <1>2, <1>3, <1>4 DEF Halfway, Z

(* The first of several. *)
LEMMA FirstApart ==
  ASSUME NEW Z, NEW s \in Seq(Z), s # << >>
  PROVE  /\ Head(s) \in Z /\ Tail(s) \in Seq(Z) /\ Head(s) = s[1] /\ 1 \in 1 .. Len(s)
         /\ s = <<Head(s)>> \o Tail(s) /\ <<Head(s)>> \in Seq(Z)
         /\ \A i \in 1 .. Len(Tail(s)) : i + 1 \in 1 .. Len(s) /\ Tail(s)[i] = s[i + 1]
<1>1. /\ Head(s) \in Z /\ Tail(s) \in Seq(Z) /\ Head(s) = s[1]
      /\ Len(s) \in Nat /\ Len(Tail(s)) = Len(s) - 1
      /\ \A i \in 1 .. Len(Tail(s)) : Tail(s)[i] = s[i + 1]
  OBVIOUS
<1>2. Len(s) # 0
  OBVIOUS
<1>3. 1 \in 1 .. Len(s) /\ \A i \in 1 .. Len(Tail(s)) : i + 1 \in 1 .. Len(s)
  BY <1>1, <1>2
<1>4. <<Head(s)>> \in Seq(Z)
  BY <1>1
<1>5. s = <<Head(s)>> \o Tail(s)
  <2> DEFINE c == <<Head(s)>> \o Tail(s)
  <2>1. /\ c \in Seq(Z) /\ Len(c) = 1 + Len(Tail(s)) /\ c[1] = Head(s)
        /\ \A i \in 1 .. Len(Tail(s)) : c[i + 1] = Tail(s)[i]
    BY <1>1, <1>4
  <2>2. Len(c) = Len(s)
    BY <1>1, <1>3, <2>1
  <2>3. ASSUME NEW i \in 1 .. Len(s) PROVE c[i] = s[i]
    <3>1. CASE i = 1
      BY <1>1, <2>1, <3>1
    <3>2. CASE i # 1
      <4>1. i - 1 \in 1 .. Len(Tail(s)) /\ (i - 1) + 1 = i
        BY <1>1, <3>2
      <4> QED BY <1>1, <2>1, <4>1
    <3> QED BY <3>1, <3>2
  <2> HIDE DEF c
  <2>4. c = s
    BY <2>1, <2>2, <2>3, SeqEqual
  <2> QED BY <2>4 DEF c
<1> QED BY <1>1, <1>3, <1>4, <1>5

(* A query that succeeds takes its statement from those that are left. *)
LEMMA QueryRan ==
  ASSUME Good(tables), Good(before), Single(tables), queue \in Seq(Seq(Words)),
         queue # << >>, \A i \in 1 .. Len(queue) : Runnable(queue[i]),
         Succeeds(Head(queue)), NEW asked \in Seq(Seq(Words)),
         Halfway(tables, before, asked, FlatSql(queue))
  PROVE  /\ Single(Committed(Head(queue)))
         /\ Halfway(Committed(Head(queue)), before, asked, FlatSql(Tail(queue)))
         /\ \A i \in 1 .. Len(Tail(queue)) : Runnable(Tail(queue)[i])
         /\ \A x \in Interrupted(Head(queue)) : LeftBy(Plain(x), before, asked)
<1> DEFINE Z == Seq(Words)
           h == Head(queue)
           r == Tail(queue)
           w == SqlStatements(h)
           left == FlatSql(r)
           new == Committed(h)
<1>1. /\ h \in Z /\ r \in Seq(Z) /\ Runnable(h) /\ queue = <<h>> \o r /\ <<h>> \in Seq(Z)
      /\ \A i \in 1 .. Len(r) : Runnable(r[i])
  <2>1. queue \in Seq(Z)
    OBVIOUS
  <2> HIDE DEF Z
  <2> QED BY <2>1, FirstApart
<1> HIDE DEF h, r
<1>2. left \in Seq(Z)
  BY <1>1, MarkedWords, FlatSqlStep
<1>3. FlatSql(queue) = w \o left
  <2>1. FlatSql(<<h>> \o r) = FlatSql(<<h>>) \o FlatSql(r)
    BY <1>1, MarkedWords, FlatSqlLaws
  <2>2. FlatSql(<<h>>) = w
    BY <1>1, MarkedWords, FlatSqlLaws
  <2> QED BY <1>1, <2>1, <2>2
<1>0. LeftBy(Plain(tables), before, asked)
  <2>1. FlatSql(queue) \in Seq(Seq(Words))
    BY MarkedWords, FlatSqlStep
  <2> QED BY <2>1, HalfwayMeans
<1>4. CASE w = << >> /\ ~Logged(h)
  <2>1. new = tables /\ HalfDone(h) = tables
    BY <1>4, CommittedCases, HalfDoneCases
  <2>3. \A x \in Interrupted(h) : LeftBy(Plain(x), before, asked)
    BY <1>0, <2>1 DEF Interrupted, Outcomes, HalfDone
  <2> HIDE DEF left, new
  <2>2. FlatSql(queue) = left
    BY <1>2, <1>3, <1>4, ConcatEmptySeq
  <2> QED BY <1>1, <2>1, <2>2, <2>3 DEF left, h, r, new
<1>5. CASE Served(h)
  <2> DEFINE y == w[1]
  <2>1. Ran(Sql(y), tables, new)
    BY <1>5, StatementRan DEF h
  <2>2. Len(w) = 1 /\ w \in Seq(Z)
    BY <1>5, ServedFacts
  <2>3. y \in Z /\ w = <<y>>
    <3> HIDE DEF w, Z
    <3> QED BY <2>2, OnlyOne
  <2>7. Plain(HalfDone(h)) \in
          {Plain(tables), Effect(Plain(tables), Sql(y)), Partial(Plain(tables), Sql(y))}
    BY <1>5, HalfRan DEF h
  <2> HIDE DEF w, y, left, new
  <2>4. Halfway(tables, before, asked, <<y>> \o left)
    BY <1>3, <2>3
  <2>5. Halfway(new, before, asked, left)
    BY <1>2, <2>1, <2>3, <2>4, HalfwayStep
  <2>6. Single(new) /\ Plain(new) = Effect(Plain(tables), Sql(y))
    BY <2>1 DEF Ran
  <2>8. LeftBy(Plain(new), before, asked)
    BY <1>2, <2>5, HalfwayMeans
  <2>9. LeftBy(Partial(Plain(tables), Sql(y)), before, asked)
    BY <1>2, <2>3, <2>4, HalfwayPartial
  <2>10. LeftBy(Plain(HalfDone(h)), before, asked)
    BY <1>0, <2>6, <2>7, <2>8, <2>9
  <2>11. ASSUME NEW x \in Interrupted(h) PROVE LeftBy(Plain(x), before, asked)
    <3>1. x \in {new, HalfDone(h), tables}
      BY DEF Interrupted, Outcomes, HalfDone, new
    <3> QED BY <1>0, <2>8, <2>10, <3>1
  <2> QED BY <1>1, <2>5, <2>6, <2>11 DEF left, h, r, new
<1> QED BY <1>1, <1>4, <1>5 DEF Runnable

-----------------------------------------------------------------------------
(***************************************************************************)
(* BatchesArePrefixes.                                                     *)
(***************************************************************************)
(* The inductive invariant: between two statements of a request, the ones  *)
(* that were run made the tables what they are, and the queries that wait  *)
(* hold the others, each of them read as what it is.                       *)
Batch ==
  /\ Typed
  /\ Good(before)
  /\ req.pc = "check" => tables = before /\ req.body = << >>
  /\ req.pc = "run" => Allowed /\ req.method = "POST" /\ req.path = "/query"
  /\ Ordinary =>
       /\ req.pc = "run" =>
            /\ Single(tables)
            /\ \A i \in 1 .. Len(queue) : Runnable(queue[i])
            /\ Halfway(tables, before, Asked, FlatSql(queue))
       /\ req.pc = "idle" =>
            \/ requests = 0 /\ status = 0 /\ tables = before
            \/ Ended(tables, before, Asked, status)

(* The request is the same. *)
LEMMA SameRequest ==
  ASSUME req'.method = req.method, req'.bearer = req.bearer, req'.path = req.path,
         req'.body = req.body, UNCHANGED <<config, before>>
  PROVE  Asked' = Asked /\ Ordinary' = Ordinary /\ Allowed' = Allowed
BY DEF Asked, Ordinary, Allowed, config

(* The statements asked for. *)
LEMMA AskedType ==
  ASSUME Typed
  PROVE  /\ Asked \in Seq(Seq(Words))
         /\ req.body = << >> => Asked = << >>
<1>1. req.body \in Seq(Words)
  BY DEF Typed, Serving, Requests
<1>2. SqlStatements(req.body) \in Seq(Seq(Words)) /\ SqlStatements(<< >>) = << >>
  BY <1>1, MarkedWords, SqlLaws
<1>3. << >> \in Seq(Seq(Words))
  OBVIOUS
<1> QED BY <1>2, <1>3 DEF Asked

(* An answer. *)
LEMMA AnswerStep ==
  ASSUME Batch, Typed', NEW code, Answer(code), UNCHANGED <<config, before>>,
         Ordinary => Ended(tables', before, Asked, code)
  PROVE  Batch'
<1>1. req \in Requests
  BY DEF Batch, Typed, Serving
<1>2. /\ req'.method = req.method /\ req'.bearer = req.bearer /\ req'.path = req.path
      /\ req'.body = req.body /\ req'.pc = "idle" /\ status' = code
  BY <1>1 DEF Answer, Requests
<1>3. Asked' = Asked /\ Ordinary' = Ordinary
  BY <1>2, SameRequest
<1>4. before' = before
  OBVIOUS
<1>5. Good(before)'
  BY <1>4 DEF Batch, Good
<1>6. Ordinary' => Ended(tables, before, Asked, status)'
  <2>1. Ended(tables, before, Asked, status)' = Ended(tables', before', Asked', status')
    OBVIOUS
  <2> QED BY <1>2, <1>3, <1>4, <2>1
<1> QED BY <1>2, <1>5, <1>6 DEF Batch

(* A request that is refused asked for nothing and did nothing. *)
LEMMA NothingAsked ==
  ASSUME Batch, req.pc = "check"
  PROVE  /\ LeftBy(Plain(tables), before, Asked)
         /\ \A code : code # 0 => Ended(tables, before, Asked, code)
<1>1. Good(tables) /\ tables = before /\ Asked = << >>
  BY AskedType DEF Batch, Typed
<1>2. Asked \in Seq(Seq(Words))
  BY AskedType DEF Batch
<1>3. /\ Plain(tables) = Effects(Plain(tables), SubSeq(Asked, 1, 0))
      /\ Effects(Plain(tables), << >>) = Plain(tables)
      /\ AllDone(Plain(tables), << >>)
  BY <1>1, <1>2, HalfwayStart
<1>4. 0 \in 0 .. Len(Asked)
  BY <1>2
<1>5. LeftBy(Plain(tables), before, Asked)
  BY <1>1, <1>3, <1>4 DEF LeftBy, First
<1> QED BY <1>1, <1>3, <1>5 DEF Ended

(* A request that stops has done the first of its statements. *)
LEMMA Stopped ==
  ASSUME Batch, Ordinary, req.pc # "idle"
  PROVE  LeftBy(Plain(tables), before, Asked)
<1>1. CASE req.pc = "check"
  BY <1>1, NothingAsked
<1>2. CASE req.pc = "run"
  <2>1. queue \in Seq(Seq(Words)) /\ Asked \in Seq(Seq(Words))
    BY AskedType DEF Batch, Typed
  <2>2. FlatSql(queue) \in Seq(Seq(Words))
    BY <2>1, MarkedWords, FlatSqlStep
  <2>3. Halfway(tables, before, Asked, FlatSql(queue))
    BY <1>2 DEF Batch
  <2> QED BY <2>1, <2>2, <2>3, HalfwayMeans
<1> QED BY <1>1, <1>2 DEF Batch, Typed, Serving, Requests

(* Batch holds at the start.                                               *)
LEMMA BatchInit ==
  ASSUME Init
  PROVE  Batch
<1>1. Typed
  BY TypedInit
<1>2. /\ Good(tables) /\ tables = before /\ req.pc = "idle"
      /\ status = 0 /\ requests = 0
  BY <1>1 DEF Init, NoRequest, Typed
<1> QED BY <1>1, <1>2 DEF Batch

(* A body arrives at /query. *)
LEMMA QueryStep ==
  ASSUME Batch, Typed', NEW body \in Bodies, req.pc = "check", Allowed, req.method = "POST",
         req.path = "/query", req' = [req EXCEPT !.pc = "run", !.body = body],
         queue' = QueriesOf(body), UNCHANGED <<config, tables, before>>
  PROVE  Batch'
<1>1. req \in Requests
  BY DEF Batch, Typed, Serving
<1>2. /\ req'.method = "POST" /\ req'.path = "/query" /\ req'.bearer = req.bearer
      /\ req'.body = body /\ req'.pc = "run"
  BY <1>1 DEF Requests
<1>3. Allowed'
  BY <1>2 DEF Allowed, config
<1>4. Asked' = SqlStatements(body)
  BY <1>2, <1>3 DEF Asked
<1>5. Good(before) /\ Good(tables) /\ tables = before
  BY DEF Batch, Typed
<1>6. ASSUME Ordinary'
      PROVE  /\ Single(tables)'
             /\ \A i \in 1 .. Len(queue') : Runnable(queue[i])'
             /\ Halfway(tables, before, Asked, FlatSql(queue))'
  <2>1. Readable(body)
    BY <1>2, <1>6 DEF Ordinary, Readable, config
  <2>2. Single(before')
    BY <1>6 DEF Ordinary, Single
  <2>3. Single(tables)'
    BY <1>5, <2>2
  <2>4. /\ \A i \in 1 .. Len(QueriesOf(body)) : Runnable(QueriesOf(body)[i])
        /\ FlatSql(QueriesOf(body)) = SqlStatements(body)
    BY <2>1, QueriesRunnable
  <2>5. SqlStatements(body) \in Seq(Seq(Words))
    BY BodyRead, MarkedWords, SqlLaws
  <2>6. Halfway(tables, tables, SqlStatements(body), SqlStatements(body))
    BY <1>5, <2>5, HalfwayStart
  <2>7. \A i \in 1 .. Len(queue') : Runnable(queue[i])'
    BY <2>4 DEF Runnable, Served, LoggedAs, Logged, Unlogged
  <2>8. Halfway(tables, before, Asked, FlatSql(queue))'
    <3>1. FlatSql(queue)' = FlatSql(queue')
      OBVIOUS
    <3>2. FlatSql(queue)' = SqlStatements(body)
      BY <2>4, <3>1
    <3>3. Halfway(tables, before, Asked, FlatSql(queue))' =
            Halfway(tables', before', Asked', FlatSql(queue)')
      OBVIOUS
    <3> QED BY <1>4, <1>5, <2>6, <3>2, <3>3
  <2> QED BY <2>3, <2>7, <2>8
<1>7. Good(before)'
  BY <1>5 DEF Good
<1> QED BY <1>2, <1>3, <1>6, <1>7 DEF Batch

(* A statement is run. *)
LEMMA RunStep ==
  ASSUME Batch, Typed', RunStatement
  PROVE  Batch'
<1>1. /\ queue # << >> /\ req.pc = "run" /\ Succeeds(Head(queue))
      /\ tables' = Committed(Head(queue)) /\ queue' = Tail(queue)
      /\ UNCHANGED <<config, req, status, before, bounds>>
  BY DEF RunStatement, Running
<1>2. Asked' = Asked /\ Ordinary' = Ordinary /\ Allowed' = Allowed
  BY <1>1, SameRequest
<1>3. Good(before) /\ Good(tables) /\ queue \in Seq(Seq(Words))
  BY DEF Batch, Typed
<1>4. ASSUME Ordinary'
      PROVE  /\ Single(tables)'
             /\ \A i \in 1 .. Len(queue') : Runnable(queue[i])'
             /\ Halfway(tables, before, Asked, FlatSql(queue))'
  <2>1. /\ Single(tables) /\ \A i \in 1 .. Len(queue) : Runnable(queue[i])
        /\ Halfway(tables, before, Asked, FlatSql(queue))
    BY <1>1, <1>2, <1>4 DEF Batch
  <2>2. /\ Single(Committed(Head(queue)))
        /\ Halfway(Committed(Head(queue)), before, Asked, FlatSql(Tail(queue)))
        /\ \A i \in 1 .. Len(Tail(queue)) : Runnable(Tail(queue)[i])
    BY <1>1, <1>3, <2>1, QueryRan, AskedType DEF Batch
  <2>3. Single(tables)'
    <3>1. Single(tables)' = Single(tables')
      OBVIOUS
    <3> QED BY <1>1, <2>2, <3>1
  <2>4. \A i \in 1 .. Len(queue') : Runnable(queue[i])'
    BY <1>1, <2>2 DEF Runnable, Served, LoggedAs, Logged, Unlogged
  <2>5. Halfway(tables, before, Asked, FlatSql(queue))'
    <3>1. Halfway(tables, before, Asked, FlatSql(queue))' =
            Halfway(tables', before', Asked', FlatSql(queue'))
      OBVIOUS
    <3> QED BY <1>1, <1>2, <2>2, <3>1
  <2> QED BY <2>3, <2>4, <2>5
<1>5. Good(before)'
  BY <1>1, <1>3 DEF Good
<1> QED BY <1>1, <1>2, <1>4, <1>5 DEF Batch

(* A statement that stops leaves the effects of those before it, and at    *)
(* most what Partial says of its own.                                      *)
LEMMA StoppedAt ==
  ASSUME Batch, Ordinary, Running, Succeeds(Head(queue))
  PROVE  \A x \in Interrupted(Head(queue)) : LeftBy(Plain(x), before, Asked) /\ Good(x)
<1>1. /\ Good(before) /\ Good(tables) /\ queue \in Seq(Seq(Words))
      /\ queue # << >> /\ Asked \in Seq(Seq(Words))
  BY AskedType DEF Batch, Typed, Running
<1>2. /\ Single(tables) /\ \A i \in 1 .. Len(queue) : Runnable(queue[i])
      /\ Halfway(tables, before, Asked, FlatSql(queue))
  BY DEF Batch, Running
<1>3. \A x \in Interrupted(Head(queue)) : LeftBy(Plain(x), before, Asked)
  BY <1>1, <1>2, QueryRan
<1>4. Head(queue) \in Seq(Words)
  <2> DEFINE Z == Seq(Words)
  <2>1. queue \in Seq(Z)
    BY <1>1
  <2> HIDE DEF Z
  <2>2. Head(queue) \in Z
    BY <1>1, <2>1, FirstApart
  <2> QED BY <2>2 DEF Z
<1>5. \A x \in Interrupted(Head(queue)) : Good(x)
  BY <1>1, <1>4, InterruptedGood
<1> QED BY <1>3, <1>5

(* A storage failure. *)
LEMMA FailStep ==
  ASSUME Batch, Typed', StorageFails
  PROVE  Batch'
<1>1. /\ Running /\ Succeeds(Head(queue)) /\ tables' \in Interrupted(Head(queue))
      /\ Answer(400) /\ UNCHANGED <<config, before>>
  BY DEF StorageFails
<1>2. ASSUME Ordinary
      PROVE  Ended(tables', before, Asked, 400)
  <2>1. LeftBy(Plain(tables'), before, Asked)
    BY <1>1, <1>2, StoppedAt
  <2> QED BY <2>1 DEF Ended
<1> QED BY <1>1, <1>2, AnswerStep

(* A crash. *)
LEMMA CrashStep ==
  ASSUME Batch, Typed', Crash
  PROVE  Batch'
<1>1. /\ Answer(0) /\ req.pc # "idle" /\ UNCHANGED <<config, before>>
  BY DEF Crash
<1>2. PICK left : /\ \/ left = tables
                     \/ /\ Running /\ Succeeds(Head(queue))
                        /\ left \in Interrupted(Head(queue))
                  /\ tables' = Forget(left)
  BY DEF Crash
<1>3. ASSUME Ordinary
      PROVE  Ended(tables', before, Asked, 0)
  <2>1. LeftBy(Plain(left), before, Asked) /\ Good(left)
    <3>1. CASE left = tables
      BY <1>1, <1>3, <3>1, Stopped DEF Batch, Typed
    <3>2. CASE Running /\ Succeeds(Head(queue)) /\ left \in Interrupted(Head(queue))
      BY <1>3, <3>2, StoppedAt
    <3> QED BY <1>2, <3>1, <3>2
  <2>2. Plain(tables') = Forget(Plain(left))
    BY <1>2, <2>1, PlainForget
  <2> QED BY <2>1, <2>2 DEF Ended
<1> QED BY <1>1, <1>3, AnswerStep

(* The last statement is done. *)
LEMMA RespondStep ==
  ASSUME Batch, Typed', Respond
  PROVE  Batch'
<1>1. /\ req.pc = "run" /\ queue = << >> /\ Answer(200)
      /\ UNCHANGED <<config, tables, before>>
  BY DEF Respond
<1>2. ASSUME Ordinary
      PROVE  Ended(tables', before, Asked, 200)
  <2>1. FlatSql(queue) = << >> /\ FlatSql(queue) \in Seq(Seq(Words)) /\ Asked \in Seq(Seq(Words))
    BY ZenonT(40), <1>1, MarkedWords, FlatSqlStep, AskedType DEF Batch, Typed
  <2>2. Halfway(tables, before, Asked, FlatSql(queue))
    BY <1>1, <1>2 DEF Batch
  <2>3. Ended(tables, before, Asked, 200)
    BY <2>1, <2>2, HalfwayMeans
  <2> QED BY <1>1, <2>3
<1> QED BY <1>1, <1>2, AnswerStep

(* Batch is inductive.                                                     *)
LEMMA BatchStep ==
  ASSUME Batch, [Next]_vars
  PROVE  Batch'
<1>1. Typed'
  BY TypedStep DEF Batch
<1>2. req \in Requests /\ Good(tables) /\ Good(before)
  BY DEF Batch, Typed, Serving
<1>3. ASSUME NEW m \in Methods, NEW b \in BOOLEAN, NEW p \in Paths, Arrive(m, b, p)
      PROVE  Batch'
  <2>1. /\ req'.pc = "check" /\ req'.body = << >>
        /\ before' = tables /\ tables' = tables
    BY <1>3 DEF Arrive
  <2>2. Good(before)'
    BY <1>2, <2>1 DEF Good
  <2> QED BY <1>1, <2>1, <2>2 DEF Batch
<1>4. CASE Reject
  <2>1. PICK code \in {200, 400, 401, 405} : Answer(code)
    BY <1>4 DEF Reject
  <2>2. req.pc = "check" /\ UNCHANGED <<config, tables, before>>
    BY <1>4 DEF Reject
  <2>3. Ended(tables, before, Asked, code)
    <3>1. code # 0
      OBVIOUS
    <3> QED BY <2>2, <3>1, NothingAsked
  <2> QED BY <1>1, <2>1, <2>2, <2>3, AnswerStep
<1>5. ASSUME NEW body \in Bodies, PostEndpoint(body)
      PROVE  Batch'
  <2>1. /\ req.pc = "check" /\ Allowed /\ req.method = "POST"
        /\ UNCHANGED <<config, tables, before>>
    BY <1>5 DEF PostEndpoint
  <2>2. CASE /\ req.path = "/query"
             /\ req' = [req EXCEPT !.pc = "run", !.body = body]
             /\ queue' = IF splitting THEN SplitNonEmptyQueries(body) ELSE <<Trim(body)>>
    <3>1. queue' = QueriesOf(body)
      BY <2>2 DEF QueriesOf
    <3> QED BY <1>1, <2>1, <2>2, <3>1, QueryStep
  <2>3. ASSUME NEW code, code # 0, Answer(code) PROVE Batch'
    <3>1. Ended(tables, before, Asked, code)
      BY <2>1, <2>3, NothingAsked
    <3> QED BY <1>1, <2>1, <2>3, <3>1, AnswerStep
  <2> QED BY <1>5, <2>2, <2>3 DEF PostEndpoint
<1>6. CASE RunStatement
  BY <1>1, <1>6, RunStep
<1>7. CASE StatementFails
  <2>1. /\ Answer(400) /\ req.pc # "idle" /\ UNCHANGED <<config, tables, before>>
    BY <1>7 DEF StatementFails, Running
  <2>2. Ordinary => Ended(tables, before, Asked, 400)
    BY <2>1, Stopped DEF Ended
  <2> QED BY <1>1, <2>1, <2>2, AnswerStep
<1>8. CASE StorageFails
  BY <1>1, <1>8, FailStep
<1>9. CASE Respond
  BY <1>1, <1>9, RespondStep
<1>10. CASE Crash
  BY <1>1, <1>10, CrashStep
<1>11. CASE Rest \/ UNCHANGED vars
  <2>1. UNCHANGED vars
    BY <1>11 DEF Rest
  <2>2. req' = req /\ tables' = tables /\ before' = before /\ queue' = queue
        /\ status' = status /\ config' = config /\ requests' = requests
    BY <2>1 DEF vars, config, bounds
  <2>3. Asked' = Asked /\ Ordinary' = Ordinary /\ Allowed' = Allowed
    BY <2>2, SameRequest
  <2>4. Good(before)' /\ Single(tables)' = Single(tables)
    BY <1>2, <2>2 DEF Good, Single
  <2>5. (\A i \in 1 .. Len(queue) : Runnable(queue[i]))'
          = (\A i \in 1 .. Len(queue) : Runnable(queue[i]))
    BY <2>2 DEF Runnable, Served, LoggedAs, Logged, Unlogged
  <2>6. Halfway(tables, before, Asked, FlatSql(queue))'
          = Halfway(tables, before, Asked, FlatSql(queue))
    <3>1. Halfway(tables, before, Asked, FlatSql(queue))'
            = Halfway(tables', before', Asked', FlatSql(queue'))
      OBVIOUS
    <3> QED BY <2>2, <2>3, <3>1
  <2>7. Ended(tables, before, Asked, status)' = Ended(tables, before, Asked, status)
    <3>1. Ended(tables, before, Asked, status)' = Ended(tables', before', Asked', status')
      OBVIOUS
    <3> QED BY <2>2, <2>3, <3>1
  <2> QED BY <1>1, <2>2, <2>3, <2>4, <2>5, <2>6, <2>7 DEF Batch
<1> QED BY <1>3, <1>4, <1>5, <1>6, <1>7, <1>8, <1>9, <1>10, <1>11 DEF Next, Handle

(* What Batch says of the tables, in the words of the property. *)
LEMMA BatchMeans ==
  ASSUME Batch
  PROVE  BatchIsPrefix
<1> DEFINE from == Plain(before)
           Done(n) == Plain(tables) = First(from, Asked, n)
           left == FlatSql(queue)
           Ran200 == \A i \in 1 .. Len(Asked) :
                       \/ Sql(Asked[i]).verb = "DROP"
                       \/ Runs(First(from, Asked, i - 1), Sql(Asked[i]))
           Stops == \E n \in 0 .. Len(Asked) :
                      Done(n) \/ Plain(tables) = FirstAndPartial(from, Asked, n)
           Lost == \/ requests = 0 /\ Done(0)
                   \/ \E n \in 0 .. Len(Asked) :
                        \/ Plain(tables) = Forget(First(from, Asked, n))
                        \/ Plain(tables) = Forget(FirstAndPartial(from, Asked, n))
<1>1. Asked \in Seq(Seq(Words)) /\ queue \in Seq(Seq(Words)) /\ left \in Seq(Seq(Words))
  BY MarkedWords, FlatSqlStep, AskedType DEF Batch, Typed
<1>2. SubSeq(Asked, 1, Len(Asked)) = Asked
  <2> DEFINE Z == Seq(Words)
  <2>1. Asked \in Seq(Z)
    BY <1>1
  <2> HIDE DEF Z
  <2>2. << >> \in Seq(Z) /\ Asked \o << >> = Asked
    BY <2>1, ConcatAppend
  <2> QED BY <2>1, <2>2, FirstPart
<1>0. tables = before => Done(0)
  BY <1>1, HalfwayStart DEF Batch, Typed, First
<1>3. ASSUME Ordinary, req.pc = "check" PROVE Done(0)
  BY <1>0, <1>3 DEF Batch
<1>4. ASSUME Ordinary, req.pc = "run"
      PROVE  Len(left) <= Len(Asked) /\ Done(Len(Asked) - Len(left))
  <2>1. Halfway(tables, before, Asked, left)
    BY <1>4 DEF Batch
  <2> HIDE DEF left
  <2>2. Underway(tables, before, Asked, left)
    BY <1>1, <2>1, HalfwayMeans
  <2> QED BY Zenon, <2>2 DEF Underway, First
<1>10. ASSUME Ordinary, req.pc = "idle"
       PROVE  \/ requests = 0 /\ status = 0 /\ tables = before
              \/ Ended(tables, before, Asked, status)
  BY <1>10 DEF Batch
<1>5. ASSUME Ordinary, req.pc = "idle", status = 200
      PROVE  Done(Len(Asked)) /\ Ran200
  <2>1. Ended(tables, before, Asked, status)
    BY <1>5, <1>10
  <2>2. Plain(tables) = Effects(Plain(before), Asked) /\ AllDone(Plain(before), Asked)
    BY <1>5, <2>1 DEF Ended
  <2> QED BY <1>2, <2>2 DEF AllDone, First
<1>6. ASSUME Ordinary, req.pc = "idle", status = 0
      PROVE  Lost
  <2>1. CASE requests = 0 /\ tables = before
    BY <1>0, <2>1
  <2>2. CASE Ended(tables, before, Asked, status)
    <3>1. PICK x : LeftBy(x, before, Asked) /\ Plain(tables) = Forget(x)
      BY <1>6, <2>2 DEF Ended
    <3> QED BY Zenon, <3>1 DEF LeftBy
  <2> QED BY <1>6, <1>10, <2>1, <2>2
<1>11. ASSUME Ordinary, req.pc = "idle", status \notin {200, 0}
       PROVE  Stops
  <2>1. Ended(tables, before, Asked, status)
    BY <1>10, <1>11
  <2>2. LeftBy(Plain(tables), before, Asked)
    BY <1>11, <2>1 DEF Ended
  <2> QED BY Zenon, <2>2 DEF LeftBy
<1>7. req.pc \in {"check", "run", "idle"}
  BY DEF Batch, Typed, Serving, Requests
<1>8. left = FlattenSeq([i \in 1 .. Len(queue) |-> SqlStatements(queue[i])])
  BY DEF FlatSql, SqlOf
<1> HIDE DEF from, Done, Ran200, left, Stops, Lost
<1>9. ASSUME Ordinary
      PROVE  CASE req.pc = "check" -> Done(0)
               [] req.pc = "run" ->
                    Len(left) <= Len(Asked) /\ Done(Len(Asked) - Len(left))
               [] req.pc = "idle" /\ status = 200 -> Done(Len(Asked)) /\ Ran200
               [] req.pc = "idle" /\ status = 0 -> Lost
               [] OTHER -> Stops
  <2>1. CASE req.pc = "check"
    BY Zenon, <1>3, <1>9, <2>1
  <2>2. CASE req.pc = "run"
    BY Zenon, <1>4, <1>9, <2>2
  <2>3. CASE req.pc = "idle" /\ status = 200
    <3>1. status # 0
      BY <2>3
    <3> QED BY Zenon, <1>5, <1>9, <2>3, <3>1
  <2>4. CASE req.pc = "idle" /\ status = 0
    <3>1. status # 200
      BY <2>4
    <3> QED BY Zenon, <1>6, <1>9, <2>4, <3>1
  <2>5. CASE req.pc = "idle" /\ status \notin {200, 0}
    <3>1. status # 200 /\ status # 0
      BY <2>5
    <3> QED BY Zenon, <1>11, <1>9, <2>5, <3>1
  <2> QED BY <1>7, <2>1, <2>2, <2>3, <2>4, <2>5
<1> QED BY Zenon, <1>8, <1>9 DEF BatchIsPrefix, from, Done, Ran200, left, Stops, Lost

(* The statements of a request run one after the other and each once: a    *)
(* success ran them all; a failure, or a refusal, the first ones or none,  *)
(* and left at most what Partial says of the next; one that loses its      *)
(* server the same without what only the server knew (RequestHandler,      *)
(* handleQuery, withPersistedLog, Log.Destroy).                            *)
THEOREM BatchesArePrefixes == Spec => []BatchIsPrefix
BY BatchInit, BatchStep, BatchMeans, PTL DEF Spec

=============================================================================
