--------------------------- MODULE RollupsProofs ----------------------------
(***************************************************************************)
(* What the maintenance cycle of Rollups keeps true, for any number of     *)
(* processes, any lengths of buckets and any retention.                    *)
(*                                                                         *)
(*   1. Lemmas about Trunc, and about Sum: that it takes its elements one  *)
(*      by one, is monotonic, and adds up over disjoint sets.  Each is an  *)
(*      induction over the set, by a least counterexample (LeastSubset).   *)
(*   2. Base: where clocks, cursors and checkpoints are.                   *)
(*   3. Gapless: a cycle resumes behind a checkpoint, or found none; what  *)
(*      is between the first minute done and any checkpoint is done.  Two  *)
(*      cycles that find no checkpoint each start with their own minute,   *)
(*      and it takes CyclesClose for the two to be neighbours.             *)
(*   4. Tables: no row has more than there ever was.                       *)
(*   5. Kept: a settled minute is exact, and a kept hour has no more than  *)
(*      its minutes.  It takes KeepsRaw: a minute counted again after some *)
(*      of its raw traces were deleted loses what it had.                  *)
(***************************************************************************)
EXTENDS Rollups, FiniteSetTheorems, TLAPS
-----------------------------------------------------------------------------
(* Truncate, and the multiples it returns.                                 *)

LEMMA Multiple ==
  ASSUME NEW n \in Nat, n > 0, NEW a \in Int, a % n = 0
  PROVE  \E p \in Int : a = n * p
<1>1. a \div n \in Int
  BY SMT
<1>2. a = n * (a \div n)
  BY SMT
<1> QED
  BY <1>1, <1>2, Zenon

LEMMA WholeTimes ==
  ASSUME NEW n \in Nat, n > 0, NEW p \in Int
  PROVE  (n * p) % n = 0
BY SMT

LEMMA Apart ==
  ASSUME NEW n \in Nat, n > 0, NEW a \in Int, NEW b \in Int,
         a % n = 0, b % n = 0, a < b
  PROVE  a + n <= b
<1>1. PICK p \in Int : a = n * p
  BY Multiple
<1>2. PICK q \in Int : b = n * q
  BY Multiple
<1>3. p + 1 <= q
  BY <1>1, <1>2, SMT
<1>4. n * (p + 1) <= n * q
  BY <1>3, SMT
<1> QED
  BY <1>1, <1>2, <1>4, SMT

LEMMA NextWhole ==
  ASSUME NEW n \in Nat, n > 0, NEW a \in Int, a % n = 0
  PROVE  (a + n) % n = 0
<1>1. PICK p \in Int : a = n * p
  BY Multiple
<1>2. n * (p + 1) = a + n
  BY <1>1, SMT
<1>3. (n * (p + 1)) % n = 0
  BY WholeTimes
<1> QED
  BY <1>2, <1>3, SMT

LEMMA TruncBelow ==
  ASSUME NEW n \in Nat, n > 0, NEW t \in Int
  PROVE  /\ Trunc(t, n) \in Int
         /\ Trunc(t, n) <= t
         /\ t < Trunc(t, n) + n
         /\ Trunc(t, n) % n = 0
<1>1. /\ Trunc(t, n) \in Int
      /\ Trunc(t, n) <= t
      /\ t < Trunc(t, n) + n
  BY SMT DEF Trunc
<1>2. /\ t \div n \in Int
      /\ Trunc(t, n) = n * (t \div n)
  BY SMT DEF Trunc
<1>3. (n * (t \div n)) % n = 0
  BY <1>2, WholeTimes
<1> QED
  BY <1>1, <1>2, <1>3, Zenon

LEMMA TruncIsLast ==
  ASSUME NEW n \in Nat, n > 0, NEW t \in Int, NEW m \in Int, m % n = 0, m <= t
  PROVE  m <= Trunc(t, n)
<1>1. ASSUME Trunc(t, n) < m
      PROVE  FALSE
  <2>1. Trunc(t, n) + n <= m
    BY <1>1, TruncBelow, Apart
  <2> QED
    BY <2>1, TruncBelow
<1> QED
  BY <1>1, TruncBelow

LEMMA TruncClose ==
  ASSUME NEW n \in Nat, n > 0, NEW s \in Int, NEW t \in Int, t <= s + n
  PROVE  Trunc(t, n) <= Trunc(s, n) + n
<1> DEFINE S == Trunc(s, n)  T == Trunc(t, n)
<1>1. /\ S \in Int /\ s < S + n /\ S % n = 0
      /\ T \in Int /\ T <= t /\ T % n = 0
  BY TruncBelow
<1> HIDE DEF S, T
<1>2. (S + n) % n = 0
  BY <1>1, NextWhole
<1>3. ASSUME S + n < T
      PROVE  FALSE
  <2>1. (S + n) + n <= T
    BY <1>1, <1>2, <1>3, Apart
  <2> QED
    BY <1>1, <2>1
<1>4. T <= S + n
  BY <1>1, <1>3
<1> QED
  BY <1>4 DEF S, T

-----------------------------------------------------------------------------
(* A non-empty set of subsets of a finite set has a least one: whatever    *)
(* fails for some subset fails for one of whose own subsets none fails.    *)
LEMMA LeastSubset ==
  ASSUME NEW S, IsFiniteSet(S), NEW X \in SUBSET SUBSET S, X # {}
  PROVE  \E s \in X : \A t \in X : t \subseteq s => t = s
<1>1. FiniteSubsetsOf(S) = SUBSET S
  BY FS_FiniteSubsetsOfFinite
<1>2. IsWellFoundedOn(StrictSubsetOrdering(S), SUBSET S)
  BY <1>1, FS_StrictSubsetOrderingWellFounded, Zenon
<1>3. PICK s \in X : \A t \in X : ~(<<t, s>> \in StrictSubsetOrdering(S))
  BY <1>2, WFMin, Zenon
<1> QED
  BY <1>3 DEF StrictSubsetOrdering

One(s) == CHOOSE x \in s : TRUE

Folded(f, S, g) ==
  g = [s \in SUBSET S |-> IF s = {} THEN 0 ELSE f[One(s)] + g[s \ {One(s)}]]

Fold(f, S) == CHOOSE g : Folded(f, S, g)

LEMMA SumIsFold ==
  ASSUME NEW f, NEW S
  PROVE  Sum(f, S) = Fold(f, S \cap Ticks)[S \cap Ticks]
BY Zenon DEF Sum, MapThenSumSet, MapThenFoldSet, Fold, Folded, One

LEMMA FoldedUnique ==
  ASSUME NEW f, NEW S, IsFiniteSet(S), NEW T \in SUBSET S,
         NEW g, Folded(f, S, g), NEW h, Folded(f, T, h)
  PROVE  \A s \in SUBSET T : g[s] = h[s]
<1> DEFINE X == {s \in SUBSET T : g[s] # h[s]}
<1>1. SUFFICES ASSUME X # {}
               PROVE  FALSE
  OBVIOUS
<1>2. X \in SUBSET SUBSET S
  OBVIOUS
<1>3. PICK s \in X : \A t \in X : t \subseteq s => t = s
  <2> HIDE DEF X
  <2> QED
    BY <1>1, <1>2, LeastSubset
<1>4. /\ g[s] = IF s = {} THEN 0 ELSE f[One(s)] + g[s \ {One(s)}]
      /\ h[s] = IF s = {} THEN 0 ELSE f[One(s)] + h[s \ {One(s)}]
  <2>1. s \in SUBSET S /\ s \in SUBSET T
    OBVIOUS
  <2> QED
    BY <2>1, Zenon DEF Folded
<1>5. s # {}
  BY <1>4
<1>6. One(s) \in s
  BY <1>5 DEF One
<1>7. g[s \ {One(s)}] = h[s \ {One(s)}]
  BY <1>3, <1>6
<1> QED
  BY <1>4, <1>7

LEMMA FoldedExists ==
  ASSUME NEW f, NEW S, IsFiniteSet(S)
  PROVE  \E g : Folded(f, S, g)
<1> DEFINE X == {T \in SUBSET S : ~ \E g : Folded(f, T, g)}
<1>1. SUFFICES ASSUME X # {}
               PROVE  FALSE
  OBVIOUS
<1>2. PICK T \in X : \A U \in X : U \subseteq T => U = T
  <2>1. X \in SUBSET SUBSET S
    OBVIOUS
  <2> HIDE DEF X
  <2> QED
    BY <1>1, <2>1, LeastSubset
<1> DEFINE less(s) == s \ {One(s)}
           G == [s \in SUBSET T |->
                   IF s = {} THEN 0 ELSE f[One(s)] + Fold(f, less(s))[less(s)]]
<1>3. ASSUME NEW s \in SUBSET T, s # {}
      PROVE  /\ less(s) \in SUBSET T /\ less(s) # T
             /\ Folded(f, less(s), Fold(f, less(s)))
  <2>1. One(s) \in s
    BY <1>3 DEF One
  <2>2. less(s) \in SUBSET T /\ less(s) # T /\ less(s) \in SUBSET S
    BY <2>1
  <2>3. \E g : Folded(f, less(s), g)
    BY <1>2, <2>2
  <2> QED
    BY <2>2, <2>3 DEF Fold
<1>4. ASSUME NEW s \in SUBSET T, s # {}
      PROVE  G[less(s)] = Fold(f, less(s))[less(s)]
  <2> DEFINE r == less(s)
             g == Fold(f, r)
  <2>1. r \in SUBSET T /\ Folded(f, r, g) /\ r \in SUBSET S /\ IsFiniteSet(r)
    BY <1>3, <1>4, FS_Subset
  <2>2. g[r] = IF r = {} THEN 0 ELSE f[One(r)] + g[less(r)]
    <3> HIDE DEF r, g
    <3> QED
      BY <2>1, Zenon DEF Folded
  <2>3. G[r] = IF r = {} THEN 0 ELSE f[One(r)] + Fold(f, less(r))[less(r)]
    <3> HIDE DEF r
    <3> QED
      BY <2>1
  <2>4. CASE r = {}
    BY <2>2, <2>3, <2>4
  <2>5. CASE r # {}
    <3>1. Folded(f, less(r), Fold(f, less(r)))
      BY <1>3, <2>1, <2>5
    <3>2. less(r) \in SUBSET r
      OBVIOUS
    <3>3. g[less(r)] = Fold(f, less(r))[less(r)]
      <4> HIDE DEF r, g, less
      <4> QED
        BY <2>1, <3>1, <3>2, FoldedUnique
    <3> QED
      BY <2>2, <2>3, <2>5, <3>3
  <2> QED
    BY <2>4, <2>5
<1>5. Folded(f, T, G)
  <2>1. ASSUME NEW s \in SUBSET T
        PROVE  (IF s = {} THEN 0 ELSE f[One(s)] + Fold(f, less(s))[less(s)])
                 = IF s = {} THEN 0 ELSE f[One(s)] + G[s \ {One(s)}]
    BY <1>4
  <2> QED
    BY <2>1, Zenon DEF Folded
<1> QED
  BY <1>5

LEMMA TicksFinite == IsFiniteSet(Ticks) /\ \A S : IsFiniteSet(S \cap Ticks)
<1>1. IsFiniteSet(Ticks)
  BY RollupsAssumption, FS_Interval DEF Ticks
<1> QED
  BY <1>1, FS_Subset

LEMMA SumEmpty ==
  ASSUME NEW f, NEW S, S \cap Ticks = {}
  PROVE  Sum(f, S) = 0
<1>1. Folded(f, {}, Fold(f, {}))
  BY FoldedExists, FS_EmptySet DEF Fold
<1>2. Fold(f, {})[{}] = 0
  <2>1. {} \in SUBSET {}
    OBVIOUS
  <2> QED
    BY <1>1, <2>1, Zenon DEF Folded
<1> QED
  BY <1>2, SumIsFold

LEMMA SumOne ==
  ASSUME NEW f, NEW S \in SUBSET Ticks, S # {}
  PROVE  /\ One(S) \in S
         /\ Sum(f, S) = f[One(S)] + Sum(f, S \ {One(S)})
<1> DEFINE R == S \ {One(S)}
<1>1. One(S) \in S
  BY DEF One
<1>2. /\ S \cap Ticks = S /\ IsFiniteSet(S) /\ S \in SUBSET S
      /\ R \cap Ticks = R /\ IsFiniteSet(R) /\ R \in SUBSET S /\ R \in SUBSET R
  BY TicksFinite, FS_Subset
<1>3. Folded(f, S, Fold(f, S)) /\ Folded(f, R, Fold(f, R))
  BY <1>2, FoldedExists DEF Fold
<1>4. Fold(f, S)[S] = f[One(S)] + Fold(f, S)[R]
  BY <1>2, <1>3, Zenon DEF Folded
<1> HIDE DEF R
<1>5. Fold(f, S)[R] = Fold(f, R)[R]
  BY <1>2, <1>3, FoldedUnique
<1>6. Sum(f, S) = Fold(f, S)[S] /\ Sum(f, R) = Fold(f, R)[R]
  BY <1>2, SumIsFold
<1> QED
  BY <1>1, <1>4, <1>5, <1>6 DEF R

LEMMA SumOnTicks ==
  ASSUME NEW f, NEW S
  PROVE  Sum(f, S) = Sum(f, S \cap Ticks)
<1>1. (S \cap Ticks) \cap Ticks = S \cap Ticks
  OBVIOUS
<1> QED
  BY <1>1, SumIsFold

-----------------------------------------------------------------------------
Nats == [Ticks -> Nat]

LEMMA SumNat ==
  ASSUME NEW f \in Nats, NEW S
  PROVE  Sum(f, S) \in Nat
<1> DEFINE X == {T \in SUBSET Ticks : Sum(f, T) \notin Nat}
<1>1. SUFFICES ASSUME X # {}
               PROVE  FALSE
  <2>1. S \cap Ticks \notin X
    BY <1>1
  <2> QED
    BY <2>1, SumOnTicks
<1>2. PICK T \in X : \A U \in X : U \subseteq T => U = T
  <2>1. X \in SUBSET SUBSET Ticks
    OBVIOUS
  <2> HIDE DEF X
  <2> QED
    BY <1>1, <2>1, LeastSubset, TicksFinite
<1>3. T # {}
  BY SumEmpty
<1>4. One(T) \in T /\ Sum(f, T) = f[One(T)] + Sum(f, T \ {One(T)})
  BY <1>3, SumOne
<1>5. Sum(f, T \ {One(T)}) \in Nat
  BY <1>2, <1>4
<1>6. f[One(T)] \in Nat
  BY <1>4 DEF Nats
<1> QED
  BY <1>2, <1>4, <1>5, <1>6

LEMMA SumMono ==
  ASSUME NEW f \in Nats, NEW g \in Nats, NEW S,
         \A t \in S \cap Ticks : f[t] <= g[t]
  PROVE  Sum(f, S) <= Sum(g, S)
<1> DEFINE X == {T \in SUBSET (S \cap Ticks) : ~(Sum(f, T) <= Sum(g, T))}
<1>1. SUFFICES ASSUME X # {}
               PROVE  FALSE
  <2>1. S \cap Ticks \notin X
    BY <1>1
  <2> QED
    BY <2>1, SumOnTicks
<1>2. PICK T \in X : \A U \in X : U \subseteq T => U = T
  <2>1. X \in SUBSET SUBSET (S \cap Ticks)
    OBVIOUS
  <2> HIDE DEF X
  <2> QED
    BY <1>1, <2>1, LeastSubset, TicksFinite
<1> DEFINE x == One(T)  R == T \ {x}
<1>3. T # {}
  BY SumEmpty
<1>4. x \in T /\ Sum(f, T) = f[x] + Sum(f, R) /\ Sum(g, T) = g[x] + Sum(g, R)
  BY <1>3, SumOne
<1>5. Sum(f, R) <= Sum(g, R)
  BY <1>2, <1>4
<1>6. f[x] \in Nat /\ g[x] \in Nat /\ f[x] <= g[x]
  BY <1>4 DEF Nats
<1>7. Sum(f, R) \in Nat /\ Sum(g, R) \in Nat
  BY SumNat
<1>8. Sum(f, T) <= Sum(g, T)
  <2> HIDE DEF x, R
  <2> QED
    BY <1>4, <1>5, <1>6, <1>7
<1> QED
  BY <1>8

LEMMA SumSame ==
  ASSUME NEW f \in Nats, NEW g \in Nats, NEW S,
         \A t \in S \cap Ticks : f[t] = g[t]
  PROVE  Sum(f, S) = Sum(g, S)
<1>1. \A t \in S \cap Ticks : f[t] <= g[t] /\ g[t] <= f[t]
  BY DEF Nats
<1>2. Sum(f, S) <= Sum(g, S) /\ Sum(g, S) <= Sum(f, S)
  BY <1>1, SumMono
<1>3. Sum(f, S) \in Nat /\ Sum(g, S) \in Nat
  BY SumNat
<1> QED
  BY <1>2, <1>3

LEMMA SumTake ==
  ASSUME NEW f \in Nats, NEW S, NEW x \in S \cap Ticks
  PROVE  Sum(f, S) = f[x] + Sum(f, S \ {x})
<1> DEFINE X == {T \in SUBSET Ticks :
                   \E y \in T : Sum(f, T) # f[y] + Sum(f, T \ {y})}
<1>1. SUFFICES ASSUME X # {}
               PROVE  FALSE
  <2>1. S \cap Ticks \notin X
    BY <1>1
  <2>2. (S \ {x}) \cap Ticks = (S \cap Ticks) \ {x}
    OBVIOUS
  <2>3. Sum(f, S \ {x}) = Sum(f, (S \cap Ticks) \ {x})
    BY <2>2, SumOnTicks
  <2> QED
    BY <2>1, <2>3, SumOnTicks
<1>2. PICK T \in X : \A U \in X : U \subseteq T => U = T
  <2>1. X \in SUBSET SUBSET Ticks
    OBVIOUS
  <2> HIDE DEF X
  <2> QED
    BY <1>1, <2>1, LeastSubset, TicksFinite
<1>3. PICK y \in T : Sum(f, T) # f[y] + Sum(f, T \ {y})
  OBVIOUS
<1> DEFINE c == One(T)  R == T \ {c}  Q == T \ {y}  O == T \ {c, y}
<1>4. c \in T /\ Sum(f, T) = f[c] + Sum(f, R)
  BY <1>3, SumOne
<1>5. y # c
  BY <1>3, <1>4
<1>6. R \notin X /\ Q \notin X /\ R \in SUBSET Ticks /\ Q \in SUBSET Ticks
  BY <1>2, <1>4, <1>5
<1>7. y \in R /\ c \in Q /\ R \ {y} = O /\ Q \ {c} = O
  BY <1>4, <1>5
<1>8. Sum(f, R) = f[y] + Sum(f, O) /\ Sum(f, Q) = f[c] + Sum(f, O)
  BY <1>6, <1>7
<1>9. f[c] \in Nat /\ f[y] \in Nat /\ Sum(f, O) \in Nat
  BY <1>4, SumNat DEF Nats
<1>10. Sum(f, T) = f[y] + Sum(f, Q)
  <2> HIDE DEF c, R, Q, O
  <2> QED
    BY <1>4, <1>8, <1>9
<1> QED
  BY <1>3, <1>10

LEMMA SumBound ==
  ASSUME NEW f \in Nats, NEW S, NEW x \in S \cap Ticks
  PROVE  f[x] <= Sum(f, S)
<1>1. Sum(f, S) = f[x] + Sum(f, S \ {x}) /\ f[x] \in Nat /\ Sum(f, S \ {x}) \in Nat
  BY SumTake, SumNat DEF Nats
<1> QED
  BY <1>1

LEMMA SumUnion ==
  ASSUME NEW f \in Nats, NEW A, NEW B, A \cap B \cap Ticks = {}
  PROVE  Sum(f, A \cup B) = Sum(f, A) + Sum(f, B)
<1> DEFINE X == {T \in SUBSET (A \cap Ticks) :
                   Sum(f, T \cup B) # Sum(f, T) + Sum(f, B)}
<1>1. SUFFICES ASSUME X # {}
               PROVE  FALSE
  <2>1. A \cap Ticks \notin X
    BY <1>1
  <2>2. ((A \cap Ticks) \cup B) \cap Ticks = (A \cup B) \cap Ticks
    OBVIOUS
  <2>3. Sum(f, (A \cap Ticks) \cup B) = Sum(f, A \cup B)
    <3>1. \A S : Sum(f, S) = Sum(f, S \cap Ticks)
      BY SumOnTicks
    <3> QED
      BY <2>2, <3>1, Zenon
  <2> QED
    BY <2>1, <2>3, SumOnTicks
<1>2. PICK T \in X : \A U \in X : U \subseteq T => U = T
  <2>1. X \in SUBSET SUBSET (A \cap Ticks)
    OBVIOUS
  <2> HIDE DEF X
  <2> QED
    BY <1>1, <2>1, LeastSubset, TicksFinite
<1>3. Sum(f, B) \in Nat
  BY SumNat
<1>4. T # {}
  <2>1. Sum(f, {} \cup B) = Sum(f, {}) + Sum(f, B)
    <3>1. {} \cup B = B /\ Sum(f, {}) = 0
      BY SumEmpty
    <3> QED
      BY <1>3, <3>1
  <2> QED
    BY <2>1
<1>5. PICK x \in T : TRUE
  BY <1>4
<1> DEFINE R == T \ {x}
<1>6. x \in Ticks /\ x \notin B /\ R \in SUBSET (A \cap Ticks) /\ R \notin X
  BY <1>2, <1>5
<1>7. (T \cup B) \ {x} = R \cup B
  BY <1>6
<1>8. Sum(f, T) = f[x] + Sum(f, R) /\ Sum(f, T \cup B) = f[x] + Sum(f, R \cup B)
  <2>1. x \in T \cap Ticks /\ x \in (T \cup B) \cap Ticks
    BY <1>5, <1>6
  <2>2. /\ Sum(f, T) = f[x] + Sum(f, T \ {x})
        /\ Sum(f, T \cup B) = f[x] + Sum(f, (T \cup B) \ {x})
    BY <2>1, SumTake
  <2> QED
    BY <1>7, <2>2, Zenon
<1>9. Sum(f, R \cup B) = Sum(f, R) + Sum(f, B)
  BY <1>6
<1>10. f[x] \in Nat /\ Sum(f, R) \in Nat
  BY <1>6, SumNat DEF Nats
<1>11. Sum(f, T \cup B) = Sum(f, T) + Sum(f, B)
  <2> HIDE DEF R
  <2> QED
    BY <1>3, <1>8, <1>9, <1>10
<1> QED
  BY <1>11

-----------------------------------------------------------------------------
J == "raw_to_minute"
H == "minute_to_hour"

Shape ==
  /\ now \in Ticks
  /\ mark \in [Ops -> Ticks]
  /\ pc \in [Ops -> {"idle", "read", "loop", "retain"} \X Jobs]
  /\ cursor \in [Ops -> 0..Horizon + Hour]
  /\ checkpoint \in [Jobs -> Ticks \cup {None}]
  /\ done \subseteq Ticks
  /\ settled \subseteq done

(* Buckets are whole minutes or hours.                                     *)
Aligned ==
  \A job \in Jobs :
    /\ checkpoint[job] # None => checkpoint[job] % Size(job) = 0
    /\ \A o \in Ops : pc[o] = <<"loop", job>> => cursor[o] % Size(job) = 0

InTime == \A o \in Ops : Running(o) => mark[o] <= now /\ now <= mark[o] + MaxRun

Base == Shape /\ Aligned /\ InTime

LEMMA Sizes ==
  /\ Minute \in Nat /\ Minute > 0 /\ Hour \in Nat /\ Hour > 0 /\ Minute <= Hour
  /\ Size(J) = Minute /\ Size(H) = Hour /\ Retention(J) = RawRetention
  /\ \A job \in Jobs : /\ Size(job) \in Nat /\ Size(job) > 0 /\ Size(job) <= Hour
                       /\ Retention(job) \in Nat
  /\ J \in Jobs /\ H \in Jobs /\ J # H /\ \A job \in Jobs : job = J \/ job = H
<1>1. /\ Minute \in Nat /\ Minute > 0 /\ Hour \in Nat /\ Hour > 0
      /\ Hour % Minute = 0 /\ RawRetention \in Nat /\ MinuteRetention \in Nat
  BY RollupsAssumption
<1>2. 0 % Minute = 0
  BY <1>1
<1>3. Minute <= Hour
  <2>1. 0 + Minute <= Hour
    BY <1>1, <1>2, Apart
  <2> QED
    BY <1>1, <2>1
<1> QED
  BY <1>1, <1>3 DEF Size, Retention, Jobs, J, H

LEMMA TicksAre ==
  /\ Horizon \in Nat
  /\ \A t : t \in Ticks <=> t \in Int /\ 0 <= t /\ t <= Horizon
  /\ None \notin Ticks
BY RollupsAssumption DEF Ticks, None

LEMMA InitBase == Init => Base
<1> SUFFICES ASSUME Init PROVE Base
  OBVIOUS
<1>1. \A o \in Ops : ~Running(o) /\ \A job \in Jobs : pc[o] # <<"loop", job>>
  BY DEF Init, Running, Idle
<1>2. Shape
  <2>1. Idle \in {"idle", "read", "loop", "retain"} \X Jobs
    BY DEF Idle, Jobs
  <2>2. 0 \in Ticks /\ 1 \in Ticks /\ 0 \in 0..Horizon + Hour
    BY RollupsAssumption DEF Ticks
  <2> QED
    BY <2>1, <2>2 DEF Init, Shape
<1>3. Aligned
  BY <1>1 DEF Init, Aligned
<1>4. InTime
  BY <1>1 DEF InTime
<1> QED
  BY <1>2, <1>3, <1>4 DEF Base

(* Where a cycle resumes: behind a checkpoint there is nothing to catch up *)
(* on that is still kept, and with none it begins with its own bucket.     *)
LEMMA ResumeIsBehind ==
  ASSUME Base, NEW job \in Jobs, NEW at \in Ticks
  PROVE  \E last \in Int :
           /\ Resume(job, at) = last + Size(job)
           /\ last % Size(job) = 0
           /\ last <= Horizon
           /\ IF checkpoint[job] = None
              THEN Trunc(at, Size(job)) - Size(job) <= last
              ELSE /\ checkpoint[job] <= last
                   /\ last = checkpoint[job] \/ last <= at - Retention(job)
<1> DEFINE n     == Size(job)
           k     == Retention(job)
           first == Trunc(at, n)
           old   == Trunc(at - k, n)
           c     == checkpoint[job]
<1>1. /\ n \in Nat /\ n > 0 /\ k \in Nat /\ Horizon \in Nat
      /\ at \in Int /\ at - k \in Int /\ at <= Horizon /\ 0 <= at
  BY Sizes, TicksAre
<1>2. first \in Int /\ first <= at /\ first % n = 0
  BY <1>1, TruncBelow
<1>3. old \in Int /\ old <= at - k /\ old % n = 0
  BY <1>1, TruncBelow
<1>4. c # None => c \in Int /\ c <= Horizon /\ c % n = 0
  BY TicksAre DEF Base, Shape, Aligned
<1>5. PICK before \in Int : before = IF c = None THEN first - n ELSE c
  BY <1>1, <1>2, <1>4
<1>6. before % n = 0
  <2>1. CASE c = None
    <3>1. PICK p \in Int : first = n * p
      BY <1>1, <1>2, Multiple
    <3>2. before = n * (p - 1)
      <4> HIDE DEF n, first
      <4> QED
        BY <1>1, <1>2, <1>5, <2>1, <3>1, SMT
    <3>3. (n * (p - 1)) % n = 0
      <4> HIDE DEF n
      <4> QED
        BY <1>1, WholeTimes
    <3> QED
      BY <3>2, <3>3
  <2>2. CASE c # None
    BY <1>4, <1>5, <2>2
  <2> QED
    BY <2>1, <2>2
<1>7. before < at - k => before <= old
  <2> HIDE DEF n, k, c, first
  <2>1. ASSUME before < at - k
        PROVE  before <= Trunc(at - k, n)
    <3>1. before <= at - k
      BY <1>1, <2>1
    <3> QED
      BY <1>1, <1>6, <3>1, TruncIsLast
  <2> QED
    BY <2>1
<1>8. Resume(job, at) = (IF before < at - k THEN old ELSE before) + n
  BY <1>5 DEF Resume
<1> HIDE DEF n, k, first, old, c
<1>9. before <= Horizon
  BY <1>1, <1>2, <1>4, <1>5
<1>10. PICK last \in Int :
         /\ Resume(job, at) = last + n /\ last % n = 0 /\ before <= last
         /\ last = before \/ last <= at - k
  BY <1>3, <1>5, <1>6, <1>7, <1>8
<1>11. last <= Horizon
  BY <1>1, <1>9, <1>10
<1> QED
  BY <1>5, <1>10, <1>11 DEF n, k, first, c

LEMMA ResumeInRange ==
  ASSUME Base, NEW job \in Jobs, NEW at \in Ticks
  PROVE  Resume(job, at) \in 0..Horizon + Hour /\ Resume(job, at) % Size(job) = 0
<1> DEFINE n == Size(job)
<1>1. PICK last \in Int :
           /\ Resume(job, at) = last + n
           /\ last % n = 0
           /\ last <= Horizon
           /\ IF checkpoint[job] = None
              THEN Trunc(at, n) - n <= last
              ELSE /\ checkpoint[job] <= last
                   /\ last = checkpoint[job] \/ last <= at - Retention(job)
  BY ResumeIsBehind
<1>2. /\ n \in Nat /\ n > 0 /\ n <= Hour /\ Horizon \in Nat /\ Hour \in Nat
      /\ at \in Int /\ 0 <= at
  BY Sizes, TicksAre
<1>3. Trunc(at, n) \in Int /\ 0 <= Trunc(at, n)
  <2> HIDE DEF n
  <2>1. 0 % n = 0
    BY <1>2
  <2>2. Trunc(at, n) \in Int
    BY <1>2, TruncBelow
  <2> QED
    BY <1>2, <2>1, <2>2, TruncIsLast
<1>4. checkpoint[job] # None => checkpoint[job] \in Int /\ 0 <= checkpoint[job]
  BY TicksAre DEF Base, Shape
<1> HIDE DEF n
<1>5. (last + n) % n = 0
  BY <1>1, <1>2, NextWhole
<1>6. 0 <= last + n /\ last + n <= Horizon + Hour
  BY <1>1, <1>2, <1>3, <1>4
<1> QED
  BY <1>1, <1>2, <1>5, <1>6 DEF n

(* The bucket that is processed: a tick, and whole.                        *)
LEMMA BucketIs ==
  ASSUME Base, NEW o \in Ops, NEW job \in Jobs, ProcessBucket(o, job)
  PROVE  /\ cursor[o] \in Ticks
         /\ cursor[o] \in Int
         /\ cursor[o] % Size(job) = 0
         /\ cursor[o] <= Trunc(mark[o], Size(job))
         /\ pc[o] = <<"loop", job>>
         /\ checkpoint' = [checkpoint EXCEPT ![job] = cursor[o]]
         /\ cursor' = [cursor EXCEPT ![o] = cursor[o] + Size(job)]
         /\ UNCHANGED <<now, pc, mark, ever, held, traces, open, failed>>
<1>1. /\ pc[o] = <<"loop", job>>
      /\ cursor[o] <= Trunc(mark[o], Size(job))
      /\ checkpoint' = [checkpoint EXCEPT ![job] = cursor[o]]
      /\ cursor' = [cursor EXCEPT ![o] = cursor[o] + Size(job)]
      /\ UNCHANGED <<now, pc, mark, ever, held, raw>>
  BY DEF ProcessBucket
<1>2. cursor[o] \in Int /\ 0 <= cursor[o] /\ cursor[o] % Size(job) = 0
  BY <1>1 DEF Base, Shape, Aligned
<1>3. mark[o] \in Int /\ mark[o] <= Horizon
  BY TicksAre DEF Base, Shape
<1>4. /\ Trunc(mark[o], Size(job)) \in Int
      /\ Trunc(mark[o], Size(job)) <= mark[o]
  BY <1>3, Sizes, TruncBelow
<1>5. cursor[o] \in Ticks
  BY <1>1, <1>2, <1>3, <1>4, TicksAre
<1> QED
  BY <1>1, <1>2, <1>5 DEF raw

-----------------------------------------------------------------------------
Others(o) ==
  \A p \in Ops \ {o} : pc'[p] = pc[p] /\ mark'[p] = mark[p] /\ cursor'[p] = cursor[p]

LEMMA ProcessBase ==
  ASSUME Base, Shape', NEW o \in Ops, Others(o), now' = now,
         Running(o)' => mark'[o] <= now /\ now <= mark'[o] + MaxRun,
         \A job \in Jobs : pc'[o] = <<"loop", job>> => cursor'[o] % Size(job) = 0,
         \A job \in Jobs : \/ checkpoint'[job] = checkpoint[job]
                           \/ checkpoint'[job] % Size(job) = 0
  PROVE  Base'
<1>1. InTime'
  <2> SUFFICES ASSUME NEW p \in Ops, Running(p)'
               PROVE  mark'[p] <= now' /\ now' <= mark'[p] + MaxRun
    BY DEF InTime
  <2>1. CASE p = o
    BY <2>1
  <2>2. CASE p # o
    BY <2>2 DEF Base, InTime, Running, Others
  <2> QED
    BY <2>1, <2>2
<1>2. Aligned'
  <2> SUFFICES ASSUME NEW job \in Jobs
               PROVE  /\ checkpoint'[job] # None => checkpoint'[job] % Size(job) = 0
                      /\ \A p \in Ops : pc'[p] = <<"loop", job>> =>
                                          cursor'[p] % Size(job) = 0
    BY DEF Aligned, Size
  <2>1. checkpoint'[job] # None => checkpoint'[job] % Size(job) = 0
    BY DEF Base, Aligned
  <2>2. ASSUME NEW p \in Ops, pc'[p] = <<"loop", job>>
        PROVE  cursor'[p] % Size(job) = 0
    <3>1. CASE p = o
      BY <2>2, <3>1
    <3>2. CASE p # o
      <4>1. pc'[p] = pc[p] /\ cursor'[p] = cursor[p]
        BY <3>2 DEF Others
      <4> QED
        BY <2>2, <4>1, Zenon DEF Base, Aligned
    <3> QED
      BY <3>1, <3>2
  <2> QED
    BY <2>1, <2>2
<1> QED
  BY <1>1, <1>2 DEF Base

LEMMA StartCycleBase ==
  ASSUME Base, NEW o \in Ops, StartCycle(o)
  PROVE  Base' /\ Others(o)
<1>1. /\ pc' = [pc EXCEPT ![o] = <<"read", J>>]
      /\ mark' = [mark EXCEPT ![o] = now]
      /\ UNCHANGED <<now, cursor, checkpoint, done, settled>>
  BY DEF StartCycle, rows, past, J
<1>2. Shape'
  BY <1>1, Sizes DEF Base, Shape
<1>3. mark'[o] = now /\ pc'[o] = <<"read", J>>
  BY <1>1 DEF Base, Shape
<1>4. now <= now /\ now <= now + MaxRun
  BY RollupsAssumption, TicksAre DEF Base, Shape
<1>5. Others(o)
  BY <1>1 DEF Base, Shape, Others
<1> QED
  BY <1>1, <1>2, <1>3, <1>4, <1>5, ProcessBase

LEMMA ReadCheckpointBase ==
  ASSUME Base, NEW o \in Ops, NEW job \in Jobs, ReadCheckpoint(o, job)
  PROVE  /\ Base' /\ Others(o)
         /\ mark[o] \in Ticks /\ mark[o] <= now
         /\ pc'[o] = <<"loop", job>> /\ cursor'[o] = Resume(job, mark[o])
<1> DEFINE r == Resume(job, mark[o])
<1>1. /\ cursor' = [cursor EXCEPT ![o] = r]
      /\ pc' = [pc EXCEPT ![o] = <<"loop", job>>]
      /\ UNCHANGED <<now, mark, checkpoint, done, settled>>
      /\ pc[o] = <<"read", job>>
  BY DEF ReadCheckpoint, rows, past
<1>2. mark[o] \in Ticks /\ mark[o] <= now /\ now <= mark[o] + MaxRun
  BY <1>1 DEF Base, Shape, InTime, Running, Idle
<1>3. r \in 0..Horizon + Hour /\ r % Size(job) = 0
  BY <1>2, ResumeInRange
<1> HIDE DEF r
<1>4. Shape'
  BY <1>1, <1>3 DEF Base, Shape
<1>5. cursor'[o] = r /\ pc'[o] = <<"loop", job>> /\ mark'[o] = mark[o]
  BY <1>1 DEF Base, Shape
<1>6. \A k \in Jobs : pc'[o] = <<"loop", k>> => cursor'[o] % Size(k) = 0
  BY <1>3, <1>5
<1>7. Others(o)
  BY <1>1 DEF Base, Shape, Others
<1>8. Base'
  BY <1>1, <1>2, <1>4, <1>5, <1>6, <1>7, ProcessBase
<1> QED
  BY <1>2, <1>5, <1>7, <1>8 DEF r

LEMMA ProcessBucketBase ==
  ASSUME Base, NEW o \in Ops, NEW job \in Jobs, ProcessBucket(o, job)
  PROVE  Base' /\ Others(o)
<1> DEFINE ts == cursor[o]
           n  == Size(job)
<1>1. /\ ts \in Ticks /\ ts \in Int /\ ts % n = 0 /\ ts <= Trunc(mark[o], n)
      /\ pc[o] = <<"loop", job>>
      /\ checkpoint' = [checkpoint EXCEPT ![job] = ts]
      /\ cursor' = [cursor EXCEPT ![o] = ts + n]
      /\ UNCHANGED <<now, pc, mark>>
  BY BucketIs
<1>2. n \in Nat /\ n > 0 /\ n <= Hour /\ Hour \in Nat
  BY Sizes
<1>3. 0 <= ts /\ ts <= Horizon /\ Horizon \in Nat
  BY <1>1, TicksAre
<1>4. \/ UNCHANGED <<done, settled>>
      \/ /\ done' = done \cup ({ts} \cap Ticks)
         /\ settled' = settled \/ settled' = settled \cup {ts}
  BY DEF ProcessBucket, past
<1>5. pc[o] # Idle /\ mark[o] <= now /\ now <= mark[o] + MaxRun
  BY <1>1 DEF Base, InTime, Running, Idle
<1> HIDE DEF ts, n
<1>6. ts + n \in 0..Horizon + Hour /\ (ts + n) % n = 0
  <2>1. (ts + n) % n = 0
    BY <1>1, <1>2, NextWhole
  <2>2. ts + n \in 0..Horizon + Hour
    BY <1>1, <1>2, <1>3
  <2>3. QED
    BY <2>1, <2>2
<1>7. done' \subseteq Ticks /\ settled' \subseteq done'
  BY <1>1, <1>4 DEF Base, Shape
<1>8. Shape'
  <2>1. /\ now' \in Ticks /\ mark' \in [Ops -> Ticks]
        /\ pc' \in [Ops -> {"idle", "read", "loop", "retain"} \X Jobs]
    BY <1>1 DEF Base, Shape
  <2>2. cursor' \in [Ops -> 0..Horizon + Hour]
    BY <1>1, <1>6 DEF Base, Shape
  <2>3. checkpoint' \in [Jobs -> Ticks \cup {None}]
    BY <1>1 DEF Base, Shape
  <2>4. QED
    BY <1>7, <2>1, <2>2, <2>3 DEF Shape
<1>9. cursor'[o] = ts + n
  BY <1>1 DEF Base, Shape
<1>10. \A k \in Jobs : pc'[o] = <<"loop", k>> => cursor'[o] % Size(k) = 0
  BY <1>1, <1>6, <1>9 DEF n
<1>11. \A k \in Jobs : checkpoint'[k] = checkpoint[k] \/ checkpoint'[k] % Size(k) = 0
  BY <1>1 DEF Base, Shape, n
<1>12. Others(o)
  BY <1>1 DEF Base, Shape, Others
<1> QED
  BY <1>1, <1>5, <1>8, <1>10, <1>11, <1>12, ProcessBase

LEMMA EndJobBase ==
  ASSUME Base, NEW o \in Ops, NEW job \in Jobs, EndJob(o, job)
  PROVE  /\ Base' /\ Others(o)
         /\ \A k \in Jobs : pc'[o] # <<"loop", k>>
<1>1. PICK next \in {<<"read", "minute_to_hour">>, <<"retain", "raw_to_minute">>} :
        pc' = [pc EXCEPT ![o] = next]
  BY DEF EndJob
<1>2. UNCHANGED <<now, mark, cursor, checkpoint, done, settled>>
  BY DEF EndJob, rows, past
<1>3. Shape'
  BY <1>1, <1>2 DEF Base, Shape, Jobs
<1>4. pc'[o] = next /\ pc[o] = <<"loop", job>>
  BY <1>1 DEF Base, Shape, EndJob
<1>5. mark'[o] <= now /\ now <= mark'[o] + MaxRun
  BY <1>2, <1>4 DEF Base, InTime, Running, Idle
<1>6. \A k \in Jobs : pc'[o] # <<"loop", k>>
  BY <1>4
<1>7. Others(o)
  BY <1>1, <1>2 DEF Base, Shape, Others
<1> QED
  BY <1>2, <1>3, <1>5, <1>6, <1>7, ProcessBase

LEMMA StopBase ==
  ASSUME Base, NEW o \in Ops, Stop(o), UNCHANGED <<now, checkpoint, done, settled>>
  PROVE  /\ Base' /\ Others(o)
         /\ \A k \in Jobs : pc'[o] # <<"loop", k>>
<1>1. /\ pc' = [pc EXCEPT ![o] = Idle]
      /\ mark' = [mark EXCEPT ![o] = 0]
      /\ cursor' = [cursor EXCEPT ![o] = 0]
  BY DEF Stop
<1>2. Shape'
  <2>1. Idle \in {"idle", "read", "loop", "retain"} \X Jobs
    BY DEF Idle, Jobs
  <2>2. 0 \in Ticks /\ 0 \in 0..Horizon + Hour
    BY TicksAre, Sizes
  <2> QED
    BY <1>1, <2>1, <2>2 DEF Base, Shape
<1>3. pc'[o] = Idle
  BY <1>1 DEF Base, Shape
<1>4. ~Running(o)' /\ \A k \in Jobs : pc'[o] # <<"loop", k>>
  BY <1>3 DEF Running, Idle
<1>5. Others(o)
  BY <1>1 DEF Base, Shape, Others
<1> QED
  BY <1>2, <1>4, <1>5, ProcessBase

LEMMA TickBase ==
  ASSUME Base, Tick
  PROVE  Base'
<1>1. /\ now \in Ticks /\ now' \in Ticks /\ now' = now + 1
      /\ UNCHANGED <<pc, mark, cursor, checkpoint, done, settled>>
  BY TicksAre DEF Tick, Base, Shape, rows, process, past
<1>2. Shape'
  BY <1>1 DEF Base, Shape
<1>3. Aligned'
  BY <1>1 DEF Base, Aligned, Size
<1>4. InTime'
  <2> SUFFICES ASSUME NEW o \in Ops, Running(o)'
               PROVE  mark'[o] <= now' /\ now' <= mark'[o] + MaxRun
    BY DEF InTime
  <2>1. Running(o) /\ mark[o] \in Int /\ mark'[o] = mark[o]
    BY <1>1, TicksAre DEF Running, Base, Shape
  <2>2. mark[o] <= now /\ now < mark[o] + MaxRun
    BY <2>1 DEF Base, InTime, Tick
  <2>3. now \in Int /\ MaxRun \in Int
    BY <1>1, TicksAre, RollupsAssumption
  <2> QED
    BY <1>1, <2>1, <2>2, <2>3
<1> QED
  BY <1>2, <1>3, <1>4 DEF Base

(* What the steps of the others leave to a process, and to the rows.       *)
Steady == UNCHANGED <<now, pc, mark, cursor, checkpoint, done, settled>>

LEMMA SteadyBase ==
  ASSUME Base, Steady
  PROVE  Base'
BY DEF Base, Shape, Aligned, Size, InTime, Running, Steady

LEMMA RowSteps ==
  /\ StartTrace => Steady
  /\ \A t : InsertTrace(t) \/ FinishTrace(t) => Steady
  /\ UNCHANGED vars => Steady
BY DEF StartTrace, InsertTrace, FinishTrace, vars, rows, process, past, Steady

LEMMA StepBase ==
  ASSUME Base, [Next]_vars
  PROVE  Base'
<1>1. CASE Tick
  BY <1>1, TickBase
<1>2. CASE StartTrace
  BY <1>2, RowSteps, SteadyBase
<1>3. ASSUME NEW t \in Ticks, InsertTrace(t) \/ FinishTrace(t)
      PROVE  Base'
  BY <1>3, RowSteps, SteadyBase
<1>4. ASSUME NEW o \in Ops, StartCycle(o)
      PROVE  Base'
  BY <1>4, StartCycleBase
<1>5. ASSUME NEW o \in Ops, NEW job \in Jobs, ReadCheckpoint(o, job)
      PROVE  Base'
  BY <1>5, ReadCheckpointBase
<1>6. ASSUME NEW o \in Ops, NEW job \in Jobs, ProcessBucket(o, job)
      PROVE  Base'
  BY <1>6, ProcessBucketBase
<1>7. ASSUME NEW o \in Ops, NEW job \in Jobs, EndJob(o, job)
      PROVE  Base'
  BY <1>7, EndJobBase
<1>8. ASSUME NEW o \in Ops, RunRetention(o)
      PROVE  Base'
  BY <1>8, StopBase DEF RunRetention, past
<1>9. ASSUME NEW o \in Ops, Crash(o)
      PROVE  Base'
  BY <1>9, StopBase DEF Crash, rows, past
<1>10. CASE UNCHANGED vars
  BY <1>10, RowSteps, SteadyBase
<1> QED
  BY <1>1, <1>2, <1>3, <1>4, <1>5, <1>6, <1>7, <1>8, <1>9, <1>10 DEF Next

-----------------------------------------------------------------------------
(* No cycle outlasts a minute, or a single process runs them.              *)
CyclesClose == MaxRun <= Minute \/ \A o, p \in Ops : o = p

(* The checkpoint is one of the minutes done.                              *)
Reached ==
  /\ \A d \in done : d % Minute = 0
  /\ checkpoint[J] \in done \cup {None}
  /\ done # {} => checkpoint[J] # None

(* No minute up to c is missing.                                           *)
Filled(c) ==
  \A b \in Ticks, f \in done :
    b % Minute = 0 /\ f < b /\ b <= c /\ b > now - RawRetention => b \in done

(* A cycle resumed behind a checkpoint, or has done a minute itself ...    *)
Follows(o) == (\E f \in done : f < cursor[o]) /\ Filled(cursor[o] - 1)

(* ... or found none, and what others have done since is next to it.       *)
First(o) ==
  /\ Trunc(mark[o], Minute) <= cursor[o]
  /\ \A d \in done : /\ Trunc(mark[o], Minute) <= d + Minute
                     /\ d <= Trunc(mark[o], Minute) + Minute

Looping(o) == pc[o] = <<"loop", J>> => Follows(o) \/ First(o)

Gapless == Reached /\ Filled(checkpoint[J]) /\ \A o \in Ops : Looping(o)

LEMMA InitGapless == Init => Gapless
<1> SUFFICES ASSUME Init PROVE Gapless
  OBVIOUS
<1>1. \A o \in Ops : pc[o] # <<"loop", J>>
  BY DEF Init, Idle
<1>2. done = {} /\ checkpoint[J] = None
  BY Sizes DEF Init
<1> QED
  BY <1>1, <1>2 DEF Gapless, Reached, Filled, Looping

(* What is not yet due for deletion was not before.                        *)
LEMMA StillKept ==
  ASSUME NEW b \in Int, NEW m \in Int, NEW n \in Int, NEW k \in Int,
         m <= n, b > n - k
  PROVE  b > m - k
OBVIOUS

LEMMA LoopKept ==
  ASSUME NEW o \in Ops, Looping(o), Shape, now' \in Ticks, now <= now',
         pc'[o] = pc[o], cursor'[o] = cursor[o], mark'[o] = mark[o], done' = done
  PROVE  Looping(o)'
<1>1. ASSUME Filled(cursor[o] - 1)
      PROVE  Filled(cursor[o] - 1)'
  <2> SUFFICES ASSUME NEW b \in Ticks, NEW f \in done, b % Minute = 0,
                      f < b, b <= cursor[o] - 1, b > now' - RawRetention
               PROVE  b \in done
    BY DEF Filled
  <2>1. b \in Int /\ now \in Int /\ now' \in Int /\ RawRetention \in Int
    BY RollupsAssumption DEF Shape, Ticks
  <2>2. b > now - RawRetention
    BY <2>1, StillKept
  <2> QED
    BY <1>1, <2>2 DEF Filled
<1>2. First(o) => First(o)'
  BY DEF First
<1> QED
  BY <1>1, <1>2 DEF Looping, Follows

(* Time passing changes nothing but what is too old to matter.             *)
LEMMA TickGapless ==
  ASSUME Base, Gapless, Tick
  PROVE  Gapless'
<1>1. /\ now \in Ticks /\ now' \in Ticks /\ now <= now'
      /\ UNCHANGED <<pc, mark, cursor, checkpoint, done>>
  BY TicksAre DEF Tick, Base, Shape, rows, process, past
<1>2. Reached'
  BY <1>1 DEF Gapless, Reached
<1>3. Filled(checkpoint[J])'
  <2> SUFFICES ASSUME NEW b \in Ticks, NEW f \in done, b % Minute = 0,
                      f < b, b <= checkpoint[J], b > now' - RawRetention
               PROVE  b \in done
    BY <1>1 DEF Filled
  <2>1. b \in Int /\ now \in Int /\ now' \in Int /\ RawRetention \in Int
    BY <1>1, RollupsAssumption, TicksAre
  <2>2. b > now - RawRetention
    BY <1>1, <2>1, StillKept
  <2> QED
    BY <2>2 DEF Gapless, Filled
<1>4. \A o \in Ops : Looping(o)'
  BY <1>1, LoopKept DEF Base, Gapless
<1> QED
  BY <1>2, <1>3, <1>4 DEF Gapless

(* A step of one process that moves neither checkpoint nor buckets.        *)
LEMMA ProcessGapless ==
  ASSUME Base, Gapless, NEW o \in Ops, Others(o), Looping(o)',
         now' = now, done' = done, checkpoint'[J] = checkpoint[J]
  PROVE  Gapless'
<1>1. Reached'
  BY DEF Gapless, Reached
<1>2. Filled(checkpoint[J])'
  BY DEF Gapless, Filled
<1>3. ASSUME NEW p \in Ops
      PROVE  Looping(p)'
  <2>1. CASE p = o
    BY <2>1
  <2>2. CASE p # o
    <3>1. now' \in Ticks /\ now <= now'
      BY TicksAre DEF Base, Shape
    <3> QED
      BY <2>2, <3>1, LoopKept DEF Base, Gapless, Others
  <2> QED
    BY <2>1, <2>2
<1> QED
  BY <1>1, <1>2, <1>3 DEF Gapless

(* Behind a checkpoint, nothing before the place to resume is missing.     *)
LEMMA ResumeFollows ==
  ASSUME Base, Gapless, NEW at \in Ticks, at <= now, done # {}
  PROVE  /\ \E f \in done : f < Resume(J, at)
         /\ \A b \in Ticks, f \in done :
              b % Minute = 0 /\ f < b /\ b <= Resume(J, at) - 1 /\ b > now - RawRetention
                => b \in done
<1> DEFINE c == checkpoint[J]
           r == Resume(J, at)
<1>1. /\ Minute \in Nat /\ Minute > 0 /\ RawRetention \in Nat
      /\ at \in Int /\ now \in Int
  BY Sizes, RollupsAssumption, TicksAre DEF Base, Shape
<1>2. c \in done /\ c # None
  BY DEF Gapless, Reached
<1>3. c \in Int
  BY <1>2, TicksAre DEF Base, Shape
<1>4. PICK last \in Int : /\ r = last + Minute /\ last % Minute = 0 /\ c <= last
                          /\ last = c \/ last <= at - RawRetention
  BY <1>2, ResumeIsBehind, Sizes
<1> HIDE DEF c, r
<1>5. c < r
  BY <1>1, <1>3, <1>4
<1>6. ASSUME NEW b \in Ticks, NEW f \in done,
             b % Minute = 0, f < b, b <= r - 1, b > now - RawRetention
      PROVE  b \in done
  <2>1. b \in Int
    BY TicksAre
  <2>2. b <= last
    <3>1. ASSUME last < b
          PROVE  FALSE
      <4>1. last + Minute <= b
        BY <1>1, <1>4, <1>6, <2>1, <3>1, Apart
      <4> QED
        BY <1>1, <1>4, <1>6, <2>1, <4>1
    <3> QED
      BY <1>4, <2>1, <3>1
  <2>3. b <= c
    BY <1>1, <1>3, <1>4, <1>6, <2>1, <2>2
  <2> QED
    BY <1>6, <2>3 DEF Gapless, Filled, c
<1> QED
  BY <1>2, <1>5, <1>6 DEF r

LEMMA ReadCheckpointGapless ==
  ASSUME Base, Gapless, NEW o \in Ops, NEW job \in Jobs, ReadCheckpoint(o, job)
  PROVE  Gapless'
<1> DEFINE r == Resume(job, mark[o])
<1>1. /\ UNCHANGED <<now, mark, checkpoint, done>>
      /\ Others(o) /\ mark[o] \in Ticks /\ mark[o] <= now
      /\ pc'[o] = <<"loop", job>> /\ cursor'[o] = r
  BY ReadCheckpointBase DEF ReadCheckpoint, rows, past
<1>2. Looping(o)'
  <2> SUFFICES ASSUME job = J
               PROVE  (Follows(o) \/ First(o))'
    BY <1>1 DEF Looping
  <2>1. CASE done = {}
    <3>1. checkpoint[J] = None
      BY <2>1 DEF Gapless, Reached
    <3>2. PICK last \in Int : /\ r = last + Minute
                              /\ Trunc(mark[o], Minute) - Minute <= last
      BY <1>1, <3>1, ResumeIsBehind, Sizes
    <3>3. Trunc(mark[o], Minute) \in Int /\ Minute \in Int
      <4>1. mark[o] \in Int /\ Minute \in Nat /\ Minute > 0
        BY <1>1, Sizes, TicksAre
      <4> QED
        BY <4>1, TruncBelow
    <3> HIDE DEF r
    <3>4. Trunc(mark[o], Minute) <= r
      BY <3>2, <3>3
    <3> QED
      BY <1>1, <2>1, <3>4 DEF First
  <2>2. CASE done # {}
    <3>1. /\ \E f \in done : f < r
          /\ \A b \in Ticks, f \in done :
               b % Minute = 0 /\ f < b /\ b <= r - 1 /\ b > now - RawRetention
                 => b \in done
      BY <1>1, <2>2, ResumeFollows
    <3> HIDE DEF r
    <3> QED
      BY <1>1, <3>1 DEF Follows, Filled
  <2> QED
    BY <2>1, <2>2
<1> QED
  BY <1>1, <1>2, ProcessGapless

(* Two cycles that run at once started within a minute of each other.      *)
LEMMA StartedTogether ==
  ASSUME Base, CyclesClose, NEW o \in Ops, NEW p \in Ops, Running(o), Running(p)
  PROVE  Trunc(mark[p], Minute) <= Trunc(mark[o], Minute) + Minute
<1>1. /\ mark[o] \in Int /\ mark[p] \in Int /\ now \in Int /\ MaxRun \in Int
      /\ Minute \in Nat /\ Minute > 0
  BY RollupsAssumption, TicksAre DEF Base, Shape
<1>2. mark[p] <= now /\ now <= mark[o] + MaxRun
  BY DEF Base, InTime
<1>3. mark[p] <= mark[o] + Minute
  BY <1>1, <1>2 DEF CyclesClose
<1> QED
  BY <1>1, <1>3, TruncClose

(* A minute is processed: it joins what is done without leaving a gap      *)
(* behind it, nor one before what other cycles have done.                  *)
LEMMA ProcessMinuteGapless ==
  ASSUME Base, Gapless, CyclesClose, NEW o \in Ops, ProcessBucket(o, J)
  PROVE  Gapless'
<1> DEFINE T(p) == Trunc(mark[p], Minute)
<1>1. /\ cursor[o] \in Ticks /\ cursor[o] % Minute = 0 /\ cursor[o] <= T(o)
      /\ pc[o] = <<"loop", J>>
      /\ checkpoint' = [checkpoint EXCEPT ![J] = cursor[o]]
      /\ cursor' = [cursor EXCEPT ![o] = cursor[o] + Minute]
      /\ UNCHANGED <<now, pc, mark>>
  BY BucketIs, Sizes
<1>2. /\ Minute \in Nat /\ Minute > 0 /\ now \in Int /\ RawRetention \in Int
      /\ \A p \in Ops : mark[p] \in Ticks /\ mark[p] \in Int /\ cursor[p] \in Int
      /\ \A t \in Ticks : t \in Int /\ 0 <= t
      /\ done \subseteq Ticks
  BY RollupsAssumption, TicksAre DEF Base, Shape
<1>3. \A p \in Ops : T(p) \in Int /\ T(p) <= mark[p]
  BY <1>2, TruncBelow
<1>4. PICK ts \in Int : ts = cursor[o]
  BY <1>2
<1>5. ts % Minute = 0 /\ 0 <= ts /\ (Follows(o) \/ First(o))
  BY <1>1, <1>2, <1>4 DEF Gapless, Looping
<1>6. ts \in Ticks
  BY <1>1, <1>4
<1>7. done' = done \cup {ts}
  BY <1>4, <1>6 DEF ProcessBucket, J
<1>8. \A p \in Ops : pc[p] = <<"loop", J>> => Running(p)
  BY DEF Running, Idle
<1>9. \A p \in Ops : Running(p) => T(p) <= T(o) + Minute /\ T(o) <= T(p) + Minute
  BY <1>1, <1>8, StartedTogether
<1> HIDE DEF T
<1>10. \/ /\ \E f \in done : f < ts
          /\ \A b \in Ticks, f \in done :
               b % Minute = 0 /\ f < b /\ b <= ts - 1 /\ b > now - RawRetention
                 => b \in done
       \/ /\ ts = T(o)
          /\ \A d \in done : ts <= d + Minute /\ d <= ts + Minute
  <2>1. CASE Follows(o)
    BY <1>4, <2>1 DEF Follows, Filled
  <2>2. CASE First(o)
    <3>1. ts = T(o)
      BY <1>1, <1>3, <1>4, <2>2 DEF First, T
    <3> QED
      BY <2>2, <3>1 DEF First, T
  <2> QED
    BY <1>5, <2>1, <2>2
<1>11. /\ checkpoint'[J] = ts
       /\ cursor'[o] = ts + Minute
       /\ \A p \in Ops \ {o} : cursor'[p] = cursor[p]
  BY <1>1, <1>4, Sizes DEF Base, Shape
<1>12. \A d \in done : d % Minute = 0
  BY DEF Gapless, Reached
<1>13. ASSUME NEW b \in Ticks, NEW f \in done', b % Minute = 0, f < b, b <= ts,
              b > now - RawRetention
       PROVE  b \in done'
  <2>1. CASE b = ts
    BY <1>7, <2>1
  <2>2. CASE b # ts
    <3>1. /\ b \in Int /\ b <= ts - 1 /\ b < ts
      BY <1>2, <1>13, <2>2
    <3>2. f \in done /\ f \in Int
      <4>1. f < b /\ f \in done \cup {ts}
        BY <1>7, <1>13
      <4>2. f # ts
        BY <3>1, <4>1
      <4>3. f \in done
        BY <4>1, <4>2
      <4> QED
        BY <1>2, <4>3
    <3>3. f + Minute <= b
      BY <1>2, <1>12, <1>13, <3>1, <3>2, Apart
    <3>4. ~(ts <= f + Minute)
      BY <1>2, <3>1, <3>2, <3>3
    <3> QED
      BY <1>7, <1>10, <1>13, <3>1, <3>2, <3>4
  <2> QED
    BY <2>1, <2>2
<1>14. Reached'
  BY <1>5, <1>7, <1>11, <1>12 DEF Reached, None
<1>15. Filled(checkpoint[J])'
  BY <1>1, <1>11, <1>13 DEF Filled
<1>16. Looping(o)'
  <2>2. ts \in done' /\ ts < ts + Minute
    BY <1>2, <1>7
  <2>3. Filled(cursor[o] - 1)'
    <3> SUFFICES ASSUME NEW b \in Ticks, NEW f \in done', b % Minute = 0, f < b,
                        b <= (ts + Minute) - 1, b > now - RawRetention
                 PROVE  b \in done'
      BY <1>1, <1>11 DEF Filled
    <3>1. b \in Int
      BY <1>2
    <3>2. ~(ts + Minute <= b)
      BY <1>2, <3>1
    <3>3. ASSUME ts < b
          PROVE  FALSE
      <4>1. /\ Minute \in Nat /\ Minute > 0 /\ ts \in Int
            /\ ts % Minute = 0 /\ b % Minute = 0
        BY <1>2, <1>5
      <4>2. ts + Minute <= b
        BY <3>1, <3>3, <4>1, Apart
      <4> QED
        BY <3>2, <4>2
    <3>4. b <= ts
      BY <3>1, <3>3
    <3> QED
      BY <1>13, <3>4
  <2> QED
    BY <1>11, <2>2, <2>3 DEF Looping, Follows
<1>17. ASSUME NEW p \in Ops, p # o, pc[p] = <<"loop", J>>
       PROVE  (Follows(p) \/ First(p))'
  <2>1. cursor'[p] = cursor[p] /\ mark'[p] = mark[p] /\ cursor[p] \in Int
    BY <1>1, <1>2, <1>11, <1>17
  <2>2. T(p) <= T(o) + Minute /\ T(o) <= T(p) + Minute /\ T(p) \in Int
    BY <1>3, <1>8, <1>9, <1>17
  <2>3. CASE First(p)
    <3>1. \A d \in done : T(p) <= d + Minute /\ d <= T(p) + Minute
      BY <2>3 DEF First, T
    <3>2. ts <= T(p) + Minute
      BY <1>1, <1>2, <1>3, <1>4, <2>2
    <3>3. T(p) <= ts + Minute
      BY <1>2, <1>10, <2>2, <3>1
    <3>4. \A d \in done' : T(p) <= d + Minute /\ d <= T(p) + Minute
      BY <1>7, <3>1, <3>2, <3>3
    <3>5. T(p) <= cursor'[p]
      BY <2>1, <2>3 DEF First, T
    <3> QED
      BY <2>1, <3>4, <3>5 DEF First, T
  <2>4. CASE Follows(p)
    <3>1. PICK g \in done : g < cursor[p] /\ g \in Int
      BY <1>2, <2>4 DEF Follows
    <3>2. \A b \in Ticks, f \in done :
            b % Minute = 0 /\ f < b /\ b <= cursor[p] - 1 /\ b > now - RawRetention
              => b \in done
      BY <2>4 DEF Follows, Filled
    <3>3. ASSUME NEW b \in Ticks, NEW f \in done', b % Minute = 0, f < b,
                 b <= cursor[p] - 1, b > now - RawRetention
          PROVE  b \in done'
      <4>1. CASE f \in done
        BY <1>7, <3>2, <3>3, <4>1
      <4>2. CASE f = ts
        <5>1. b \in Int /\ ts + Minute <= b
          BY <1>2, <1>5, <3>3, <4>2, Apart
        <5>2. CASE \E e \in done : e < ts
          <6>1. PICK e \in done : e < ts /\ e \in Int
            BY <1>2, <5>2
          <6>2. e < b
            BY <1>2, <5>1, <6>1
          <6> QED
            BY <1>7, <3>2, <3>3, <6>1, <6>2
        <5>3. CASE \A d \in done : ts <= d + Minute /\ d <= ts + Minute
          <6>1. g <= b
            BY <1>2, <3>1, <5>1, <5>3
          <6>2. CASE g = b
            BY <1>7, <3>1, <6>2
          <6>3. CASE g # b
            <7>1. g < b
              BY <3>1, <5>1, <6>1, <6>3
            <7> QED
              BY <1>7, <3>2, <3>3, <7>1
          <6> QED
            BY <6>2, <6>3
        <5> QED
          BY <1>10, <5>2, <5>3
      <4> QED
        BY <1>7, <4>1, <4>2
    <3>4. \E f \in done' : f < cursor'[p]
      BY <1>7, <2>1, <3>1
    <3>5. Filled(cursor[p] - 1)'
      BY <1>1, <2>1, <3>3 DEF Filled
    <3> QED
      BY <3>4, <3>5 DEF Follows
  <2> QED
    BY <1>17, <2>3, <2>4 DEF Gapless, Looping
<1>18. ASSUME NEW p \in Ops
       PROVE  Looping(p)'
  <2>1. CASE p = o
    BY <1>16, <2>1
  <2>2. CASE p # o
    <3>1. cursor'[p] = cursor[p] /\ pc'[p] = pc[p]
      BY <1>1, <1>11, <2>2
    <3> QED
      BY <1>17, <2>2, <3>1 DEF Gapless, Looping
  <2> QED
    BY <2>1, <2>2
<1> QED
  BY <1>14, <1>15, <1>18 DEF Gapless

LEMMA StepGapless ==
  ASSUME Base, Gapless, CyclesClose, [Next]_vars
  PROVE  Gapless'
<1>1. ASSUME Steady
      PROVE  Gapless'
  BY <1>1 DEF Gapless, Reached, Filled, Looping, Follows, First, Steady
<1>2. CASE Tick
  BY <1>2, TickGapless
<1>3. CASE StartTrace
  BY <1>1, <1>3, RowSteps
<1>4. ASSUME NEW t \in Ticks, InsertTrace(t) \/ FinishTrace(t)
      PROVE  Gapless'
  BY <1>1, <1>4, RowSteps
<1>5. ASSUME NEW o \in Ops, StartCycle(o)
      PROVE  Gapless'
  <2>1. UNCHANGED <<now, checkpoint, done>> /\ Others(o)
    BY <1>5, StartCycleBase DEF StartCycle, rows, past
  <2>2. pc'[o] = <<"read", J>>
    BY <1>5 DEF StartCycle, Base, Shape, J
  <2> QED
    BY <2>1, <2>2, ProcessGapless DEF Looping
<1>6. ASSUME NEW o \in Ops, NEW job \in Jobs, ReadCheckpoint(o, job)
      PROVE  Gapless'
  BY <1>6, ReadCheckpointGapless
<1>7. ASSUME NEW o \in Ops, NEW job \in Jobs, ProcessBucket(o, job)
      PROVE  Gapless'
  <2>1. CASE job = J
    BY <1>7, <2>1, ProcessMinuteGapless
  <2>2. CASE job = H
    <3>1. /\ UNCHANGED <<now, pc>> /\ pc[o] = <<"loop", H>>
          /\ checkpoint' = [checkpoint EXCEPT ![H] = cursor[o]]
      BY <1>7, <2>2, BucketIs
    <3>2. done' = done /\ Others(o)
      BY <1>7, <2>2, ProcessBucketBase DEF ProcessBucket, past, H
    <3>3. checkpoint'[J] = checkpoint[J]
      BY <3>1, Sizes DEF Base, Shape
    <3>4. Looping(o)'
      BY <3>1, Sizes DEF Looping
    <3> QED
      BY <3>1, <3>2, <3>3, <3>4, ProcessGapless
  <2> QED
    BY <2>1, <2>2, Sizes
<1>8. ASSUME NEW o \in Ops, NEW job \in Jobs, EndJob(o, job)
      PROVE  Gapless'
  <2>1. UNCHANGED <<now, checkpoint, done>>
    BY <1>8 DEF EndJob, rows, past
  <2>2. Others(o) /\ pc'[o] # <<"loop", J>>
    BY <1>8, EndJobBase, Sizes
  <2> QED
    BY <2>1, <2>2, ProcessGapless DEF Looping
<1>9. ASSUME NEW o \in Ops, RunRetention(o) \/ Crash(o)
      PROVE  Gapless'
  <2>1. UNCHANGED <<now, checkpoint, done, settled>> /\ Stop(o)
    BY <1>9 DEF RunRetention, Crash, rows, past
  <2>2. Others(o) /\ pc'[o] # <<"loop", J>>
    BY <2>1, StopBase, Sizes
  <2> QED
    BY <2>1, <2>2, ProcessGapless DEF Looping
<1>10. CASE UNCHANGED vars
  BY <1>1, <1>10, RowSteps
<1> QED
  BY <1>2, <1>3, <1>4, <1>5, <1>6, <1>7, <1>8, <1>9, <1>10 DEF Next

(* Every minute from the first one processed to the checkpoint has been    *)
(* processed, unless its first traces are due for deletion                 *)
(* (runJobWithCatchup), if overlapping cycles began within a minute.       *)
THEOREM CatchUpLeavesNoGap ==
  ASSUME CyclesClose
  PROVE  Spec => []NoMinuteSkipped
<1>1. Init => Base /\ Gapless
  BY InitBase, InitGapless
<1>2. Base /\ Gapless /\ [Next]_vars => (Base /\ Gapless)'
  BY StepBase, StepGapless
<1>3. Base /\ Gapless => NoMinuteSkipped
  BY DEF Gapless, Filled, NoMinuteSkipped, J
<1> QED
  BY <1>1, <1>2, <1>3, PTL DEF Spec

-----------------------------------------------------------------------------
Rows ==
  /\ held \in Nats /\ traces \in Nats /\ open \in Nats /\ failed \in Nats
  /\ minute \in Nats /\ hour \in Nats /\ errors \in Nats /\ ever \in Nats
  /\ \A t \in Ticks : /\ open[t] + failed[t] <= traces[t]
                      /\ traces[t] <= ever[t]
                      /\ t >= now - RawKeep => traces[t] = ever[t]

Bounded == Sum(held, Ticks) + Sum(ever, Ticks) <= MaxTraces

(* No row of the rollups has more than there ever was.                     *)
Covered ==
  \A b \in Ticks : /\ minute[b] <= Sum(ever, TextIn(b, Minute))
                   /\ errors[b] <= Sum(ever, TextIn(b, Minute))
                   /\ hour[b] <= Sum(ever, TextIn(b, Hour))
                   /\ minute[b] > 0 => b % Minute = 0

Tables == Rows /\ Bounded /\ Covered

LEMMA SumInc ==
  ASSUME NEW f \in Nats, NEW t \in Ticks, NEW S, t \in S
  PROVE  /\ [f EXCEPT ![t] = @ + 1] \in Nats
         /\ Sum([f EXCEPT ![t] = @ + 1], S) = Sum(f, S) + 1
<1> DEFINE g == [f EXCEPT ![t] = @ + 1]
<1>1. g \in Nats /\ g[t] = f[t] + 1 /\ \A x \in Ticks \ {t} : g[x] = f[x]
  BY DEF Nats
<1> HIDE DEF g
<1>2. Sum(g, S) = g[t] + Sum(g, S \ {t}) /\ Sum(f, S) = f[t] + Sum(f, S \ {t})
  BY <1>1, SumTake
<1>3. Sum(g, S \ {t}) = Sum(f, S \ {t})
  BY <1>1, SumSame
<1>4. f[t] \in Nat /\ Sum(f, S \ {t}) \in Nat
  BY SumNat DEF Nats
<1> QED
  BY <1>1, <1>2, <1>3, <1>4 DEF g

LEMMA SumDec ==
  ASSUME NEW f \in Nats, NEW t \in Ticks, f[t] > 0, NEW S, t \in S
  PROVE  /\ [f EXCEPT ![t] = @ - 1] \in Nats
         /\ Sum([f EXCEPT ![t] = @ - 1], S) + 1 = Sum(f, S)
<1> DEFINE g == [f EXCEPT ![t] = @ - 1]
<1>1. g \in Nats /\ g[t] + 1 = f[t] /\ \A x \in Ticks \ {t} : g[x] = f[x]
  BY DEF Nats
<1> HIDE DEF g
<1>2. Sum(g, S) = g[t] + Sum(g, S \ {t}) /\ Sum(f, S) = f[t] + Sum(f, S \ {t})
  BY <1>1, SumTake
<1>3. Sum(g, S \ {t}) = Sum(f, S \ {t})
  BY <1>1, SumSame
<1>4. g[t] \in Nat /\ Sum(f, S \ {t}) \in Nat
  BY <1>1, SumNat DEF Nats
<1> QED
  BY <1>1, <1>2, <1>3, <1>4 DEF g

LEMMA SumSubset ==
  ASSUME NEW f \in Nats, NEW A, NEW B, A \subseteq B
  PROVE  Sum(f, A) <= Sum(f, B)
<1>1. A \cup (B \ A) = B /\ A \cap (B \ A) \cap Ticks = {}
  OBVIOUS
<1>2. Sum(f, A \cup (B \ A)) = Sum(f, A) + Sum(f, B \ A)
  BY <1>1, SumUnion
<1>3. Sum(f, B) = Sum(f, A) + Sum(f, B \ A)
  BY <1>1, <1>2
<1>4. Sum(f, A) \in Nat /\ Sum(f, B \ A) \in Nat
  BY SumNat
<1> QED
  BY <1>3, <1>4

LEMMA InitTables == Init => Tables
<1> SUFFICES ASSUME Init PROVE Tables
  OBVIOUS
<1>1. Zero \in Nats /\ \A t \in Ticks : Zero[t] = 0
  BY DEF Zero, Nats
<1>2. \A S : Sum(Zero, S) = 0
  <2> SUFFICES ASSUME NEW S
               PROVE  Sum(Zero, S) = 0
    OBVIOUS
  <2> DEFINE X == {T \in SUBSET Ticks : Sum(Zero, T) # 0}
  <2>1. ASSUME X # {}
        PROVE  FALSE
    <3>1. PICK T \in X : \A U \in X : U \subseteq T => U = T
      <4>1. X \in SUBSET SUBSET Ticks
        OBVIOUS
      <4> HIDE DEF X
      <4> QED
        BY <2>1, <4>1, LeastSubset, TicksFinite
    <3>2. T # {}
      BY SumEmpty
    <3>3. One(T) \in T /\ Sum(Zero, T) = Zero[One(T)] + Sum(Zero, T \ {One(T)})
      BY <3>2, SumOne
    <3>4. Sum(Zero, T \ {One(T)}) = 0
      BY <3>1, <3>3
    <3> QED
      BY <1>1, <3>3, <3>4
  <2>2. S \cap Ticks \notin X
    BY <2>1
  <2> QED
    BY <2>2, SumOnTicks
<1>3. Rows
  <2>1. now = 1 /\ RawKeep \in Nat
    BY RollupsAssumption DEF Init
  <2> QED
    BY <1>1, <2>1 DEF Init, Rows
<1>4. Bounded
  BY <1>2, RollupsAssumption DEF Init, Bounded
<1>5. Covered
  BY <1>1, <1>2 DEF Init, Covered
<1> QED
  BY <1>3, <1>4, <1>5 DEF Tables

(* What grows covers what it covered.                                      *)
LEMMA StillCovered ==
  ASSUME Covered, ever \in Nats, ever' \in Nats,
         minute \in Nats, hour \in Nats, errors \in Nats,
         minute' \in Nats, hour' \in Nats, errors' \in Nats,
         \A t \in Ticks : /\ ever[t] <= ever'[t]
                          /\ minute'[t] <= minute[t]
                          /\ hour'[t] <= hour[t]
                          /\ errors'[t] <= errors[t]
  PROVE  Covered'
<1> SUFFICES ASSUME NEW b \in Ticks
             PROVE  /\ minute'[b] <= Sum(ever', TextIn(b, Minute))
                    /\ errors'[b] <= Sum(ever', TextIn(b, Minute))
                    /\ hour'[b] <= Sum(ever', TextIn(b, Hour))
                    /\ minute'[b] > 0 => b % Minute = 0
  BY DEF Covered
<1>1. /\ minute[b] <= Sum(ever, TextIn(b, Minute))
      /\ errors[b] <= Sum(ever, TextIn(b, Minute))
      /\ hour[b] <= Sum(ever, TextIn(b, Hour))
      /\ minute[b] > 0 => b % Minute = 0
  BY DEF Covered
<1>2. /\ Sum(ever, TextIn(b, Minute)) <= Sum(ever', TextIn(b, Minute))
      /\ Sum(ever, TextIn(b, Hour)) <= Sum(ever', TextIn(b, Hour))
  BY SumMono
<1>3. /\ Sum(ever, TextIn(b, Minute)) \in Nat
      /\ Sum(ever', TextIn(b, Minute)) \in Nat
      /\ Sum(ever, TextIn(b, Hour)) \in Nat
      /\ Sum(ever', TextIn(b, Hour)) \in Nat
  BY SumNat
<1>4. /\ minute[b] \in Nat /\ hour[b] \in Nat /\ errors[b] \in Nat
      /\ minute'[b] \in Nat /\ hour'[b] \in Nat /\ errors'[b] \in Nat
      /\ minute'[b] <= minute[b] /\ hour'[b] <= hour[b] /\ errors'[b] <= errors[b]
  BY DEF Nats
<1> QED
  BY <1>1, <1>2, <1>3, <1>4

-----------------------------------------------------------------------------
(* Steps of processes that touch no row.                                   *)
Untouched == UNCHANGED <<held, traces, open, failed, minute, hour, errors, ever>>

LEMMA StillLater ==
  ASSUME NEW t \in Int, NEW a \in Int, NEW b \in Int, NEW k \in Int,
         a <= b, t >= b - k
  PROVE  t >= a - k
OBVIOUS

LEMMA UntouchedTables ==
  ASSUME Tables, Untouched, now \in Ticks, now' \in Ticks, now <= now'
  PROVE  Tables'
<1>1. Rows'
  <2> SUFFICES ASSUME NEW t \in Ticks, t >= now' - RawKeep
               PROVE  traces[t] = ever[t]
    BY DEF Tables, Rows, Untouched
  <2>1. t \in Int /\ now \in Int /\ now' \in Int /\ RawKeep \in Int
    BY TicksAre, RollupsAssumption
  <2>2. t >= now' - RawKeep /\ now <= now'
    OBVIOUS
  <2>3. t >= now - RawKeep
    BY <2>1, <2>2, StillLater
  <2> QED
    BY <2>3 DEF Tables, Rows
<1>2. Bounded' /\ Covered'
  BY DEF Tables, Bounded, Covered, Untouched
<1> QED
  BY <1>1, <1>2 DEF Tables

LEMMA StartTraceTables ==
  ASSUME Base, Tables, StartTrace
  PROVE  Tables'
<1>1. /\ Sum(held, Ticks) + Sum(ever, Ticks) < MaxTraces
      /\ held' = [held EXCEPT ![now] = @ + 1]
      /\ UNCHANGED <<now, traces, open, failed, minute, hour, errors, ever>>
  BY DEF StartTrace, rows, raw, rollups
<1>2. held \in Nats /\ now \in Ticks /\ ever \in Nats
  BY DEF Base, Shape, Tables, Rows
<1>3. held' \in Nats /\ Sum(held', Ticks) = Sum(held, Ticks) + 1
  BY <1>1, <1>2, SumInc
<1>4. Sum(held, Ticks) \in Nat /\ Sum(ever, Ticks) \in Nat /\ MaxTraces \in Nat
  BY <1>2, SumNat, RollupsAssumption
<1>5. Bounded'
  BY <1>1, <1>3, <1>4 DEF Bounded
<1>6. Rows' /\ Covered'
  BY <1>1, <1>3 DEF Tables, Rows, Covered
<1> QED
  BY <1>5, <1>6 DEF Tables

LEMMA InsertTraceTables ==
  ASSUME Base, Tables, NEW t \in Ticks, InsertTrace(t)
  PROVE  Tables'
<1>1. /\ held[t] > 0
      /\ held' = [held EXCEPT ![t] = @ - 1]
      /\ traces' = [traces EXCEPT ![t] = @ + 1]
      /\ ever' = [ever EXCEPT ![t] = @ + 1]
      /\ open' = open \/ open' = [open EXCEPT ![t] = @ + 1]
      /\ UNCHANGED <<now, failed, minute, hour, errors>>
  BY DEF InsertTrace, rollups
<1>2. /\ held \in Nats /\ traces \in Nats /\ open \in Nats /\ ever \in Nats
      /\ failed \in Nats /\ minute \in Nats /\ hour \in Nats /\ errors \in Nats
  BY DEF Tables, Rows
<1>3. /\ held' \in Nats /\ Sum(held', Ticks) + 1 = Sum(held, Ticks)
      /\ ever' \in Nats /\ Sum(ever', Ticks) = Sum(ever, Ticks) + 1
      /\ traces' \in Nats /\ open' \in Nats
  <2>1. t \in Ticks
    OBVIOUS
  <2>2. held' \in Nats /\ Sum(held', Ticks) + 1 = Sum(held, Ticks)
    BY <1>1, <1>2, <2>1, SumDec
  <2>3. ever' \in Nats /\ Sum(ever', Ticks) = Sum(ever, Ticks) + 1
    BY <1>1, <1>2, <2>1, SumInc
  <2>4. traces' \in Nats /\ open' \in Nats
    BY <1>1, <1>2 DEF Nats
  <2> QED
    BY <2>2, <2>3, <2>4
<1>4. Bounded'
  <2>1. /\ Sum(held', Ticks) \in Nat /\ Sum(ever, Ticks) \in Nat
        /\ Sum(held, Ticks) \in Nat
    BY <1>2, <1>3, SumNat
  <2>2. Sum(held', Ticks) + Sum(ever', Ticks) = Sum(held, Ticks) + Sum(ever, Ticks)
    BY <1>3, <2>1
  <2> QED
    BY <2>2 DEF Tables, Bounded
<1>5. Rows'
  <2>1. ASSUME NEW x \in Ticks
        PROVE  /\ open'[x] + failed[x] <= traces'[x]
               /\ traces'[x] <= ever'[x]
               /\ x >= now - RawKeep => traces'[x] = ever'[x]
    <3>1. /\ open[x] + failed[x] <= traces[x] /\ traces[x] <= ever[x]
          /\ x >= now - RawKeep => traces[x] = ever[x]
      BY DEF Tables, Rows
    <3>2. /\ open[x] \in Nat /\ failed[x] \in Nat /\ traces[x] \in Nat
          /\ ever[x] \in Nat
      BY <1>2 DEF Nats
    <3>3. CASE x = t
      <4>1. /\ traces'[x] = traces[x] + 1 /\ ever'[x] = ever[x] + 1
            /\ open'[x] = open[x] \/ open'[x] = open[x] + 1
        BY <1>1, <1>2, <3>3 DEF Nats
      <4> QED
        BY <3>1, <3>2, <4>1
    <3>4. CASE x # t
      <4>1. traces'[x] = traces[x] /\ ever'[x] = ever[x] /\ open'[x] = open[x]
        BY <1>1, <1>2, <3>4 DEF Nats
      <4> QED
        BY <3>1, <4>1
    <3> QED
      BY <3>3, <3>4
  <2> QED
    BY <1>1, <1>2, <1>3, <2>1 DEF Rows
<1>6. Covered'
  <2>1. \A x \in Ticks : ever[x] <= ever'[x]
    BY <1>1, <1>2 DEF Nats
  <2>2. \A x \in Ticks : /\ minute'[x] <= minute[x] /\ hour'[x] <= hour[x]
                         /\ errors'[x] <= errors[x]
    BY <1>1, <1>2 DEF Nats
  <2> QED
    BY <1>1, <1>2, <1>3, <2>1, <2>2, StillCovered DEF Tables
<1> QED
  BY <1>4, <1>5, <1>6 DEF Tables

LEMMA FinishTraceTables ==
  ASSUME Base, Tables, NEW t \in Ticks, FinishTrace(t)
  PROVE  Tables'
<1>1. /\ open[t] > 0
      /\ open' = [open EXCEPT ![t] = @ - 1]
      /\ failed' = [failed EXCEPT ![t] = @ + 1]
      /\ UNCHANGED <<now, held, traces, minute, hour, errors, ever>>
  BY DEF FinishTrace, rollups
<1>2. open \in Nats /\ failed \in Nats
  BY DEF Tables, Rows
<1>3. open' \in Nats /\ failed' \in Nats
  BY <1>1, <1>2 DEF Nats
<1>4. \A x \in Ticks : open'[x] + failed'[x] = open[x] + failed[x]
  BY <1>1, <1>2 DEF Nats
<1>5. Rows'
  BY <1>1, <1>3, <1>4 DEF Tables, Rows
<1>6. Bounded' /\ Covered'
  BY <1>1 DEF Tables, Bounded, Covered
<1> QED
  BY <1>5, <1>6 DEF Tables

LEMMA WithoutIs ==
  ASSUME NEW f \in Nats, NEW c \in Int
  PROVE  /\ Without(f, c) \in Nats
         /\ \A t \in Ticks : /\ Without(f, c)[t] <= f[t]
                             /\ t < c => Without(f, c)[t] = 0
                             /\ t >= c => Without(f, c)[t] = f[t]
BY TicksAre DEF Without, Nats

LEMMA RetentionTables ==
  ASSUME Base, Tables, NEW o \in Ops, RunRetention(o)
  PROVE  Tables'
<1>1. /\ traces' = Without(traces, now - RawKeep)
      /\ open' = Without(open, now - RawKeep)
      /\ failed' = Without(failed, now - RawKeep)
      /\ minute' = Without(minute, now - MinuteKeep)
      /\ errors' = Without(errors, now - MinuteKeep)
      /\ UNCHANGED <<now, held, hour, ever>>
  BY DEF RunRetention
<1>2. now - RawKeep \in Int /\ now - MinuteKeep \in Int
  BY RollupsAssumption, TicksAre DEF Base, Shape
<1>3. /\ held \in Nats /\ traces \in Nats /\ open \in Nats /\ ever \in Nats
      /\ failed \in Nats /\ minute \in Nats /\ hour \in Nats /\ errors \in Nats
  BY DEF Tables, Rows
<1>4. /\ traces' \in Nats /\ open' \in Nats /\ failed' \in Nats
      /\ minute' \in Nats /\ errors' \in Nats
  BY <1>1, <1>2, <1>3, WithoutIs
<1>5. Rows'
  <2>1. ASSUME NEW x \in Ticks
        PROVE  /\ open'[x] + failed'[x] <= traces'[x]
               /\ traces'[x] <= ever[x]
               /\ x >= now - RawKeep => traces'[x] = ever[x]
    <3>1. /\ open[x] + failed[x] <= traces[x] /\ traces[x] <= ever[x]
          /\ x >= now - RawKeep => traces[x] = ever[x]
          /\ ever[x] \in Nat
      BY <1>3 DEF Tables, Rows, Nats
    <3>2. CASE x < now - RawKeep
      <4>1. traces'[x] = 0 /\ open'[x] = 0 /\ failed'[x] = 0
        BY <1>1, <1>2, <1>3, <3>2, WithoutIs
      <4>2. x \in Int
        BY TicksAre
      <4> QED
        BY <1>2, <3>1, <3>2, <4>1, <4>2
    <3>3. CASE x >= now - RawKeep
      <4>1. traces'[x] = traces[x] /\ open'[x] = open[x] /\ failed'[x] = failed[x]
        BY <1>1, <1>2, <1>3, <3>3, WithoutIs
      <4> QED
        BY <3>1, <4>1
    <3> QED
      BY <1>2, <3>2, <3>3, TicksAre
  <2> QED
    BY <1>1, <1>3, <1>4, <2>1 DEF Rows
<1>6. Bounded'
  BY <1>1 DEF Tables, Bounded
<1>7. Covered'
  <2>1. \A x \in Ticks : /\ ever[x] <= ever'[x] /\ hour'[x] <= hour[x]
    BY <1>1, <1>3 DEF Nats
  <2>2. \A x \in Ticks : minute'[x] <= minute[x] /\ errors'[x] <= errors[x]
    BY <1>1, <1>2, <1>3, WithoutIs
  <2> QED
    BY <1>1, <1>3, <1>4, <2>1, <2>2, StillCovered DEF Tables
<1> QED
  BY <1>5, <1>6, <1>7 DEF Tables

-----------------------------------------------------------------------------
LEMMA UpsertedIs ==
  ASSUME NEW f \in Nats, NEW ts \in Ticks, NEW n \in Nat, NEW c \in Nat
  PROVE  /\ Upserted(f, ts, n, c) \in Nats
         /\ Upserted(f, ts, n, c)[ts] = IF n > 0 THEN c ELSE f[ts]
         /\ \A t \in Ticks \ {ts} : Upserted(f, ts, n, c)[t] = f[t]
BY DEF Upserted, Nats

(* What processing a minute writes.                                        *)
LEMMA MinuteWritten ==
  ASSUME Base, Tables, NEW o \in Ops, ProcessBucket(o, J),
         NEW ts, ts = cursor[o],
         NEW n, n = Sum(traces, TextIn(ts, Minute)),
         NEW e, e = Sum(failed, TextIn(ts, Minute))
  PROVE  /\ ts \in Ticks /\ ts % Minute = 0 /\ n \in Nat /\ e \in Nat /\ e <= n
         /\ n <= Sum(ever, TextIn(ts, Minute))
         /\ minute' \in Nats /\ errors' \in Nats
         /\ minute'[ts] = IF n > 0 THEN n ELSE minute[ts]
         /\ errors'[ts] = IF n > 0 THEN e ELSE errors[ts]
         /\ \A t \in Ticks \ {ts} : minute'[t] = minute[t] /\ errors'[t] = errors[t]
         /\ UNCHANGED <<now, held, traces, open, failed, hour, ever>>
<1>1. /\ ts \in Ticks /\ ts % Minute = 0
      /\ UNCHANGED <<now, held, traces, open, failed, ever>>
  BY BucketIs, Sizes
<1>2. /\ minute' = Upserted(minute, ts, n, n)
      /\ errors' = Upserted(errors, ts, n, e)
      /\ UNCHANGED hour
  BY DEF ProcessBucket, J
<1>3. /\ traces \in Nats /\ failed \in Nats /\ ever \in Nats
      /\ minute \in Nats /\ errors \in Nats
  BY DEF Tables, Rows
<1>4. n \in Nat /\ e \in Nat
  BY <1>3, SumNat
<1>5. \A t \in Ticks : failed[t] <= traces[t] /\ traces[t] <= ever[t]
  <2> SUFFICES ASSUME NEW t \in Ticks
               PROVE  failed[t] <= traces[t] /\ traces[t] <= ever[t]
    OBVIOUS
  <2>1. open[t] + failed[t] <= traces[t] /\ traces[t] <= ever[t]
    BY DEF Tables, Rows
  <2>2. open[t] \in Nat /\ failed[t] \in Nat /\ traces[t] \in Nat
    BY DEF Tables, Rows, Nats
  <2> QED
    BY <2>1, <2>2
<1>6. e <= n /\ n <= Sum(ever, TextIn(ts, Minute))
  BY <1>3, <1>5, SumMono
<1>7. /\ minute' \in Nats /\ errors' \in Nats
      /\ minute'[ts] = IF n > 0 THEN n ELSE minute[ts]
      /\ errors'[ts] = IF n > 0 THEN e ELSE errors[ts]
      /\ \A t \in Ticks \ {ts} : minute'[t] = minute[t] /\ errors'[t] = errors[t]
  <2>1. /\ Upserted(minute, ts, n, n) \in Nats
        /\ Upserted(minute, ts, n, n)[ts] = IF n > 0 THEN n ELSE minute[ts]
        /\ \A t \in Ticks \ {ts} : Upserted(minute, ts, n, n)[t] = minute[t]
    BY <1>1, <1>3, <1>4 DEF Upserted, Nats
  <2>2. /\ Upserted(errors, ts, n, e) \in Nats
        /\ Upserted(errors, ts, n, e)[ts] = IF n > 0 THEN e ELSE errors[ts]
        /\ \A t \in Ticks \ {ts} : Upserted(errors, ts, n, e)[t] = errors[t]
    BY <1>1, <1>3, <1>4 DEF Upserted, Nats
  <2> QED
    BY <1>2, <2>1, <2>2
<1> QED
  BY <1>1, <1>2, <1>4, <1>6, <1>7

LEMMA ProcessMinuteTables ==
  ASSUME Base, Tables, NEW o \in Ops, ProcessBucket(o, J)
  PROVE  Tables'
<1>1. PICK ts, n, e : /\ ts = cursor[o]
                      /\ n = Sum(traces, TextIn(ts, Minute))
                      /\ e = Sum(failed, TextIn(ts, Minute))
  OBVIOUS
<1>2. /\ ts \in Ticks /\ ts % Minute = 0 /\ n \in Nat /\ e \in Nat /\ e <= n
      /\ n <= Sum(ever, TextIn(ts, Minute))
      /\ minute' \in Nats /\ errors' \in Nats
      /\ minute'[ts] = IF n > 0 THEN n ELSE minute[ts]
      /\ errors'[ts] = IF n > 0 THEN e ELSE errors[ts]
      /\ \A t \in Ticks \ {ts} : minute'[t] = minute[t] /\ errors'[t] = errors[t]
      /\ UNCHANGED <<now, held, traces, open, failed, hour, ever>>
  BY <1>1, MinuteWritten
<1>3. Rows' /\ Bounded'
  BY <1>2 DEF Tables, Rows, Bounded
<1>4. Covered'
  <2> SUFFICES ASSUME NEW b \in Ticks
               PROVE  /\ minute'[b] <= Sum(ever, TextIn(b, Minute))
                      /\ errors'[b] <= Sum(ever, TextIn(b, Minute))
                      /\ hour[b] <= Sum(ever, TextIn(b, Hour))
                      /\ minute'[b] > 0 => b % Minute = 0
    BY <1>2 DEF Covered
  <2>1. /\ minute[b] <= Sum(ever, TextIn(b, Minute))
        /\ errors[b] <= Sum(ever, TextIn(b, Minute))
        /\ hour[b] <= Sum(ever, TextIn(b, Hour))
        /\ minute[b] > 0 => b % Minute = 0
    BY DEF Tables, Covered
  <2>2. CASE b = ts
    <3>1. Sum(ever, TextIn(b, Minute)) \in Nat
      BY SumNat DEF Tables, Rows
    <3> QED
      BY <1>2, <2>1, <2>2, <3>1
  <2>3. CASE b # ts
    BY <1>2, <2>1, <2>3
  <2> QED
    BY <2>2, <2>3
<1> QED
  BY <1>3, <1>4 DEF Tables

(* What the minutes of M add up to is covered by the times of M.           *)
Starts(M) == {x \in M : x % Minute = 0}
Times(M)  == UNION {TextIn(x, Minute) : x \in Starts(M)}

LEMMA TimesWithout ==
  ASSUME NEW M \in SUBSET Ticks, NEW x \in M, x % Minute = 0
  PROVE  /\ Times(M) = TextIn(x, Minute) \cup Times(M \ {x})
         /\ TextIn(x, Minute) \cap Times(M \ {x}) = {}
<1>1. Starts(M) = {x} \cup Starts(M \ {x})
  BY DEF Starts
<1>2. Times(M) = TextIn(x, Minute) \cup Times(M \ {x})
  BY <1>1 DEF Times
<1>3. ASSUME NEW y \in Starts(M \ {x}),
             NEW t \in TextIn(x, Minute) \cap TextIn(y, Minute)
      PROVE  FALSE
  <2>1. /\ x \in Int /\ y \in Int /\ Minute \in Nat /\ Minute > 0
        /\ y # x /\ y % Minute = 0
    BY Sizes, TicksAre DEF Starts
  <2>2. /\ t \in Int /\ x < t /\ t <= x + Minute /\ y < t /\ t <= y + Minute
    BY <2>1 DEF TextIn
  <2>3. CASE x < y
    <3>1. x + Minute <= y
      BY <2>1, <2>3, Apart
    <3> QED
      BY <2>1, <2>2, <3>1
  <2>4. CASE y < x
    <3>1. y + Minute <= x
      BY <2>1, <2>4, Apart
    <3> QED
      BY <2>1, <2>2, <3>1
  <2> QED
    BY <2>1, <2>3, <2>4
<1>4. TextIn(x, Minute) \cap Times(M \ {x}) = {}
  BY <1>3 DEF Times
<1> QED
  BY <1>2, <1>4

LEMMA MinutesCovered ==
  ASSUME Tables, NEW N \in SUBSET Ticks
  PROVE  Sum(minute, N) <= Sum(ever, Times(N))
<1> DEFINE Fits(M) == Sum(minute, M) <= Sum(ever, Times(M))
           X       == {M \in SUBSET Ticks : ~Fits(M)}
<1>1. minute \in Nats /\ ever \in Nats
  BY DEF Tables, Rows
<1>2. ASSUME X # {}
      PROVE  FALSE
  <2>1. PICK M \in X : \A U \in X : U \subseteq M => U = M
    <3>1. X \in SUBSET SUBSET Ticks
      OBVIOUS
    <3> HIDE DEF X
    <3> QED
      BY <1>2, <3>1, LeastSubset, TicksFinite
  <2>2. M \in SUBSET Ticks /\ ~Fits(M)
    OBVIOUS
  <2>3. PICK x \in M : TRUE
    <3>1. ASSUME M = {}
          PROVE  FALSE
      <4>1. Sum(minute, M) = 0
        BY <3>1, SumEmpty
      <4>2. Sum(ever, Times(M)) \in Nat
        BY <1>1, SumNat
      <4> QED
        BY <2>2, <4>1, <4>2
    <3> QED
      BY <3>1
  <2>4. Fits(M \ {x})
    <3>1. M \ {x} \notin X
      BY <2>1, <2>3
    <3> QED
      BY <2>2, <3>1
  <2>5. /\ x \in Ticks /\ x \in M \cap Ticks
        /\ Sum(minute, M) = minute[x] + Sum(minute, M \ {x})
    BY <1>1, <2>2, <2>3, SumTake
  <2>6. /\ minute[x] \in Nat /\ Sum(minute, M \ {x}) \in Nat
        /\ Sum(ever, TextIn(x, Minute)) \in Nat
        /\ Sum(ever, Times(M \ {x})) \in Nat
    BY <1>1, <2>5, SumNat DEF Nats
  <2>7. /\ minute[x] <= Sum(ever, TextIn(x, Minute))
        /\ minute[x] > 0 => x % Minute = 0
    BY <2>5 DEF Tables, Covered
  <2>8. CASE x % Minute = 0
    <3>1. /\ Times(M) = TextIn(x, Minute) \cup Times(M \ {x})
          /\ TextIn(x, Minute) \cap Times(M \ {x}) = {}
      BY <2>2, <2>3, <2>8, TimesWithout
    <3>2. Sum(ever, TextIn(x, Minute) \cup Times(M \ {x}))
            = Sum(ever, TextIn(x, Minute)) + Sum(ever, Times(M \ {x}))
      <4>1. TextIn(x, Minute) \cap Times(M \ {x}) \cap Ticks = {}
        BY <3>1
      <4> QED
        BY <1>1, <4>1, SumUnion
    <3>3. Sum(ever, Times(M))
            = Sum(ever, TextIn(x, Minute)) + Sum(ever, Times(M \ {x}))
      BY <3>1, <3>2
    <3> QED
      BY <2>2, <2>4, <2>5, <2>6, <2>7, <3>3
  <2>9. CASE x % Minute # 0
    <3>1. Times(M) = Times(M \ {x})
      <4>1. Starts(M) = Starts(M \ {x})
        BY <2>9 DEF Starts
      <4> QED
        BY <4>1 DEF Times
    <3>2. Sum(ever, Times(M)) = Sum(ever, Times(M \ {x}))
      BY <3>1
    <3> QED
      BY <2>2, <2>4, <2>5, <2>6, <2>7, <2>9, <3>2
  <2> QED
    BY <2>8, <2>9
<1>3. N \notin X
  BY <1>2
<1> QED
  BY <1>3

LEMMA HourInMinutes ==
  ASSUME NEW h \in Ticks, h % Hour = 0
  PROVE  h % Minute = 0 /\ (h + Hour) % Minute = 0
<1>1. /\ Minute \in Nat /\ Minute > 0 /\ Hour \in Nat /\ Hour > 0
      /\ Hour % Minute = 0 /\ h \in Int /\ Hour \in Int
  BY Sizes, TicksAre, RollupsAssumption
<1>2. PICK p \in Int : Hour = Minute * p
  BY <1>1, Multiple
<1>3. PICK q \in Int : h = Hour * q
  BY <1>1, Multiple
<1>4. p * q \in Int /\ p * (q + 1) \in Int
  BY <1>2, <1>3
<1>5. h = Minute * (p * q) /\ h + Hour = Minute * (p * (q + 1))
  BY <1>1, <1>2, <1>3, SMT
<1>6. (Minute * (p * q)) % Minute = 0 /\ (Minute * (p * (q + 1))) % Minute = 0
  BY <1>1, <1>4, WholeTimes
<1> QED
  BY <1>5, <1>6, Zenon

(* The minutes of an hour have no more than the hour has.                  *)
LEMMA MinutesFit ==
  ASSUME Tables, NEW h \in Ticks, h % Hour = 0
  PROVE  Sum(minute, Within(h, Hour)) <= Sum(ever, TextIn(h, Hour))
<1> DEFINE M == Within(h, Hour) \cap Ticks
<1>1. minute \in Nats /\ ever \in Nats
  BY DEF Tables, Rows
<1>2. Sum(minute, Within(h, Hour)) = Sum(minute, M)
  BY <1>1, SumOnTicks
<1>3. Sum(minute, M) <= Sum(ever, Times(M))
  BY MinutesCovered
<1>4. Times(M) \subseteq TextIn(h, Hour)
  <2> SUFFICES ASSUME NEW x \in Starts(M), NEW t \in TextIn(x, Minute)
               PROVE  t \in TextIn(h, Hour)
    BY DEF Times
  <2>1. /\ Minute \in Nat /\ Minute > 0 /\ Hour \in Nat /\ Hour > 0
        /\ h \in Int /\ h + Hour \in Int /\ (h + Hour) % Minute = 0
    BY Sizes, TicksAre, HourInMinutes
  <2>2. x \in Int /\ h <= x /\ x < h + Hour /\ x % Minute = 0
    BY <2>1 DEF Starts, Within
  <2>3. x + Minute <= h + Hour
    BY <2>1, <2>2, Apart
  <2> QED
    BY <2>1, <2>2, <2>3 DEF TextIn
<1>5. Sum(ever, Times(M)) <= Sum(ever, TextIn(h, Hour))
  BY <1>1, <1>4, SumSubset
<1>6. /\ Sum(minute, M) \in Nat /\ Sum(ever, Times(M)) \in Nat
      /\ Sum(ever, TextIn(h, Hour)) \in Nat
  BY <1>1, SumNat
<1> QED
  BY <1>2, <1>3, <1>5, <1>6

(* What processing an hour writes.                                         *)
LEMMA HourWritten ==
  ASSUME Base, Tables, NEW o \in Ops, ProcessBucket(o, H),
         NEW ts, ts = cursor[o],
         NEW n, n = Sum(minute, Within(ts, Hour))
  PROVE  /\ ts \in Ticks /\ ts % Hour = 0 /\ n \in Nat
         /\ hour' \in Nats
         /\ hour'[ts] = IF n > 0 THEN n ELSE hour[ts]
         /\ \A t \in Ticks \ {ts} : hour'[t] = hour[t]
         /\ UNCHANGED <<now, held, traces, open, failed, minute, errors, ever>>
         /\ UNCHANGED <<done, settled>>
<1>1. /\ ts \in Ticks /\ ts % Hour = 0
      /\ UNCHANGED <<now, held, traces, open, failed, ever>>
  BY BucketIs, Sizes
<1>2. /\ hour' = Upserted(hour, ts, n, n)
      /\ UNCHANGED <<minute, errors, done, settled>>
  BY DEF ProcessBucket, H, past
<1>3. minute \in Nats /\ hour \in Nats
  BY DEF Tables, Rows
<1>4. n \in Nat
  BY <1>3, SumNat
<1>5. /\ hour' \in Nats
      /\ hour'[ts] = IF n > 0 THEN n ELSE hour[ts]
      /\ \A t \in Ticks \ {ts} : hour'[t] = hour[t]
  BY <1>1, <1>2, <1>3, <1>4 DEF Upserted, Nats
<1> QED
  BY <1>1, <1>2, <1>4, <1>5

LEMMA ProcessHourTables ==
  ASSUME Base, Tables, NEW o \in Ops, ProcessBucket(o, H)
  PROVE  Tables'
<1>1. PICK ts, n : ts = cursor[o] /\ n = Sum(minute, Within(ts, Hour))
  OBVIOUS
<1>2. /\ ts \in Ticks /\ ts % Hour = 0 /\ n \in Nat
      /\ hour' \in Nats
      /\ hour'[ts] = IF n > 0 THEN n ELSE hour[ts]
      /\ \A t \in Ticks \ {ts} : hour'[t] = hour[t]
      /\ UNCHANGED <<now, held, traces, open, failed, minute, errors, ever>>
  BY <1>1, HourWritten
<1>3. Rows' /\ Bounded'
  BY <1>2 DEF Tables, Rows, Bounded
<1>4. n <= Sum(ever, TextIn(ts, Hour))
  BY <1>1, <1>2, MinutesFit
<1>5. Covered'
  <2> SUFFICES ASSUME NEW b \in Ticks
               PROVE  hour'[b] <= Sum(ever, TextIn(b, Hour))
    BY <1>2 DEF Tables, Covered
  <2>1. hour[b] <= Sum(ever, TextIn(b, Hour))
    BY DEF Tables, Covered
  <2>2. CASE b = ts
    BY <1>2, <1>4, <2>1, <2>2
  <2>3. CASE b # ts
    BY <1>2, <2>1, <2>3
  <2> QED
    BY <2>2, <2>3
<1> QED
  BY <1>3, <1>5 DEF Tables

LEMMA StepTables ==
  ASSUME Base, Tables, [Next]_vars
  PROVE  Tables'
<1>1. now \in Ticks /\ now' \in Ticks /\ now \in Int
  BY StepBase, TicksAre DEF Base, Shape
<1>2. CASE Tick
  <2>1. Untouched /\ now' = now + 1
    BY <1>2 DEF Tick, Untouched, rows, raw, rollups
  <2>2. now <= now'
    BY <1>1, <2>1
  <2> QED
    BY <1>1, <2>1, <2>2, UntouchedTables
<1>3. ASSUME Untouched, now' = now
      PROVE  Tables'
  BY <1>1, <1>3, UntouchedTables
<1>4. CASE StartTrace
  BY <1>4, StartTraceTables
<1>5. ASSUME NEW t \in Ticks, InsertTrace(t) \/ FinishTrace(t)
      PROVE  Tables'
  BY <1>5, InsertTraceTables, FinishTraceTables
<1>6. ASSUME NEW o \in Ops, NEW job \in Jobs, ProcessBucket(o, job)
      PROVE  Tables'
  BY <1>6, Sizes, ProcessMinuteTables, ProcessHourTables
<1>7. ASSUME NEW o \in Ops, RunRetention(o)
      PROVE  Tables'
  BY <1>7, RetentionTables
<1>8. ASSUME NEW o \in Ops,
             \/ StartCycle(o) \/ Crash(o)
             \/ \E job \in Jobs : ReadCheckpoint(o, job) \/ EndJob(o, job)
      PROVE  Tables'
  <2>1. Untouched /\ now' = now
    BY <1>8 DEF StartCycle, Crash, ReadCheckpoint, EndJob, Untouched, rows, raw,
                rollups
  <2> QED
    BY <1>3, <2>1
<1>9. CASE UNCHANGED vars
  BY <1>3, <1>9 DEF vars, rows, raw, rollups, Untouched
<1> QED
  BY <1>2, <1>4, <1>5, <1>6, <1>7, <1>8, <1>9 DEF Next

-----------------------------------------------------------------------------
(* What the tables hold is bounded, so every count is a tick's worth.      *)
LEMMA CountsBounded ==
  ASSUME Tables
  PROVE  /\ held \in Counts /\ traces \in Counts /\ open \in Counts
         /\ failed \in Counts /\ errors \in Counts
         /\ minute \in Counts /\ hour \in Counts /\ ever \in Counts
<1>1. /\ held \in Nats /\ traces \in Nats /\ open \in Nats /\ failed \in Nats
      /\ minute \in Nats /\ hour \in Nats /\ errors \in Nats /\ ever \in Nats
  BY DEF Tables, Rows
<1>2. /\ MaxTraces \in Nat
      /\ Sum(held, Ticks) \in Nat /\ Sum(ever, Ticks) \in Nat
      /\ Sum(held, Ticks) <= MaxTraces /\ Sum(ever, Ticks) <= MaxTraces
  <2>1. Sum(held, Ticks) \in Nat /\ Sum(ever, Ticks) \in Nat /\ MaxTraces \in Nat
    BY <1>1, SumNat, RollupsAssumption
  <2> QED
    BY <2>1 DEF Tables, Bounded
<1>3. ASSUME NEW S
      PROVE  Sum(ever, S) \in Nat /\ Sum(ever, S) <= MaxTraces
  <2>1. Sum(ever, S) = Sum(ever, S \cap Ticks)
    BY SumOnTicks
  <2>2. Sum(ever, S \cap Ticks) <= Sum(ever, Ticks)
    <3>1. S \cap Ticks \subseteq Ticks
      OBVIOUS
    <3> QED
      BY <1>1, <3>1, SumSubset
  <2>3. Sum(ever, S) \in Nat
    BY <1>1, SumNat
  <2> QED
    BY <1>2, <2>1, <2>2, <2>3
<1>4. ASSUME NEW t \in Ticks
      PROVE  /\ held[t] \in 0..MaxTraces /\ ever[t] \in 0..MaxTraces
             /\ traces[t] \in 0..MaxTraces /\ open[t] \in 0..MaxTraces
             /\ failed[t] \in 0..MaxTraces
             /\ minute[t] \in 0..MaxTraces /\ hour[t] \in 0..MaxTraces
             /\ errors[t] \in 0..MaxTraces
  <2>1. held[t] <= Sum(held, Ticks) /\ ever[t] <= Sum(ever, Ticks)
    BY <1>1, SumBound
  <2>2. open[t] + failed[t] <= traces[t] /\ traces[t] <= ever[t]
    BY DEF Tables, Rows
  <2>3. /\ minute[t] <= Sum(ever, TextIn(t, Minute))
        /\ errors[t] <= Sum(ever, TextIn(t, Minute))
        /\ hour[t] <= Sum(ever, TextIn(t, Hour))
    BY DEF Tables, Covered
  <2>4. /\ Sum(ever, TextIn(t, Minute)) \in Nat
        /\ Sum(ever, TextIn(t, Minute)) <= MaxTraces
        /\ Sum(ever, TextIn(t, Hour)) \in Nat
        /\ Sum(ever, TextIn(t, Hour)) <= MaxTraces
    BY <1>3
  <2>5. /\ held[t] \in Nat /\ ever[t] \in Nat /\ traces[t] \in Nat
        /\ open[t] \in Nat /\ failed[t] \in Nat /\ minute[t] \in Nat
        /\ hour[t] \in Nat /\ errors[t] \in Nat
    BY <1>1 DEF Nats
  <2>6. /\ held[t] \in 0..MaxTraces /\ ever[t] \in 0..MaxTraces
        /\ traces[t] \in 0..MaxTraces /\ open[t] \in 0..MaxTraces
        /\ failed[t] \in 0..MaxTraces
    BY <1>2, <2>1, <2>2, <2>5
  <2>7. /\ minute[t] \in 0..MaxTraces /\ hour[t] \in 0..MaxTraces
        /\ errors[t] \in 0..MaxTraces
    BY <1>2, <2>3, <2>4, <2>5
  <2> QED
    BY <2>6, <2>7
<1> QED
  BY <1>1, <1>4 DEF Nats, Counts

LEMMA TypesHold == Base /\ Tables => TypeOK
<1> SUFFICES ASSUME Base, Tables PROVE TypeOK
  OBVIOUS
<1>1. cursor \in [Ops -> -Horizon - Hour..Horizon + Hour]
  <2>1. 0..Horizon + Hour \subseteq -Horizon - Hour..Horizon + Hour
    BY RollupsAssumption
  <2> QED
    BY <2>1 DEF Base, Shape
<1> QED
  BY <1>1, CountsBounded DEF Base, Shape, TypeOK

LEMMA Counted == Spec => [](Base /\ Tables)
<1>1. Init => Base /\ Tables
  BY InitBase, InitTables
<1>2. Base /\ Tables /\ [Next]_vars => (Base /\ Tables)'
  BY StepBase, StepTables
<1> QED
  BY <1>1, <1>2, PTL DEF Spec

(* Every variable keeps its type: no count is ever negative or more than   *)
(* the traces there are, and no cycle leaves the time there is.            *)
THEOREM RollupsTypeCorrect == Spec => []TypeOK
BY Counted, TypesHold, PTL

(* No trace is counted twice in a minute or an hour, however often, and by *)
(* how many overlapping or killed cycles, a bucket is processed            *)
(* (upsertRollupBucket, runJobWithCatchup).                                *)
THEOREM NothingCountedTwice == Spec => []NeverOvercounted
<1>1. Base /\ Tables => NeverOvercounted
  BY DEF Tables, Covered, NeverOvercounted
<1> QED
  BY <1>1, Counted, PTL

-----------------------------------------------------------------------------
(* Raw traces are kept as long as the minutes counted from them, as they   *)
(* are by the default policies (7 days for both).                          *)
KeepsRaw == MinuteKeep <= RawKeep

(* A settled minute is over, nothing of it is to come, and its row is what *)
(* there was; a kept hour has no more than its minutes.                    *)
Over ==
  \A b \in settled :
    /\ b + Minute < now
    /\ \A t \in TextIn(b, Minute) \cap Ticks : held[t] = 0 /\ open[t] = 0

Right ==
  \A b \in settled :
    b >= now - MinuteKeep => /\ minute[b] = Sum(ever, TextIn(b, Minute))
                             /\ errors[b] = Sum(failed, TextIn(b, Minute))

Standing ==
  \A b \in Ticks : b >= now - MinuteKeep => hour[b] <= Sum(minute, Within(b, Hour))

Kept == Over /\ Right /\ Standing

LEMMA InitKept == Init => Kept
<1> SUFFICES ASSUME Init PROVE Kept
  OBVIOUS
<1>1. settled = {} /\ \A b \in Ticks : hour[b] = 0
  BY DEF Init, Zero
<1>2. minute \in Nats
  BY InitTables DEF Tables, Rows
<1>3. \A S : 0 <= Sum(minute, S)
  <2>1. \A S : Sum(minute, S) \in Nat
    BY <1>2, SumNat
  <2> QED
    BY <2>1
<1> QED
  BY <1>1, <1>3 DEF Kept, Over, Right, Standing

(* Of a bucket of which minutes are kept all traces are still there.       *)
LEMMA AllThere ==
  ASSUME KeepsRaw, Base, Tables, NEW b \in Ticks, b >= now - MinuteKeep
  PROVE  /\ \A t \in TextIn(b, Minute) \cap Ticks : t >= now - RawKeep
         /\ \A t \in TextIn(b, Minute) \cap Ticks : traces[t] = ever[t]
         /\ Sum(traces, TextIn(b, Minute)) = Sum(ever, TextIn(b, Minute))
<1>1. \A t \in TextIn(b, Minute) \cap Ticks : t >= now - RawKeep
  <2> SUFFICES ASSUME NEW t \in TextIn(b, Minute) \cap Ticks
               PROVE  t >= now - RawKeep
    OBVIOUS
  <2>1. /\ t \in Int /\ b \in Int /\ now \in Int /\ Minute \in Nat
        /\ RawKeep \in Int /\ MinuteKeep \in Int
    BY RollupsAssumption, TicksAre DEF Base, Shape
  <2>2. b < t /\ MinuteKeep <= RawKeep /\ b >= now - MinuteKeep
    BY <2>1 DEF TextIn, KeepsRaw
  <2> QED
    BY <2>1, <2>2
<1>2. \A t \in TextIn(b, Minute) \cap Ticks : traces[t] = ever[t]
  BY <1>1 DEF Tables, Rows
<1>3. traces \in Nats /\ ever \in Nats
  BY DEF Tables, Rows
<1> QED
  BY <1>1, <1>2, <1>3, SumSame

(* So a bucket that is processed while it is kept gets its exact totals.   *)
LEMMA MinuteIsExact ==
  ASSUME KeepsRaw, Base, Tables, NEW o \in Ops, ProcessBucket(o, J),
         NEW ts, ts = cursor[o], ts >= now - MinuteKeep
  PROVE  /\ minute'[ts] = Sum(ever, TextIn(ts, Minute))
         /\ errors'[ts] = Sum(failed, TextIn(ts, Minute))
<1>1. PICK n, e : /\ n = Sum(traces, TextIn(ts, Minute))
                  /\ e = Sum(failed, TextIn(ts, Minute))
  OBVIOUS
<1>2. /\ ts \in Ticks /\ n \in Nat /\ e \in Nat /\ e <= n
      /\ minute'[ts] = IF n > 0 THEN n ELSE minute[ts]
      /\ errors'[ts] = IF n > 0 THEN e ELSE errors[ts]
  BY <1>1, MinuteWritten
<1>3. n = Sum(ever, TextIn(ts, Minute))
  BY <1>1, <1>2, AllThere
<1>4. /\ minute[ts] <= n /\ errors[ts] <= n
      /\ minute[ts] \in Nat /\ errors[ts] \in Nat
  BY <1>2, <1>3 DEF Tables, Covered, Rows, Nats
<1>5. CASE n > 0
  BY <1>1, <1>2, <1>3, <1>5
<1>6. CASE n = 0
  <2>1. minute[ts] = 0 /\ errors[ts] = 0 /\ e = 0 /\ ~(n > 0)
    BY <1>2, <1>4, <1>6
  <2>2. minute'[ts] = 0 /\ errors'[ts] = 0
    BY <1>2, <2>1
  <2> QED
    BY <1>1, <1>3, <1>6, <2>1, <2>2
<1> QED
  BY <1>2, <1>5, <1>6

LEMMA StillBefore ==
  ASSUME NEW t \in Int, NEW a \in Int, NEW b \in Int, t < a, a <= b
  PROVE  t < b
OBVIOUS

(* A minute that is settled keeps its times as they are.                   *)
LEMMA UntouchedKept ==
  ASSUME Tables, Kept, Untouched, UNCHANGED settled,
         now \in Ticks, now' \in Ticks, now <= now', Shape
  PROVE  Kept'
<1>1. settled \subseteq Ticks
  BY DEF Shape
<1>2. ASSUME NEW b \in Ticks
      PROVE  /\ b + Minute < now => b + Minute < now'
             /\ b >= now' - MinuteKeep => b >= now - MinuteKeep
  <2>1. /\ b \in Int /\ now \in Int /\ now' \in Int /\ MinuteKeep \in Int
        /\ Minute \in Int /\ now <= now'
    BY TicksAre, RollupsAssumption
  <2>2. ASSUME b + Minute < now
        PROVE  b + Minute < now'
    <3>1. b + Minute \in Int
      BY <2>1
    <3> QED
      BY <2>1, <2>2, <3>1, StillBefore
  <2>3. ASSUME b >= now' - MinuteKeep
        PROVE  b >= now - MinuteKeep
    BY <2>1, <2>3, StillLater
  <2> QED
    BY <2>2, <2>3
<1>3. Over'
  BY <1>1, <1>2 DEF Kept, Over, Untouched
<1>4. Right'
  BY <1>1, <1>2 DEF Kept, Right, Untouched
<1>5. Standing'
  BY <1>2 DEF Kept, Standing, Untouched
<1> QED
  BY <1>3, <1>4, <1>5 DEF Kept

LEMMA StartTraceKept ==
  ASSUME Base, Tables, Kept, StartTrace
  PROVE  Kept'
<1>1. /\ held' = [held EXCEPT ![now] = @ + 1]
      /\ UNCHANGED <<now, traces, open, failed, minute, hour, errors, ever>>
      /\ UNCHANGED <<done, settled>>
  BY DEF StartTrace, rows, raw, rollups, past
<1>2. Over'
  <2>0. \A b \in settled : b + Minute < now
    BY DEF Kept, Over
  <2> SUFFICES ASSUME NEW b \in settled, NEW t \in TextIn(b, Minute) \cap Ticks
               PROVE  held'[t] = 0 /\ open[t] = 0
    BY <1>1, <2>0 DEF Over
  <2>1. b + Minute < now /\ held[t] = 0 /\ open[t] = 0
    BY DEF Kept, Over
  <2>2. t # now
    <3>1. b \in Int /\ Minute \in Int /\ now \in Int
      BY TicksAre, Sizes DEF Base, Shape
    <3>2. t \in Int /\ t <= b + Minute
      BY <3>1 DEF TextIn
    <3> QED
      BY <2>1, <3>1, <3>2
  <2>3. held'[t] = held[t]
    BY <1>1, <2>2 DEF Tables, Rows, Nats
  <2> QED
    BY <2>1, <2>3
<1>3. Right' /\ Standing'
  BY <1>1 DEF Kept, Right, Standing
<1> QED
  BY <1>2, <1>3 DEF Kept

(* A row comes, or gets its status, only where something is to come.       *)
LEMMA RowKept ==
  ASSUME Base, Tables, Kept, NEW x \in Ticks, held[x] > 0 \/ open[x] > 0,
         \A t \in Ticks \ {x} : /\ held'[t] = held[t] /\ open'[t] = open[t]
                                /\ ever'[t] = ever[t] /\ failed'[t] = failed[t],
         ever' \in Nats, failed' \in Nats,
         UNCHANGED <<now, minute, hour, errors, done, settled>>
  PROVE  Kept'
<1>1. ASSUME NEW b \in settled
      PROVE  /\ b + Minute < now
             /\ \A t \in TextIn(b, Minute) \cap Ticks : held'[t] = 0 /\ open'[t] = 0
             /\ Sum(ever', TextIn(b, Minute)) = Sum(ever, TextIn(b, Minute))
             /\ Sum(failed', TextIn(b, Minute)) = Sum(failed, TextIn(b, Minute))
  <2>1. /\ b + Minute < now
        /\ \A t \in TextIn(b, Minute) \cap Ticks : held[t] = 0 /\ open[t] = 0
    BY DEF Kept, Over
  <2>2. x \notin TextIn(b, Minute)
    BY <2>1
  <2>3. ever \in Nats /\ failed \in Nats
    BY DEF Tables, Rows
  <2>4. \A t \in TextIn(b, Minute) \cap Ticks :
          ever'[t] = ever[t] /\ failed'[t] = failed[t]
    BY <2>2
  <2>5. Sum(ever', TextIn(b, Minute)) = Sum(ever, TextIn(b, Minute))
    BY <2>3, <2>4, SumSame
  <2>6. Sum(failed', TextIn(b, Minute)) = Sum(failed, TextIn(b, Minute))
    BY <2>3, <2>4, SumSame
  <2>7. \A t \in TextIn(b, Minute) \cap Ticks : held'[t] = 0 /\ open'[t] = 0
    BY <2>1, <2>2
  <2> QED
    BY <2>1, <2>5, <2>6, <2>7
<1>2. Over'
  BY <1>1 DEF Over
<1>3. Right'
  BY <1>1 DEF Kept, Right
<1>4. Standing'
  BY DEF Kept, Standing
<1> QED
  BY <1>2, <1>3, <1>4 DEF Kept

LEMMA InsertOrFinishKept ==
  ASSUME Base, Tables, Tables', Kept,
         NEW x \in Ticks, InsertTrace(x) \/ FinishTrace(x)
  PROVE  Kept'
<1>1. UNCHANGED <<now, minute, hour, errors, done, settled>>
  BY DEF InsertTrace, FinishTrace, rollups, past
<1>2. ever' \in Nats /\ failed' \in Nats
  BY DEF Tables, Rows
<1>3. /\ held[x] > 0 \/ open[x] > 0
      /\ \A t \in Ticks \ {x} : /\ held'[t] = held[t] /\ open'[t] = open[t]
                                /\ ever'[t] = ever[t] /\ failed'[t] = failed[t]
  <2>1. held \in Nats /\ open \in Nats /\ ever \in Nats /\ failed \in Nats
    BY DEF Tables, Rows
  <2>2. CASE InsertTrace(x)
    BY <2>1, <2>2 DEF InsertTrace, Nats
  <2>3. CASE FinishTrace(x)
    BY <2>1, <2>3 DEF FinishTrace, Nats
  <2> QED
    BY <2>2, <2>3
<1> QED
  BY <1>1, <1>2, <1>3, RowKept

LEMMA RetentionKept ==
  ASSUME KeepsRaw, Base, Tables, Tables', Kept, NEW o \in Ops, RunRetention(o)
  PROVE  Kept'
<1>1. /\ open' = Without(open, now - RawKeep)
      /\ failed' = Without(failed, now - RawKeep)
      /\ minute' = Without(minute, now - MinuteKeep)
      /\ errors' = Without(errors, now - MinuteKeep)
      /\ UNCHANGED <<now, held, hour, ever, done, settled>>
  BY DEF RunRetention, past
<1>2. now - RawKeep \in Int /\ now - MinuteKeep \in Int
  BY RollupsAssumption, TicksAre DEF Base, Shape
<1>3. /\ open \in Nats /\ failed \in Nats /\ minute \in Nats /\ errors \in Nats
      /\ failed' \in Nats /\ minute' \in Nats
      /\ \A t \in Ticks : open'[t] \in Nat
  BY DEF Tables, Rows, Nats
<1>4. settled \subseteq Ticks
  BY DEF Base, Shape
<1>5. Over'
  <2>0. \A b \in settled : b + Minute < now
    BY DEF Kept, Over
  <2> SUFFICES ASSUME NEW b \in settled, NEW t \in TextIn(b, Minute) \cap Ticks
               PROVE  held[t] = 0 /\ open'[t] = 0
    BY <1>1, <2>0 DEF Over
  <2>1. held[t] = 0 /\ open[t] = 0
    BY DEF Kept, Over
  <2>2. open'[t] <= open[t] /\ open'[t] \in Nat
    BY <1>1, <1>2, <1>3, WithoutIs
  <2> QED
    BY <2>1, <2>2
<1>6. Right'
  <2> SUFFICES ASSUME NEW b \in settled, b >= now - MinuteKeep
               PROVE  /\ minute'[b] = Sum(ever, TextIn(b, Minute))
                      /\ errors'[b] = Sum(failed', TextIn(b, Minute))
    BY <1>1 DEF Right
  <2>1. /\ b \in Ticks
        /\ minute[b] = Sum(ever, TextIn(b, Minute))
        /\ errors[b] = Sum(failed, TextIn(b, Minute))
    BY <1>4 DEF Kept, Right
  <2>2. minute'[b] = minute[b] /\ errors'[b] = errors[b]
    BY <1>1, <1>2, <1>3, <2>1, WithoutIs
  <2>3. \A t \in TextIn(b, Minute) \cap Ticks : t >= now - RawKeep
    BY <2>1, AllThere
  <2>4. \A t \in TextIn(b, Minute) \cap Ticks : failed'[t] = failed[t]
    BY <1>1, <1>2, <1>3, <2>3, WithoutIs
  <2>5. Sum(failed', TextIn(b, Minute)) = Sum(failed, TextIn(b, Minute))
    BY <1>3, <2>4, SumSame
  <2> QED
    BY <2>1, <2>2, <2>5
<1>7. Standing'
  <2> SUFFICES ASSUME NEW b \in Ticks, b >= now - MinuteKeep
               PROVE  hour[b] <= Sum(minute', Within(b, Hour))
    BY <1>1 DEF Standing
  <2>1. hour[b] <= Sum(minute, Within(b, Hour))
    BY DEF Kept, Standing
  <2>2. \A t \in Within(b, Hour) \cap Ticks : minute'[t] = minute[t]
    <3> SUFFICES ASSUME NEW t \in Within(b, Hour) \cap Ticks
                 PROVE  minute'[t] = minute[t]
      OBVIOUS
    <3>1. b \in Int /\ Hour \in Int
      BY TicksAre, Sizes
    <3>2. t \in Int /\ b <= t
      BY <3>1 DEF Within
    <3>3. t >= now - MinuteKeep
      BY <1>2, <3>1, <3>2
    <3> QED
      BY <1>1, <1>2, <1>3, <3>3, WithoutIs
  <2>3. Sum(minute', Within(b, Hour)) = Sum(minute, Within(b, Hour))
    BY <1>3, <2>2, SumSame
  <2> QED
    BY <2>1, <2>3
<1> QED
  BY <1>5, <1>6, <1>7 DEF Kept

(* A minute becomes settled with its exact totals, and no other changes.   *)
LEMMA ProcessMinuteKept ==
  ASSUME KeepsRaw, Base, Tables, Kept, NEW o \in Ops, ProcessBucket(o, J)
  PROVE  /\ Kept'
         /\ \A b \in Ticks : b >= now - MinuteKeep => minute'[b] >= minute[b]
<1>1. PICK ts : ts = cursor[o]
  OBVIOUS
<1>2. PICK n, e : /\ n = Sum(traces, TextIn(ts, Minute))
                  /\ e = Sum(failed, TextIn(ts, Minute))
  OBVIOUS
<1>3. /\ ts \in Ticks
      /\ minute' \in Nats
      /\ \A t \in Ticks \ {ts} : minute'[t] = minute[t] /\ errors'[t] = errors[t]
      /\ UNCHANGED <<now, held, traces, open, failed, hour, ever>>
  BY <1>1, <1>2, MinuteWritten
<1>4. ts >= now - MinuteKeep => /\ minute'[ts] = Sum(ever, TextIn(ts, Minute))
                                /\ errors'[ts] = Sum(failed, TextIn(ts, Minute))
  BY <1>1, MinuteIsExact
<1>5. /\ settled \subseteq Ticks
      /\ \/ settled' = settled
         \/ /\ settled' = settled \cup {ts}
            /\ ts + Minute < now
            /\ Sum(held, TextIn(ts, Minute)) + Sum(open, TextIn(ts, Minute)) = 0
  BY <1>1 DEF Base, Shape, ProcessBucket, J
<1>6. Over'
  <2>1. ASSUME NEW b \in settled'
        PROVE  /\ b + Minute < now
               /\ \A t \in TextIn(b, Minute) \cap Ticks : held[t] = 0 /\ open[t] = 0
    <3>1. CASE b \in settled
      BY <3>1 DEF Kept, Over
    <3>2. CASE b \notin settled
      <4>1. /\ b = ts /\ ts + Minute < now
            /\ Sum(held, TextIn(ts, Minute)) + Sum(open, TextIn(ts, Minute)) = 0
        BY <1>5, <3>2
      <4>2. held \in Nats /\ open \in Nats
        BY DEF Tables, Rows
      <4>3. Sum(held, TextIn(ts, Minute)) = 0 /\ Sum(open, TextIn(ts, Minute)) = 0
        <5>1. /\ Sum(held, TextIn(ts, Minute)) \in Nat
              /\ Sum(open, TextIn(ts, Minute)) \in Nat
          BY <4>2, SumNat
        <5> QED
          BY <4>1, <5>1
      <4>4. ASSUME NEW t \in TextIn(ts, Minute) \cap Ticks
            PROVE  held[t] = 0 /\ open[t] = 0
        <5>1. /\ held[t] <= Sum(held, TextIn(ts, Minute))
              /\ open[t] <= Sum(open, TextIn(ts, Minute))
          BY <4>2, SumBound
        <5>2. held[t] \in Nat /\ open[t] \in Nat
          BY <4>2 DEF Nats
        <5> QED
          BY <4>3, <5>1, <5>2
      <4> QED
        BY <4>1, <4>4
    <3> QED
      BY <3>1, <3>2
  <2> QED
    BY <1>3, <2>1 DEF Over
<1>7. Right'
  <2>1. ASSUME NEW b \in settled', b >= now - MinuteKeep
        PROVE  /\ minute'[b] = Sum(ever, TextIn(b, Minute))
               /\ errors'[b] = Sum(failed, TextIn(b, Minute))
    <3>1. CASE b = ts
      BY <1>4, <2>1, <3>1
    <3>2. CASE b # ts
      <4>1. b \in settled /\ b \in Ticks \ {ts}
        BY <1>5, <3>2
      <4>2. minute'[b] = minute[b] /\ errors'[b] = errors[b]
        BY <1>3, <4>1
      <4>3. /\ minute[b] = Sum(ever, TextIn(b, Minute))
            /\ errors[b] = Sum(failed, TextIn(b, Minute))
        BY <2>1, <4>1 DEF Kept, Right
      <4> QED
        BY <4>2, <4>3
    <3> QED
      BY <3>1, <3>2
  <2> QED
    BY <1>3, <2>1 DEF Right
<1>8. ASSUME NEW b \in Ticks, b >= now - MinuteKeep
      PROVE  minute[b] <= minute'[b]
  <2>1. minute[b] \in Nat /\ minute[b] <= Sum(ever, TextIn(b, Minute))
    BY DEF Tables, Rows, Covered, Nats
  <2>2. CASE b = ts
    BY <1>4, <1>8, <2>1, <2>2
  <2>3. CASE b # ts
    BY <1>3, <2>1, <2>3
  <2> QED
    BY <2>2, <2>3
<1>9. Standing'
  <2> SUFFICES ASSUME NEW b \in Ticks, b >= now - MinuteKeep
               PROVE  hour[b] <= Sum(minute', Within(b, Hour))
    BY <1>3 DEF Standing
  <2>1. hour[b] <= Sum(minute, Within(b, Hour))
    BY DEF Kept, Standing
  <2>2. \A t \in Within(b, Hour) \cap Ticks : minute[t] <= minute'[t]
    <3> SUFFICES ASSUME NEW t \in Within(b, Hour) \cap Ticks
                 PROVE  minute[t] <= minute'[t]
      OBVIOUS
    <3>1. b \in Int /\ Hour \in Int /\ now \in Int /\ MinuteKeep \in Int
      BY TicksAre, Sizes, RollupsAssumption DEF Base, Shape
    <3>2. t \in Int /\ b <= t
      BY <3>1 DEF Within
    <3>3. t >= now - MinuteKeep
      BY <3>1, <3>2
    <3> QED
      BY <1>8, <3>3
  <2>3. minute \in Nats
    BY DEF Tables, Rows
  <2>4. Sum(minute, Within(b, Hour)) <= Sum(minute', Within(b, Hour))
    BY <1>3, <2>2, <2>3, SumMono
  <2>5. /\ Sum(minute, Within(b, Hour)) \in Nat
        /\ Sum(minute', Within(b, Hour)) \in Nat
        /\ hour[b] \in Nat
    BY <1>3, <2>3, SumNat DEF Tables, Rows, Nats
  <2> QED
    BY <2>1, <2>4, <2>5
<1>10. \A b \in Ticks : b >= now - MinuteKeep => minute'[b] >= minute[b]
  BY <1>8
<1> QED
  BY <1>6, <1>7, <1>9, <1>10 DEF Kept

LEMMA ProcessHourKept ==
  ASSUME Base, Tables, Kept, NEW o \in Ops, ProcessBucket(o, H)
  PROVE  /\ Kept'
         /\ \A b \in Ticks : b >= now - MinuteKeep => hour'[b] >= hour[b]
<1>1. PICK ts, n : ts = cursor[o] /\ n = Sum(minute, Within(ts, Hour))
  OBVIOUS
<1>2. /\ ts \in Ticks /\ n \in Nat
      /\ hour'[ts] = IF n > 0 THEN n ELSE hour[ts]
      /\ \A t \in Ticks \ {ts} : hour'[t] = hour[t]
      /\ UNCHANGED <<now, held, traces, open, failed, minute, errors, ever>>
      /\ UNCHANGED <<done, settled>>
  BY <1>1, HourWritten
<1>3. ASSUME NEW b \in Ticks, b >= now - MinuteKeep
      PROVE  hour'[b] <= Sum(minute, Within(b, Hour)) /\ hour[b] <= hour'[b]
  <2>1. hour[b] <= Sum(minute, Within(b, Hour)) /\ hour[b] \in Nat
    BY <1>3 DEF Kept, Standing, Tables, Rows, Nats
  <2>2. CASE b = ts
    BY <1>1, <1>2, <2>1, <2>2
  <2>3. CASE b # ts
    BY <1>2, <2>1, <2>3
  <2> QED
    BY <2>2, <2>3
<1>4. Over' /\ Right'
  BY <1>2 DEF Kept, Over, Right
<1>5. Standing'
  BY <1>2, <1>3 DEF Standing
<1>6. \A b \in Ticks : b >= now - MinuteKeep => hour'[b] >= hour[b]
  BY <1>3
<1> QED
  BY <1>4, <1>5, <1>6 DEF Kept

(* Of a bucket whose first minute is kept no total goes down.              *)
Firm == \A b \in Ticks :
          minute'[b] < minute[b] \/ hour'[b] < hour[b] => b < now - MinuteKeep

LEMMA FirmIf ==
  ASSUME Base, Tables, Tables',
         \A b \in Ticks :
           b >= now - MinuteKeep => minute'[b] >= minute[b] /\ hour'[b] >= hour[b]
  PROVE  Firm
<1> SUFFICES ASSUME NEW b \in Ticks, minute'[b] < minute[b] \/ hour'[b] < hour[b]
             PROVE  b < now - MinuteKeep
  BY DEF Firm
<1>1. /\ minute[b] \in Int /\ minute'[b] \in Int
      /\ hour[b] \in Int /\ hour'[b] \in Int
  BY DEF Tables, Rows, Nats
<1>2. ~(b >= now - MinuteKeep)
  BY <1>1
<1>3. b \in Int /\ now - MinuteKeep \in Int
  BY TicksAre, RollupsAssumption DEF Base, Shape
<1> QED
  BY <1>2, <1>3

LEMMA StepKept ==
  ASSUME KeepsRaw, Base, Tables, Kept, [Next]_vars
  PROVE  Kept' /\ Firm
<1>1. now \in Ticks /\ now' \in Ticks /\ now \in Int /\ Shape /\ Tables'
  BY StepBase, StepTables, TicksAre DEF Base, Shape
<1>2. \A b \in Ticks : minute[b] \in Int /\ hour[b] \in Int
  BY DEF Tables, Rows, Nats
<1>3. ASSUME UNCHANGED <<minute, hour>>
      PROVE  Firm
  BY <1>1, <1>2, <1>3, FirmIf
<1>4. ASSUME Untouched, UNCHANGED settled, now <= now'
      PROVE  Kept' /\ Firm
  <2>1. Kept'
    BY <1>1, <1>4, UntouchedKept
  <2>2. UNCHANGED <<minute, hour>>
    BY <1>4 DEF Untouched
  <2> QED
    BY <1>3, <2>1, <2>2
<1>5. CASE Tick
  <2>1. Untouched /\ now' = now + 1 /\ UNCHANGED settled
    BY <1>5 DEF Tick, Untouched, rows, raw, rollups, past
  <2>2. now <= now'
    BY <1>1, <2>1
  <2> QED
    BY <1>4, <2>1, <2>2
<1>6. CASE StartTrace
  <2>1. UNCHANGED <<minute, hour>>
    BY <1>6 DEF StartTrace, rows, rollups
  <2> QED
    BY <1>3, <1>6, <2>1, StartTraceKept
<1>7. ASSUME NEW t \in Ticks, InsertTrace(t) \/ FinishTrace(t)
      PROVE  Kept' /\ Firm
  <2>1. UNCHANGED <<minute, hour>>
    BY <1>7 DEF InsertTrace, FinishTrace, rollups
  <2>2. Kept'
    BY <1>1, <1>7, InsertOrFinishKept
  <2> QED
    BY <1>3, <2>1, <2>2
<1>8. ASSUME NEW o \in Ops, ProcessBucket(o, J)
      PROVE  Kept' /\ Firm
  <2>1. /\ Kept'
        /\ \A b \in Ticks : b >= now - MinuteKeep => minute'[b] >= minute[b]
    BY <1>8, ProcessMinuteKept
  <2>2. UNCHANGED hour
    BY <1>8 DEF ProcessBucket, J
  <2>3. \A b \in Ticks : hour'[b] >= hour[b]
    BY <1>2, <2>2
  <2> QED
    BY <1>1, <2>1, <2>3, FirmIf
<1>9. ASSUME NEW o \in Ops, ProcessBucket(o, H)
      PROVE  Kept' /\ Firm
  <2>1. /\ Kept'
        /\ \A b \in Ticks : b >= now - MinuteKeep => hour'[b] >= hour[b]
    BY <1>9, ProcessHourKept
  <2>2. UNCHANGED minute
    BY <1>9 DEF ProcessBucket, H
  <2>3. \A b \in Ticks : minute'[b] >= minute[b]
    BY <1>2, <2>2
  <2> QED
    BY <1>1, <2>1, <2>3, FirmIf
<1>10. ASSUME NEW o \in Ops, RunRetention(o)
       PROVE  Kept' /\ Firm
  <2>1. Kept'
    BY <1>1, <1>10, RetentionKept
  <2>2. /\ minute' = Without(minute, now - MinuteKeep) /\ UNCHANGED hour
        /\ minute \in Nats /\ now - MinuteKeep \in Int
    BY <1>1, <1>10, RollupsAssumption DEF RunRetention, Tables, Rows
  <2>3. \A b \in Ticks : b >= now - MinuteKeep => minute'[b] = minute[b]
    BY <2>2, WithoutIs
  <2>4. \A b \in Ticks :
          b >= now - MinuteKeep => minute'[b] >= minute[b] /\ hour'[b] >= hour[b]
    BY <1>2, <2>2, <2>3
  <2> QED
    BY <1>1, <2>1, <2>4, FirmIf
<1>11. ASSUME NEW o \in Ops,
              \/ StartCycle(o) \/ Crash(o)
              \/ \E job \in Jobs : ReadCheckpoint(o, job) \/ EndJob(o, job)
       PROVE  Kept' /\ Firm
  <2>1. Untouched /\ now' = now /\ UNCHANGED settled
    BY <1>11 DEF StartCycle, Crash, ReadCheckpoint, EndJob, Untouched, rows, raw,
                 rollups, past
  <2>2. now <= now'
    BY <1>1, <2>1
  <2> QED
    BY <1>4, <2>1, <2>2
<1>12. CASE UNCHANGED vars
  <2>1. Untouched /\ now' = now /\ UNCHANGED settled
    BY <1>12 DEF vars, rows, raw, rollups, past, Untouched
  <2>2. now <= now'
    BY <1>1, <2>1
  <2> QED
    BY <1>4, <2>1, <2>2
<1> QED
  BY <1>5, <1>6, <1>7, <1>8, <1>9, <1>10, <1>11, <1>12, Sizes DEF Next

LEMMA KeptHolds ==
  ASSUME KeepsRaw
  PROVE  Spec => [](Base /\ Tables /\ Kept)
<1>1. Init => Base /\ Tables /\ Kept
  BY InitBase, InitTables, InitKept
<1>2. Base /\ Tables /\ Kept /\ [Next]_vars => (Base /\ Tables /\ Kept)'
  BY StepBase, StepTables, StepKept
<1> QED
  BY <1>1, <1>2, PTL DEF Spec

(* A minute that was counted when all of its traces were there keeps its   *)
(* exact total, and its exact number of errors, until retention deletes    *)
(* the row, whatever cycles process it again or are killed (runOnce).      *)
THEOREM SettledStaysExact ==
  ASSUME KeepsRaw
  PROVE  Spec => []SettledIsExact
<1>1. Kept => SettledIsExact
  BY DEF Kept, Right, SettledIsExact
<1> QED
  BY <1>1, KeptHolds, PTL

(* No total goes down while the first minute of its bucket is kept         *)
(* (runJobWithCatchup, RunRetention).                                      *)
THEOREM NoTotalShrinks ==
  ASSUME KeepsRaw
  PROVE  Spec => TotalsNeverShrink
<1>1. Base /\ Tables /\ Kept /\ [Next]_vars =>
        [\A b \in Ticks :
           minute'[b] < minute[b] \/ hour'[b] < hour[b] => b < now - MinuteKeep]_vars
  BY StepKept DEF Firm
<1> QED
  BY <1>1, KeptHolds, PTL DEF Spec, TotalsNeverShrink
=============================================================================
