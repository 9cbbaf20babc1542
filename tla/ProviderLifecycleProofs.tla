------------------------ MODULE ProviderLifecycleProofs ------------------------
(***************************************************************************)
(* Theorems about ProviderLifecycle, for any installations, contributions, *)
(* capabilities and calls.                                                 *)
(***************************************************************************)
EXTENDS ProviderLifecycle, SequenceTheorems, FiniteSetTheorems, WellFoundedInduction, TLAPS

-------------------------------------------------------------------------------
(* Finite recursion.  Induction, for a set of numbers rather than for a    *)
(* predicate, and the functions defined by it.                             *)

(* A set of numbers has a least one. *)
LEMMA Least ==
  ASSUME NEW M, M \subseteq Nat, M # {}
  PROVE  \E i \in M : \A j \in M : i <= j
<1> DEFINE T == {1 .. i : i \in M}
<1>1. T \subseteq FiniteSubsetsOf(Nat)
  <2> SUFFICES ASSUME NEW i \in M PROVE 1 .. i \in FiniteSubsetsOf(Nat)
    OBVIOUS
  <2>1. IsFiniteSet(1 .. i) /\ 1 .. i \subseteq Nat
    BY FS_Interval
  <2> QED BY <2>1 DEF FiniteSubsetsOf
<1>2. PICK x \in T : \A y \in T : <<y, x>> \notin StrictSubsetOrdering(Nat)
  <2>1. T # {}
    OBVIOUS
  <2> HIDE DEF T
  <2> QED BY <1>1, <2>1, WFMin, FS_StrictSubsetOrderingWellFounded
<1>3. PICK i \in M : x = 1 .. i
  OBVIOUS
<1>4. ASSUME NEW j \in M PROVE i <= j
  <2>1. <<1 .. j, 1 .. i>> \notin StrictSubsetOrdering(Nat)
    BY <1>2, <1>3
  <2>2. 1 .. j \subseteq Nat /\ 1 .. i \subseteq Nat
    OBVIOUS
  <2>3. ~(1 .. j \subseteq 1 .. i /\ 1 .. j # 1 .. i)
    BY <2>1, <2>2 DEF StrictSubsetOrdering
  <2>4. j < i => 1 .. j \subseteq 1 .. i /\ i \in 1 .. i /\ i \notin 1 .. j
    OBVIOUS
  <2> QED BY <2>3, <2>4
<1> QED BY <1>4

LEMMA Upwards ==
  ASSUME NEW P, NEW lo \in Nat, NEW hi \in Nat,
         lo \in P, \A n \in lo .. hi : n # lo /\ n - 1 \in P => n \in P
  PROVE  \A n \in lo .. hi : n \in P
<1> DEFINE M == {n \in lo .. hi : n \notin P}
<1> SUFFICES ASSUME M # {} PROVE FALSE
  OBVIOUS
<1>1. M \subseteq Nat
  OBVIOUS
<1>2. PICK n \in M : \A m \in M : n <= m
  <2> HIDE DEF M
  <2> QED BY <1>1, Least
<1>3. n \in lo .. hi /\ n # lo /\ n - 1 \in lo .. hi /\ n - 1 \notin M
  BY <1>2
<1> QED BY <1>3

(* f begins with a, and T[n] is what the step to n makes of the value      *)
(* before it.                                                              *)
Iterates(f, lo, hi, X, a, T) ==
  f \in [lo .. hi -> X] /\ f[lo] = a /\ \A n \in lo .. hi : n # lo => f[n] = T[n][f[n - 1]]

LEMMA Recursion ==
  ASSUME NEW lo \in Nat, NEW hi \in Nat, lo <= hi, NEW X, NEW a \in X,
         NEW T \in [lo .. hi -> [X -> X]]
  PROVE  \E f : Iterates(f, lo, hi, X, a, T)
<1> USE DEF Iterates
<1> DEFINE Up(n, f) == Iterates(f, lo, n, X, a, T)
<1> DEFINE P == {n \in lo .. hi : \E f : Up(n, f)}
<1>1. lo \in P
  <2> DEFINE f == [n \in lo .. lo |-> a]
  <2>1. f \in [lo .. lo -> X] /\ lo \in lo .. hi /\ f[lo] = a /\ \A m \in lo .. lo : m = lo
    OBVIOUS
  <2> HIDE DEF f
  <2>2. Up(lo, f)
    BY <2>1
  <2> QED BY <2>1, <2>2
<1>2. ASSUME NEW n \in lo .. hi, n # lo, n - 1 \in P PROVE n \in P
  <2>1. PICK f : Up(n - 1, f)
    BY <1>2
  <2> DEFINE g == [m \in lo .. n |-> IF m = n THEN T[n][f[n - 1]] ELSE f[m]]
  <2>2. f[n - 1] \in X /\ T[n] \in [X -> X]
    BY <1>2, <2>1
  <2>3. g \in [lo .. n -> X] /\ g[lo] = a
    BY <1>2, <2>1, <2>2
  <2>4. ASSUME NEW m \in lo .. n, m # lo PROVE g[m] = T[m][g[m - 1]]
    <3>1. CASE m = n
      BY <1>2, <3>1
    <3>2. CASE m # n
      <4>1. m \in lo .. n - 1 /\ m - 1 # n /\ m - 1 \in lo .. n
        BY <2>4, <3>2
      <4> QED BY <2>1, <2>4, <4>1
    <3> QED BY <3>1, <3>2
  <2>5. Up(n, g)
    <3> HIDE DEF g
    <3> QED BY <1>2, <2>3, <2>4
  <2> HIDE DEF g
  <2> QED BY <2>5
<1>3. \A n \in lo .. hi : n \in P
  <2> HIDE DEF P
  <2> QED BY <1>1, <1>2, Upwards
<1>4. hi \in P
  BY <1>3
<1> QED BY <1>4

LEMMA RangeConcat ==
  ASSUME NEW S, NEW s \in Seq(S), NEW t \in Seq(S)
  PROVE  s \o t \in Seq(S) /\ Range(s \o t) = Range(s) \cup Range(t)
<1>1. /\ s \o t \in Seq(S)
      /\ Len(s) \in Nat /\ Len(t) \in Nat /\ Len(s \o t) = Len(s) + Len(t)
      /\ DOMAIN s = 1 .. Len(s) /\ DOMAIN t = 1 .. Len(t) /\ DOMAIN (s \o t) = 1 .. Len(s) + Len(t)
      /\ \A i \in 1 .. Len(s) + Len(t) : (s \o t)[i] = IF i <= Len(s) THEN s[i] ELSE t[i - Len(s)]
  BY ConcatProperties, LenProperties
<1>2. Range(s \o t) \subseteq Range(s) \cup Range(t)
  <2> SUFFICES ASSUME NEW i \in 1 .. Len(s) + Len(t) PROVE (s \o t)[i] \in Range(s) \cup Range(t)
    BY <1>1 DEF Range
  <2>1. i <= Len(s) => i \in DOMAIN s /\ (s \o t)[i] = s[i]
    BY <1>1
  <2>2. ~(i <= Len(s)) => i - Len(s) \in DOMAIN t /\ (s \o t)[i] = t[i - Len(s)]
    BY <1>1
  <2> QED BY <2>1, <2>2 DEF Range
<1>3. ASSUME NEW i \in 1 .. Len(s) PROVE s[i] \in Range(s \o t)
  <2>1. i \in 1 .. Len(s) + Len(t) /\ (s \o t)[i] = s[i]
    BY <1>1
  <2> QED BY <1>1, <2>1 DEF Range
<1>4. ASSUME NEW i \in 1 .. Len(t) PROVE t[i] \in Range(s \o t)
  <2>1. Len(s) + i \in 1 .. Len(s) + Len(t) /\ (s \o t)[Len(s) + i] = t[i]
    BY <1>1
  <2> QED BY <1>1, <2>1 DEF Range
<1>5. Range(s) \cup Range(t) \subseteq Range(s \o t)
  BY <1>1, <1>3, <1>4 DEF Range
<1> QED BY <1>1, <1>2, <1>5

(* g is the recursive function of FlattenSeq. *)
Flattening(g, seqs, L) == g = [i \in 1 .. L |-> IF i = 1 THEN seqs[i] ELSE g[i - 1] \o seqs[i]]

LEMMA FlatteningExists ==
  ASSUME NEW S, NEW L \in Nat \ {0}, NEW seqs \in [1 .. L -> Seq(S)]
  PROVE  \E f : Flattening(f, seqs, L)
<1> DEFINE T == [n \in 1 .. L |-> [x \in Seq(S) |-> x \o seqs[n]]]
<1>1. T \in [1 .. L -> [Seq(S) -> Seq(S)]]
  BY ConcatProperties
<1>2. seqs[1] \in Seq(S) /\ 1 <= L /\ 1 \in Nat /\ L \in Nat
  OBVIOUS
<1>3. PICK f : Iterates(f, 1, L, Seq(S), seqs[1], T)
  <2> HIDE DEF T
  <2> QED BY <1>1, <1>2, Recursion
<1>4. ASSUME NEW i \in 1 .. L PROVE f[i] = IF i = 1 THEN seqs[i] ELSE f[i - 1] \o seqs[i]
  <2>1. i # 1 => i - 1 \in 1 .. L
    OBVIOUS
  <2>2. i # 1 => f[i - 1] \in Seq(S)
    BY <1>3, <2>1 DEF Iterates
  <2>3. i # 1 => T[i][f[i - 1]] = f[i - 1] \o seqs[i]
    BY <2>2, Zenon
  <2> QED BY <1>3, <2>3, Zenon DEF Iterates
<1>5. f = [i \in 1 .. L |-> IF i = 1 THEN seqs[i] ELSE f[i - 1] \o seqs[i]]
  BY <1>3, <1>4 DEF Iterates
<1> QED BY <1>5 DEF Flattening

LEMMA FlattenedFrom ==
  ASSUME NEW S, NEW L \in Nat \ {0}, NEW seqs \in [1 .. L -> Seq(S)], NEW g, Flattening(g, seqs, L)
  PROVE  g[L] \in Seq(S) /\ \A x : x \in Range(g[L]) <=> \E n \in 1 .. L : x \in Range(seqs[n])
<1>1. \A n \in 1 .. L : g[n] = IF n = 1 THEN seqs[n] ELSE g[n - 1] \o seqs[n]
  BY Zenon DEF Flattening
<1> DEFINE Up(n) == g[n] \in Seq(S) /\ \A x : x \in Range(g[n]) <=> \E m \in 1 .. n : x \in Range(seqs[m])
<1> DEFINE Right == {n \in 1 .. L : Up(n)}
<1>2. 1 \in Right
  <2>1. 1 \in 1 .. L /\ \A m : m \in 1 .. 1 <=> m = 1
    OBVIOUS
  <2> QED BY <1>1, <2>1, Zenon
<1>3. ASSUME NEW n \in 1 .. L, n # 1, n - 1 \in Right PROVE n \in Right
  <2>1. Up(n - 1)
    BY <1>3
  <2>2. g[n] = g[n - 1] \o seqs[n]
    BY <1>1, <1>3, Zenon
  <2>3. g[n - 1] \in Seq(S) /\ seqs[n] \in Seq(S)
    BY <2>1
  <2>4. g[n - 1] \o seqs[n] \in Seq(S) /\ Range(g[n - 1] \o seqs[n]) = Range(g[n - 1]) \cup Range(seqs[n])
    BY <2>3, RangeConcat
  <2>5. \A m : m \in 1 .. n <=> m \in 1 .. n - 1 \/ m = n
    BY <1>3
  <2>6. ASSUME NEW x PROVE x \in Range(g[n]) <=> \E m \in 1 .. n : x \in Range(seqs[m])
    <3>1. (\E m \in 1 .. n : x \in Range(seqs[m])) <=> (\E m \in 1 .. n - 1 : x \in Range(seqs[m])) \/ x \in Range(seqs[n])
      BY <2>5, Zenon
    <3>2. x \in Range(g[n - 1]) <=> \E m \in 1 .. n - 1 : x \in Range(seqs[m])
      BY <2>1
    <3>3. x \in Range(g[n]) <=> x \in Range(g[n - 1]) \/ x \in Range(seqs[n])
      BY <2>2, <2>4, Zenon
    <3> QED BY <3>1, <3>2, <3>3, Zenon
  <2>7. Up(n)
    BY <2>2, <2>4, <2>6, Zenon
  <2> QED BY <2>7
<1>4. \A n \in 1 .. L : n \in Right
  <2>1. L \in Nat /\ 1 \in Nat
    OBVIOUS
  <2>2. \A n \in 1 .. L : n # 1 /\ n - 1 \in Right => n \in Right
    BY <1>3, Zenon
  <2> HIDE DEF Right
  <2> QED BY <1>2, <2>1, <2>2, Upwards, Zenon
<1>5. L \in 1 .. L
  OBVIOUS
<1> QED BY <1>4, <1>5

LEMMA Flattened ==
  ASSUME NEW S, NEW seqs \in Seq(Seq(S))
  PROVE  /\ FlattenSeq(seqs) \in Seq(S)
         /\ \A x : x \in Range(FlattenSeq(seqs)) <=> \E n \in DOMAIN seqs : x \in Range(seqs[n])
<1>1. Len(seqs) \in Nat /\ DOMAIN seqs = 1 .. Len(seqs) /\ seqs \in [1 .. Len(seqs) -> Seq(S)]
  BY LenProperties
<1>2. CASE Len(seqs) = 0
  <2>1. FlattenSeq(seqs) = seqs
    BY <1>2 DEF FlattenSeq
  <2>2. seqs = <<>>
    BY <1>2, EmptySeq
  <2>3. Range(seqs) = {} /\ DOMAIN seqs = {}
    BY <1>1, <1>2 DEF Range
  <2> QED BY <2>1, <2>2, <2>3, EmptySeq
<1>3. CASE Len(seqs) # 0
  <2>1. Len(seqs) \in Nat \ {0}
    BY <1>1, <1>3
  <2> DEFINE g == CHOOSE h : Flattening(h, seqs, Len(seqs))
  <2>2. Flattening(g, seqs, Len(seqs))
    BY <1>1, <2>1, FlatteningExists, Zenon
  <2>3. FlattenSeq(seqs) = g[Len(seqs)]
    BY <1>3, Zenon DEF FlattenSeq, Flattening
  <2> HIDE DEF g
  <2>4. g[Len(seqs)] \in Seq(S) /\ \A x : x \in Range(g[Len(seqs)]) <=> \E n \in 1 .. Len(seqs) : x \in Range(seqs[n])
    BY <1>1, <2>1, <2>2, FlattenedFrom, Zenon
  <2> QED BY <1>1, <2>3, <2>4
<1> QED BY <1>1, <1>2, <1>3

-------------------------------------------------------------------------------
(* The pass of refresh().                                                  *)

(* f is the recursive function of Refresh; a pass takes the states of S it *)
(* goes through to states of S.                                            *)
Refreshing(f, s, cs) ==
  f = [n \in 0 .. Len(cs) |-> IF n = 0 THEN s ELSE ReconcileContribution(f[n - 1], cs[n])]

Passes(f, s, S, cs) ==
  /\ f \in [0 .. Len(cs) -> S]
  /\ f[0] = s
  /\ \A n \in 0 .. Len(cs) : n # 0 => f[n] = ReconcileContribution(f[n - 1], cs[n])
  /\ Refresh(s) = f[Len(cs)]

LEMMA RefreshingExists ==
  ASSUME NEW cs, Len(cs) \in Nat, NEW S, NEW s \in S,
         \A x \in S : \A n \in 1 .. Len(cs) : ReconcileContribution(x, cs[n]) \in S
  PROVE  \E f : Refreshing(f, s, cs)
<1> DEFINE L == Len(cs)
<1> DEFINE T == [n \in 0 .. L |-> [x \in S |-> IF n = 0 THEN x ELSE ReconcileContribution(x, cs[n])]]
<1>1. L \in Nat /\ 0 \in Nat /\ 0 <= L
  OBVIOUS
<1>2. \A n \in 0 .. L : n # 0 => n \in 1 .. L /\ n - 1 \in 0 .. L
  OBVIOUS
<1>3. T \in [0 .. L -> [S -> S]]
  <2>1. \A n \in 0 .. L : [x \in S |-> IF n = 0 THEN x ELSE ReconcileContribution(x, cs[n])] \in [S -> S]
    <3> HIDE DEF L
    <3> QED BY <1>2 DEF L
  <2> HIDE DEF L
  <2> QED BY <2>1
<1>4. PICK f : Iterates(f, 0, L, S, s, T)
  <2> HIDE DEF T, L
  <2> QED BY <1>1, <1>3, Recursion
<1> HIDE DEF L
<1>5. ASSUME NEW n \in 0 .. L PROVE f[n] = IF n = 0 THEN s ELSE ReconcileContribution(f[n - 1], cs[n])
  <2>1. n # 0 => f[n - 1] \in S
    BY <1>2, <1>4 DEF Iterates
  <2>2. n # 0 => T[n][f[n - 1]] = ReconcileContribution(f[n - 1], cs[n])
    BY <2>1, Zenon
  <2> QED BY <1>4, <2>2, Zenon DEF Iterates
<1>6. f = [n \in 0 .. L |-> IF n = 0 THEN s ELSE ReconcileContribution(f[n - 1], cs[n])]
  BY <1>4, <1>5 DEF Iterates
<1> QED BY <1>6, Zenon DEF Refreshing, L

LEMMA RefreshPasses ==
  ASSUME NEW s, NEW S, s \in S, Len(AllContributions(s)) \in Nat,
         \A x \in S : \A n \in 1 .. Len(AllContributions(s)) :
           ReconcileContribution(x, AllContributions(s)[n]) \in S
  PROVE  \E f : Passes(f, s, S, AllContributions(s))
<1> DEFINE cs == AllContributions(s)
<1> DEFINE L == Len(cs)
<1> DEFINE f == CHOOSE h : Refreshing(h, s, cs)
<1>1. Refreshing(f, s, cs)
  <2> HIDE DEF cs
  <2>1. \A x \in S : \A n \in 1 .. Len(cs) : ReconcileContribution(x, cs[n]) \in S
    BY DEF cs
  <2>2. Len(cs) \in Nat
    BY DEF cs
  <2>3. \E h : Refreshing(h, s, cs)
    BY <2>1, <2>2, RefreshingExists
  <2> QED BY <2>3, Zenon
<1>2. Refresh(s) = f[L]
  BY Zenon DEF Refresh, Refreshing
<1>3. L \in Nat /\ \A x \in S : \A n \in 1 .. L : ReconcileContribution(x, cs[n]) \in S
  OBVIOUS
<1> HIDE DEF f, cs
<1>4. DOMAIN f = 0 .. L /\ f[0] = s /\ \A n \in 0 .. L : n # 0 => f[n] = ReconcileContribution(f[n - 1], cs[n])
  <2> DEFINE G == [n \in 0 .. L |-> IF n = 0 THEN s ELSE ReconcileContribution(f[n - 1], cs[n])]
  <2>1. f = G
    BY <1>1, Zenon DEF Refreshing
  <2>2. 0 \in 0 .. L
    BY <1>3
  <2> HIDE DEF L
  <2>3. DOMAIN G = 0 .. L /\ G[0] = s /\ \A n \in 0 .. L : n # 0 => G[n] = ReconcileContribution(f[n - 1], cs[n])
    BY <2>2, Zenon
  <2> QED BY <2>1, <2>3, Zenon
<1> HIDE DEF L
<1>5. \A n \in 0 .. L : f[n] \in S
  <2> DEFINE P == {n \in 0 .. L : f[n] \in S}
  <2>1. 0 \in P
    BY <1>3, <1>4
  <2>2. ASSUME NEW n \in 0 .. L, n # 0, n - 1 \in P PROVE n \in P
    <3>1. f[n - 1] \in S /\ n \in 1 .. L
      BY <1>3, <2>2
    <3> QED BY <1>3, <1>4, <2>2, <3>1
  <2>3. \A n \in 0 .. L : n \in P
    <3>1. 0 \in Nat /\ L \in Nat
      BY <1>3
    <3>2. \A n \in 0 .. L : n # 0 /\ n - 1 \in P => n \in P
      BY <2>2, Zenon
    <3> HIDE DEF P
    <3> QED BY <2>1, <3>1, <3>2, Upwards, Zenon
  <2> QED BY <2>3
<1>6. f \in [0 .. L -> S]
  <2>1. f = [n \in 0 .. L |-> f[n]]
    <3>1. f = [n \in 0 .. L |-> IF n = 0 THEN s ELSE ReconcileContribution(f[n - 1], cs[n])]
      BY <1>1, Zenon DEF Refreshing, L
    <3> QED BY <3>1
  <2> QED BY <1>5, <2>1
<1> QED BY <1>2, <1>4, <1>6, Zenon DEF Passes, L, cs

-------------------------------------------------------------------------------
(* Well-formed states, and what the transformers make of them.             *)

InstallationRecord ==
  [enabled : BOOLEAN, disposing : BOOLEAN, disposed : BOOLEAN,
   disposal : {"none", "queued", "stopping", "resolved", "rejected"},
   awaited : SUBSET Promise]

ContributionRecord ==
  [status : {"waiting", "starting", "active", "stopping", "disabled",
             "failed", "disposed", "cleanup-blocked"},
   reason : BOOLEAN, failed : BOOLEAN, generation : Nat, activation : Nat, transition : Promise]

GenerationRecord ==
  [start : {"none", "queued", "awaiting", "reporting", "settled", "done"},
   starts : Nat,
   setup : {"none", "running", "resolved", "rejected"},
   aborted : BOOLEAN,
   teardown : {"none", "pending", "resolved", "rejected"},
   stop : {"none", "queued", "dependents", "activation", "resolved", "rejected", "done", "blocked"},
   stops : Nat,
   awaited : SUBSET Promise]

(* The generations of a contribution are those its counter has counted.    *)
State ==
  {s \in [installation : [Installation -> InstallationRecord],
          installed : Seq(Installation),
          contribution : [Contribution -> ContributionRecord],
          run : [Contribution -> Seq(GenerationRecord)]] :
     \A c \in Contribution :
       /\ s.contribution[c].generation = Len(s.run[c])
       /\ s.contribution[c].activation \in 0 .. Len(s.run[c])}

LEMMA Owners ==
  ASSUME NEW c \in Contribution
  PROVE  /\ Owner(c) \in Installation
         /\ c \in PartsOf(Owner(c))
         /\ \A i \in Installation : c \in PartsOf(i) <=> i = Owner(c)
<1>1. PICK i \in Installation : \A j \in Installation : c \in PartsOf(j) <=> j = i
  BY LifecycleAssumption DEF PartsOf
<1>2. Owner(c) \in Installation /\ c \in PartsOf(Owner(c))
  BY <1>1 DEF Owner
<1> QED BY <1>1, <1>2

(* The contributions of a state are those of its installed installations.  *)
LEMMA ContributionsOf ==
  ASSUME NEW s \in State
  PROVE  /\ AllContributions(s) \in Seq(Contribution)
         /\ Len(AllContributions(s)) \in Nat
         /\ DOMAIN AllContributions(s) = 1 .. Len(AllContributions(s))
         /\ \A c : c \in Range(AllContributions(s)) <=>
                     c \in Contribution /\ Owner(c) \in Range(s.installed)
         /\ InstalledContributions(s) = Range(AllContributions(s))
<1> DEFINE seqs == [n \in DOMAIN s.installed |-> Parts[s.installed[n]]]
<1>1. s.installed \in Seq(Installation) /\ DOMAIN s.installed = 1 .. Len(s.installed)
  BY LenProperties DEF State
<1>2. \A n \in DOMAIN s.installed : s.installed[n] \in Installation
  BY <1>1, ElementOfSeq
<1>3. \A i \in Installation : Parts[i] \in Seq(Contribution)
  BY LifecycleAssumption
<1>4. seqs \in Seq(Seq(Contribution)) /\ DOMAIN seqs = DOMAIN s.installed
  <2>1. \A n \in 1 .. Len(s.installed) : Parts[s.installed[n]] \in Seq(Contribution)
    BY <1>1, <1>2, <1>3
  <2>2. Len(s.installed) \in Nat
    BY <1>1, LenProperties
  <2>3. [n \in 1 .. Len(s.installed) |-> Parts[s.installed[n]]] \in Seq(Seq(Contribution))
    BY <2>1, <2>2
  <2> QED BY <1>1, <2>3
<1>5. AllContributions(s) = FlattenSeq(seqs)
  BY DEF AllContributions
<1>6. /\ FlattenSeq(seqs) \in Seq(Contribution)
      /\ \A x : x \in Range(FlattenSeq(seqs)) <=> \E n \in DOMAIN seqs : x \in Range(seqs[n])
  <2> HIDE DEF seqs
  <2> QED BY <1>4, Flattened
<1>7. /\ Len(AllContributions(s)) \in Nat
      /\ DOMAIN AllContributions(s) = 1 .. Len(AllContributions(s))
  BY <1>5, <1>6, LenProperties
<1>8. ASSUME NEW c PROVE c \in Range(AllContributions(s)) <=> c \in Contribution /\ Owner(c) \in Range(s.installed)
  <2>1. c \in Range(AllContributions(s)) <=> \E n \in DOMAIN s.installed : c \in PartsOf(s.installed[n])
    BY <1>4, <1>5, <1>6, Zenon DEF PartsOf
  <2>2. c \in Range(AllContributions(s)) => c \in Contribution
    BY <1>5, <1>6, <1>7, ElementOfSeq DEF Range
  <2>3. ASSUME c \in Contribution
        PROVE  (\E n \in DOMAIN s.installed : c \in PartsOf(s.installed[n])) <=> Owner(c) \in Range(s.installed)
    BY <1>2, <2>3, Owners DEF Range
  <2> QED BY <2>1, <2>2, <2>3
<1>9. InstalledContributions(s) = Range(AllContributions(s))
  <2>1. \A c : c \in Range(AllContributions(s)) <=> \E n \in DOMAIN s.installed : c \in PartsOf(s.installed[n])
    BY <1>4, <1>5, <1>6, Zenon DEF PartsOf
  <2>2. \A c : c \in InstalledContributions(s) <=> \E n \in DOMAIN s.installed : c \in PartsOf(s.installed[n])
    BY DEF InstalledContributions, Range
  <2> QED BY <2>1, <2>2
<1> QED BY <1>5, <1>6, <1>7, <1>8, <1>9

(* What stop() makes of a contribution and its generations: nothing, a     *)
(* settled status, or a stop that is queued.                               *)
Settles(s, c, own) ==
  LET old == s.contribution[c] IN
  /\ own \in ContributionRecord
  /\ own.status = SettledStatus(s, c)
  /\ own.failed = old.failed
  /\ own.generation = old.generation
  /\ own.activation = old.activation
  /\ own.transition = old.transition

Stops(s, c, own, rs) ==
  LET old == s.contribution[c]
      g == old.activation
  IN /\ own \in ContributionRecord
     /\ own.status = "stopping"
     /\ own.failed = old.failed
     /\ own.generation = old.generation
     /\ own.activation = g
     /\ own.transition = Transition("stop", c, g)
     /\ g \in 1 .. Len(s.run[c])
     /\ rs \in Seq(GenerationRecord)
     /\ Len(rs) = Len(s.run[c])
     /\ \A h \in 1 .. Len(rs) : h # g => rs[h] = s.run[c][h]
     /\ rs[g].start = s.run[c][g].start /\ rs[g].starts = s.run[c][g].starts
     /\ rs[g].setup = s.run[c][g].setup
     /\ rs[g].aborted
     /\ rs[g].teardown = s.run[c][g].teardown
     /\ rs[g].stop = "queued" /\ rs[g].stops = s.run[c][g].stops
     /\ rs[g].awaited = s.run[c][g].awaited

StopTo(s, c, own, rs) ==
  LET old == s.contribution[c] IN
  \/ Fenced(old) /\ own = old /\ rs = s.run[c]
  \/ ~Fenced(old) /\ Idle(old) /\ Settles(s, c, own) /\ rs = s.run[c]
  \/ ~Fenced(old) /\ ~Idle(old) /\ Stops(s, c, own, rs)

(* And startContribution(). *)
StartTo(s, c, own, rs) ==
  LET old == s.contribution[c]
      g == old.generation + 1
  IN /\ own \in ContributionRecord
     /\ own.status = "starting"
     /\ own.failed = old.failed
     /\ own.generation = g
     /\ own.activation = g
     /\ own.transition = Transition("start", c, g)
     /\ rs \in Seq(GenerationRecord)
     /\ Len(rs) = g
     /\ \A h \in 1 .. Len(s.run[c]) : rs[h] = s.run[c][h]
     /\ rs[g] = [Unused EXCEPT !.start = "queued"]

(* A step of c's part of the state. *)
OnlyPart(s, t, c) ==
  /\ t \in State
  /\ t.installation = s.installation
  /\ t.installed = s.installed
  /\ \A d \in Contribution : d # c => t.contribution[d] = s.contribution[d] /\ t.run[d] = s.run[d]

Shape == [installation : [Installation -> InstallationRecord], installed : Seq(Installation),
          contribution : [Contribution -> ContributionRecord],
          run : [Contribution -> Seq(GenerationRecord)]]

LEMMA StateFields ==
  ASSUME NEW s \in State
  PROVE  /\ s \in Shape
         /\ s.installation \in [Installation -> InstallationRecord]
         /\ s.installed \in Seq(Installation)
         /\ s.contribution \in [Contribution -> ContributionRecord]
         /\ s.run \in [Contribution -> Seq(GenerationRecord)]
         /\ s = [installation |-> s.installation, installed |-> s.installed,
                 contribution |-> s.contribution, run |-> s.run]
         /\ \A c \in Contribution :
              /\ Len(s.run[c]) \in Nat
              /\ DOMAIN s.run[c] = 1 .. Len(s.run[c])
              /\ s.contribution[c].generation = Len(s.run[c])
              /\ s.contribution[c].activation \in 0 .. Len(s.run[c])
              /\ \A g \in 1 .. Len(s.run[c]) : s.run[c][g] \in GenerationRecord
<1>1. s \in Shape
  BY DEF State, Shape
<1>2. /\ s.installation \in [Installation -> InstallationRecord]
      /\ s.installed \in Seq(Installation)
      /\ s.contribution \in [Contribution -> ContributionRecord]
      /\ s.run \in [Contribution -> Seq(GenerationRecord)]
      /\ s = [installation |-> s.installation, installed |-> s.installed,
              contribution |-> s.contribution, run |-> s.run]
  BY <1>1 DEF Shape
<1> QED BY <1>1, <1>2, LenProperties, ElementOfSeq DEF State

LEMMA SettledStatuses ==
  ASSUME NEW s \in State, NEW c \in Contribution
  PROVE  /\ SettledStatus(s, c) \in {"disposed", "disabled", "failed", "waiting"}
         /\ SettledStatus(s, c) = "failed" => s.contribution[c].failed
         /\ SettledStatus(s, c) = "waiting" => ~s.contribution[c].failed
BY StateFields DEF SettledStatus, ContributionRecord

(* An update of one contribution and of its generations. *)
LEMMA ChangedFields ==
  ASSUME NEW s \in State, NEW c \in Contribution, NEW own, NEW rs
  PROVE  Changed(s, c, own, rs) =
           [installation |-> s.installation, installed |-> s.installed,
            contribution |-> [s.contribution EXCEPT ![c] = own], run |-> [s.run EXCEPT ![c] = rs]]
<1> DEFINE C == [s.contribution EXCEPT ![c] = own]
           R == [s.run EXCEPT ![c] = rs]
<1>1. PICK a, b, d, e : s = [installation |-> a, installed |-> b, contribution |-> d, run |-> e]
  BY StateFields
<1>2. s.installation = a /\ s.installed = b /\ s.contribution = d /\ s.run = e
  BY <1>1
<1>3. Changed(s, c, own, rs) = [[s EXCEPT !.contribution = C] EXCEPT !.run = R]
  BY <1>1 DEF Changed
<1> HIDE DEF C, R
<1>4. [[installation |-> a, installed |-> b, contribution |-> d, run |-> e] EXCEPT !.contribution = C]
        = [installation |-> a, installed |-> b, contribution |-> C, run |-> e]
  OBVIOUS
<1>5. [[installation |-> a, installed |-> b, contribution |-> C, run |-> e] EXCEPT !.run = R]
        = [installation |-> a, installed |-> b, contribution |-> C, run |-> R]
  OBVIOUS
<1>6. Changed(s, c, own, rs) = [installation |-> a, installed |-> b, contribution |-> C, run |-> R]
  BY <1>1, <1>3, <1>4, <1>5, Zenon
<1> QED BY <1>2, <1>6, Zenon DEF C, R

LEMMA Assembled ==
  ASSUME NEW is \in [Installation -> InstallationRecord], NEW in \in Seq(Installation),
         NEW C \in [Contribution -> ContributionRecord], NEW R \in [Contribution -> Seq(GenerationRecord)],
         \A c \in Contribution : C[c].generation = Len(R[c]) /\ C[c].activation \in 0 .. Len(R[c])
  PROVE  [installation |-> is, installed |-> in, contribution |-> C, run |-> R] \in State
BY DEF State

LEMMA ChangedIs ==
  ASSUME NEW s \in State, NEW c \in Contribution, NEW own \in ContributionRecord,
         NEW rs \in Seq(GenerationRecord),
         own.generation = Len(rs), own.activation \in 0 .. Len(rs)
  PROVE  /\ OnlyPart(s, Changed(s, c, own, rs), c)
         /\ Changed(s, c, own, rs).contribution[c] = own
         /\ Changed(s, c, own, rs).run[c] = rs
<1> DEFINE C == [s.contribution EXCEPT ![c] = own]
           R == [s.run EXCEPT ![c] = rs]
<1>1. C \in [Contribution -> ContributionRecord] /\ R \in [Contribution -> Seq(GenerationRecord)]
  BY StateFields
<1>2. /\ C[c] = own /\ R[c] = rs
      /\ \A d \in Contribution : d # c => C[d] = s.contribution[d] /\ R[d] = s.run[d]
  BY StateFields
<1>3. Changed(s, c, own, rs) = [installation |-> s.installation, installed |-> s.installed, contribution |-> C, run |-> R]
  BY ChangedFields, Zenon
<1> HIDE DEF C, R
<1>4. Changed(s, c, own, rs) \in State
  <2>1. \A d \in Contribution : C[d].generation = Len(R[d]) /\ C[d].activation \in 0 .. Len(R[d])
    BY <1>2, StateFields
  <2>2. s.installation \in [Installation -> InstallationRecord] /\ s.installed \in Seq(Installation)
    BY StateFields
  <2> QED BY <1>1, <1>3, <2>1, <2>2, Assembled
<1> QED BY <1>2, <1>3, <1>4 DEF OnlyPart

LEMMA StopOneIs ==
  ASSUME NEW s \in State, NEW c \in Contribution
  PROVE  /\ StopTo(s, c, StopOne(s, c).contribution[c], StopOne(s, c).run[c])
         /\ OnlyPart(s, StopOne(s, c), c)
<1> DEFINE old == s.contribution[c]
           g == old.activation
           before == s.run[c]
<1>0. old \in ContributionRecord /\ before \in Seq(GenerationRecord)
  BY StateFields
<1>1. CASE Fenced(old)
  <2>1. StopOne(s, c) = s
    BY <1>1 DEF StopOne
  <2> QED BY <1>1, <2>1, StateFields DEF StopTo, OnlyPart
<1>2. CASE ~Fenced(old) /\ Idle(old)
  <2> DEFINE own == [old EXCEPT !.status = SettledStatus(s, c)]
  <2>1. StopOne(s, c) = Changed(s, c, own, before)
    BY <1>2, Zenon DEF StopOne
  <2>2. own \in ContributionRecord /\ Settles(s, c, own)
    BY <1>0, SettledStatuses DEF Settles, ContributionRecord
  <2> HIDE DEF own
  <2>3. own.generation = Len(before) /\ own.activation \in 0 .. Len(before)
    BY <2>2, StateFields DEF Settles
  <2>4. /\ OnlyPart(s, Changed(s, c, own, before), c)
        /\ Changed(s, c, own, before).contribution[c] = own
        /\ Changed(s, c, own, before).run[c] = before
    BY <1>0, <2>2, <2>3, ChangedIs
  <2> QED BY <1>2, <2>1, <2>2, <2>4 DEF StopTo
<1>3. CASE ~Fenced(old) /\ ~Idle(old)
  <2> DEFINE own == [old EXCEPT !.status = "stopping", !.transition = Transition("stop", c, g)]
             r == [before[g] EXCEPT !.aborted = TRUE, !.stop = "queued"]
             rs == [before EXCEPT ![g] = r]
  <2>1. StopOne(s, c) = Changed(s, c, own, rs)
    BY <1>3, Zenon DEF StopOne
  <2>2. g \in 1 .. Len(before) /\ before[g] \in GenerationRecord
    BY <1>3, StateFields DEF Idle
  <2>3. Transition("stop", c, g) \in Promise
    BY StateFields DEF Transition, Promise, ContributionRecord
  <2>4. /\ own \in ContributionRecord /\ own.status = "stopping" /\ own.failed = old.failed
        /\ own.generation = old.generation /\ own.activation = g /\ own.transition = Transition("stop", c, g)
    <3> DEFINE own1 == [old EXCEPT !.status = "stopping"]
    <3>1. own = [own1 EXCEPT !.transition = Transition("stop", c, g)]
      OBVIOUS
    <3>2. /\ own1 \in ContributionRecord /\ own1.status = "stopping" /\ own1.failed = old.failed
          /\ own1.generation = old.generation /\ own1.activation = g
      BY <1>0 DEF ContributionRecord
    <3> HIDE DEF own1, own
    <3> QED BY <2>3, <3>1, <3>2 DEF ContributionRecord
  <2>5. /\ r \in GenerationRecord /\ r.start = before[g].start /\ r.setup = before[g].setup
        /\ r.starts = before[g].starts /\ r.stops = before[g].stops
        /\ r.aborted /\ r.teardown = before[g].teardown /\ r.stop = "queued" /\ r.awaited = before[g].awaited
    <3> DEFINE r1 == [before[g] EXCEPT !.aborted = TRUE]
    <3>1. r = [r1 EXCEPT !.stop = "queued"]
      OBVIOUS
    <3>2. /\ r1 \in GenerationRecord /\ r1.start = before[g].start /\ r1.setup = before[g].setup
          /\ r1.starts = before[g].starts /\ r1.stops = before[g].stops
          /\ r1.aborted /\ r1.teardown = before[g].teardown /\ r1.awaited = before[g].awaited
      BY <2>2 DEF GenerationRecord
    <3> HIDE DEF r1, r
    <3> QED BY <3>1, <3>2 DEF GenerationRecord
  <2> HIDE DEF own, r
  <2>6. /\ rs \in Seq(GenerationRecord) /\ Len(rs) = Len(before) /\ rs[g] = r
        /\ \A h \in 1 .. Len(before) : h # g => rs[h] = before[h]
    BY <1>0, <2>2, <2>5, ExceptSeq
  <2> HIDE DEF rs
  <2>7. Stops(s, c, own, rs)
    BY <2>2, <2>4, <2>5, <2>6 DEF Stops
  <2>8. own.generation = Len(rs) /\ own.activation \in 0 .. Len(rs)
    BY <2>2, <2>4, <2>6, StateFields
  <2>9. /\ OnlyPart(s, Changed(s, c, own, rs), c)
        /\ Changed(s, c, own, rs).contribution[c] = own
        /\ Changed(s, c, own, rs).run[c] = rs
    BY <2>4, <2>6, <2>8, ChangedIs
  <2> QED BY <1>3, <2>1, <2>7, <2>9 DEF StopTo
<1> QED BY <1>1, <1>2, <1>3

LEMMA StopAllIs ==
  ASSUME NEW s \in State, NEW cs
  PROVE  /\ StopAll(s, cs) \in State
         /\ StopAll(s, cs).installation = s.installation
         /\ StopAll(s, cs).installed = s.installed
         /\ \A c \in Contribution :
              /\ c \in cs => StopTo(s, c, StopAll(s, cs).contribution[c], StopAll(s, cs).run[c])
              /\ c \notin cs => /\ StopAll(s, cs).contribution[c] = s.contribution[c]
                                /\ StopAll(s, cs).run[c] = s.run[c]
<1> DEFINE C == [c \in Contribution |-> (IF c \in cs THEN StopOne(s, c) ELSE s).contribution[c]]
           R == [c \in Contribution |-> (IF c \in cs THEN StopOne(s, c) ELSE s).run[c]]
<1>1. \A c \in Contribution :
        /\ c \in cs => C[c] = StopOne(s, c).contribution[c] /\ R[c] = StopOne(s, c).run[c]
        /\ c \notin cs => C[c] = s.contribution[c] /\ R[c] = s.run[c]
  BY Zenon
<1>2. PICK a, b, d, e : s = [installation |-> a, installed |-> b, contribution |-> d, run |-> e]
  BY StateFields
<1>3. s.installation = a /\ s.installed = b
  BY <1>2
<1>4. StopAll(s, cs) = [[s EXCEPT !.contribution = C] EXCEPT !.run = R]
  BY <1>2 DEF StopAll
<1>5. \A c \in Contribution : \A t : t = StopOne(s, c) \/ t = s =>
        /\ t.contribution[c] \in ContributionRecord /\ t.run[c] \in Seq(GenerationRecord)
        /\ t.contribution[c].generation = Len(t.run[c])
        /\ t.contribution[c].activation \in 0 .. Len(t.run[c])
  BY StopOneIs, StateFields DEF OnlyPart
<1>6. C \in [Contribution -> ContributionRecord] /\ R \in [Contribution -> Seq(GenerationRecord)]
  BY <1>5
<1> HIDE DEF C, R
<1>7. [[installation |-> a, installed |-> b, contribution |-> d, run |-> e] EXCEPT !.contribution = C]
        = [installation |-> a, installed |-> b, contribution |-> C, run |-> e]
  OBVIOUS
<1>8. [[installation |-> a, installed |-> b, contribution |-> C, run |-> e] EXCEPT !.run = R]
        = [installation |-> a, installed |-> b, contribution |-> C, run |-> R]
  OBVIOUS
<1>9. StopAll(s, cs) = [installation |-> s.installation, installed |-> s.installed, contribution |-> C, run |-> R]
  BY <1>2, <1>3, <1>4, <1>7, <1>8, Zenon
<1>10. StopAll(s, cs) \in State
  <2>1. \A c \in Contribution : C[c].generation = Len(R[c]) /\ C[c].activation \in 0 .. Len(R[c])
    BY <1>1, <1>5
  <2>2. s.installation \in [Installation -> InstallationRecord] /\ s.installed \in Seq(Installation)
    BY StateFields
  <2> QED BY <1>6, <1>9, <2>1, <2>2, Assembled
<1>11. StopAll(s, cs).contribution = C /\ StopAll(s, cs).run = R
  BY <1>9
<1> QED BY <1>1, <1>9, <1>10, <1>11, StopOneIs

LEMMA StartIs ==
  ASSUME NEW s \in State, NEW c \in Contribution
  PROVE  /\ StartTo(s, c, StartContribution(s, c).contribution[c], StartContribution(s, c).run[c])
         /\ OnlyPart(s, StartContribution(s, c), c)
<1> DEFINE old == s.contribution[c]
           g == old.generation + 1
           own == [old EXCEPT !.activation = g, !.generation = g, !.status = "starting",
                              !.reason = FALSE, !.transition = Transition("start", c, g)]
           r == [Unused EXCEPT !.start = "queued"]
           rs == Append(s.run[c], r)
<1>1. StartContribution(s, c) = Changed(s, c, own, rs)
  BY Zenon DEF StartContribution
<1>2. old \in ContributionRecord /\ s.run[c] \in Seq(GenerationRecord) /\ g = Len(s.run[c]) + 1 /\ g \in Nat
  BY StateFields
<1>3. Transition("start", c, g) \in Promise
  BY <1>2 DEF Transition, Promise
<1> HIDE DEF g
<1>4. /\ own \in ContributionRecord /\ own.status = "starting" /\ own.failed = old.failed
      /\ own.generation = g /\ own.activation = g /\ own.transition = Transition("start", c, g)
  <2> DEFINE own1 == [old EXCEPT !.activation = g]
             own2 == [own1 EXCEPT !.generation = g]
             own3 == [own2 EXCEPT !.status = "starting"]
             own4 == [own3 EXCEPT !.reason = FALSE]
  <2>1. own = [own4 EXCEPT !.transition = Transition("start", c, g)]
    OBVIOUS
  <2>2. own1 \in ContributionRecord /\ own1.failed = old.failed /\ own1.activation = g
    BY <1>2 DEF ContributionRecord
  <2> HIDE DEF own, own1
  <2>3. own2 \in ContributionRecord /\ own2.failed = old.failed /\ own2.activation = g /\ own2.generation = g
    BY <1>2, <2>2 DEF ContributionRecord
  <2> HIDE DEF own2
  <2>4. /\ own3 \in ContributionRecord /\ own3.failed = old.failed /\ own3.activation = g
        /\ own3.generation = g /\ own3.status = "starting"
    BY <2>3 DEF ContributionRecord
  <2> HIDE DEF own3
  <2>5. /\ own4 \in ContributionRecord /\ own4.failed = old.failed /\ own4.activation = g
        /\ own4.generation = g /\ own4.status = "starting"
    BY <2>4 DEF ContributionRecord
  <2> HIDE DEF own4
  <2> QED BY <1>3, <2>1, <2>5 DEF ContributionRecord
<1>5. r \in GenerationRecord
  BY DEF GenerationRecord, Unused
<1> HIDE DEF own, r
<1>6. /\ rs \in Seq(GenerationRecord) /\ Len(rs) = g /\ rs[g] = r
      /\ \A h \in 1 .. Len(s.run[c]) : rs[h] = s.run[c][h]
  BY <1>2, <1>5, AppendProperties
<1> HIDE DEF rs
<1>7. /\ OnlyPart(s, Changed(s, c, own, rs), c)
      /\ Changed(s, c, own, rs).contribution[c] = own
      /\ Changed(s, c, own, rs).run[c] = rs
  BY <1>2, <1>4, <1>6, ChangedIs
<1> QED BY <1>1, <1>4, <1>6, <1>7 DEF StartTo, g, r

(* What updateWaitingReason() makes of an idle contribution is what stop() *)
(* would settle on.                                                        *)
LEMMA WaitingIs ==
  ASSUME NEW s \in State, NEW c \in Contribution,
         LET own == s.contribution[c]
             i == s.installation[Owner(c)]
         IN /\ ~i.disposing /\ ~i.disposed /\ i.enabled /\ ~Fenced(own) /\ ~own.failed
            /\ own.status \notin {"active", "starting"}
  PROVE  LET t == UpdateWaitingReason(s, c) IN
         \/ t = s
         \/ OnlyPart(s, t, c) /\ StopTo(s, c, t.contribution[c], t.run[c])
<1> DEFINE old == s.contribution[c]
           own1 == [old EXCEPT !.reason = TRUE]
           own == [old EXCEPT !.reason = TRUE, !.status = "waiting"]
<1>1. old \in ContributionRecord /\ s.run[c] \in Seq(GenerationRecord)
  BY StateFields
<1>2. CASE old.reason
  BY <1>2 DEF UpdateWaitingReason
<1>3. CASE ~old.reason
  <2>1. UpdateWaitingReason(s, c) = Changed(s, c, own, s.run[c])
    BY <1>3, Zenon DEF UpdateWaitingReason
  <2>2. own = [own1 EXCEPT !.status = "waiting"]
    OBVIOUS
  <2>3. /\ own1 \in ContributionRecord /\ own1.failed = old.failed /\ own1.generation = old.generation
        /\ own1.activation = old.activation /\ own1.transition = old.transition
    BY <1>1 DEF ContributionRecord
  <2> HIDE DEF own, own1
  <2>4. /\ own \in ContributionRecord /\ own.status = "waiting" /\ own.failed = old.failed
        /\ own.generation = old.generation /\ own.activation = old.activation
        /\ own.transition = old.transition
    BY <2>2, <2>3 DEF ContributionRecord
  <2>5. Settles(s, c, own)
    BY <2>4 DEF Settles, SettledStatus
  <2>6. Idle(old) /\ ~Fenced(old)
    BY <1>1 DEF Idle, Fenced, ContributionRecord
  <2>7. own.generation = Len(s.run[c]) /\ own.activation \in 0 .. Len(s.run[c])
    BY <2>4, StateFields
  <2>8. /\ OnlyPart(s, Changed(s, c, own, s.run[c]), c)
        /\ Changed(s, c, own, s.run[c]).contribution[c] = own
        /\ Changed(s, c, own, s.run[c]).run[c] = s.run[c]
    BY <1>1, <2>4, <2>7, ChangedIs
  <2> QED BY <2>1, <2>5, <2>6, <2>8 DEF StopTo
<1> QED BY <1>2, <1>3

LEMMA ReconcileIs ==
  ASSUME NEW s \in State, NEW c \in Contribution
  PROVE  LET t == ReconcileContribution(s, c)
             own == s.contribution[c]
             i == s.installation[Owner(c)]
         IN \/ /\ t = s
               /\ own.status = "waiting" =>
                    i.disposing \/ i.disposed \/ ~i.enabled \/ own.failed \/ ~Eligible(s, c)
            \/ /\ ~i.disposing /\ ~i.disposed /\ i.enabled /\ ~Fenced(own) /\ ~own.failed
               /\ OnlyPart(s, t, c)
               /\ \/ own.status \in {"active", "starting"} /\ StopTo(s, c, t.contribution[c], t.run[c])
                  \/ ~Eligible(s, c) /\ StopTo(s, c, t.contribution[c], t.run[c])
                  \/ own.status = "waiting" /\ Eligible(s, c) /\ StartTo(s, c, t.contribution[c], t.run[c])
<1> DEFINE own == s.contribution[c]
           i == s.installation[Owner(c)]
<1>1. CASE i.disposing \/ i.disposed \/ ~i.enabled \/ Fenced(own) \/ own.failed
  BY <1>1 DEF ReconcileContribution, Fenced
<1>2. CASE /\ ~(i.disposing \/ i.disposed \/ ~i.enabled \/ Fenced(own) \/ own.failed)
           /\ ~Eligible(s, c)
           /\ own.status \notin {"active", "starting"}
  <2>1. ReconcileContribution(s, c) = UpdateWaitingReason(s, c)
    BY <1>2, Zenon DEF ReconcileContribution
  <2> QED BY <1>2, <2>1, WaitingIs
<1>3. CASE /\ ~(i.disposing \/ i.disposed \/ ~i.enabled \/ Fenced(own) \/ own.failed)
           /\ Eligible(s, c) \/ own.status \in {"active", "starting"}
  BY <1>3, StopOneIs, StartIs DEF ReconcileContribution
<1> QED BY <1>1, <1>2, <1>3

-------------------------------------------------------------------------------
(* The inductive invariant.                                                *)

IdleStatus == {"waiting", "disabled", "failed", "disposed"}
Underway == {"queued", "dependents", "activation"}

(* A stop under way is that of the contribution's activation, no report of *)
(* a failure is under way, and a failed contribution stays where no stop   *)
(* begins.                                                                 *)
Fencing(own, rs) ==
  /\ \A g \in 1 .. Len(rs) :
       /\ rs[g].stop \in Underway => own.status = "stopping" /\ own.activation = g
       /\ rs[g].stop = "activation" => rs[g].stops = g
       /\ rs[g].start # "reporting"
  /\ own.failed => own.status \in {"failed", "disabled", "disposed", "cleanup-blocked"}

(* How the parts of one generation go together.                            *)
GenerationOK(r) ==
  /\ r.start \notin {"none", "reporting"}
  /\ r.start = "queued" => r.setup = "none"
  /\ r.start = "awaiting" => r.setup # "none"
  /\ r.setup = "running" => r.start = "awaiting"
  /\ r.setup = "rejected" => r.teardown # "none"
  /\ r.setup = "running" => r.teardown \in {"none", "pending"}
  /\ r.stop # "none" => r.aborted
  /\ r.teardown # "none" => r.aborted
  /\ r.aborted /\ r.stop = "none" => r.setup = "rejected"
  /\ r.setup = "none" /\ r.start # "queued" => r.aborted
  /\ r.teardown # "none" => r.setup = "rejected" \/ r.stop \notin {"none", "queued", "dependents"}
  /\ r.stop = "activation" => r.teardown # "none"
  /\ r.stop \in {"resolved", "done"} => r.teardown = "resolved" /\ r.start # "awaiting"
  /\ r.stop \notin {"none", "queued"} => r.start # "queued"

Finished(r) ==
  /\ r.start \in {"settled", "done"}
  /\ r.stop \in {"none", "resolved", "done"}
  /\ r.setup = "none" \/ r.teardown = "resolved"

(* Every generation but the last has finished, and the last one is where   *)
(* the contribution's status says.                                         *)
PartOK(c, own, rs) ==
  LET n == Len(rs) IN
  /\ \A g \in 1 .. n : GenerationOK(rs[g]) /\ (rs[g].start = "awaiting" => rs[g].starts = g)
  /\ \A g \in 1 .. n - 1 : Finished(rs[g])
  /\ own.activation \in {0, n}
  /\ own.status \in IdleStatus => n = 0 \/ Finished(rs[n])
  /\ own.status \notin IdleStatus => n > 0 /\ own.activation = n
  /\ own.status = "starting" =>
       /\ rs[n].stop = "none"
       /\ rs[n].start \in {"queued", "awaiting"}
       /\ own.transition = Transition("start", c, n)
  /\ own.status = "active" =>
       /\ rs[n].stop = "none"
       /\ rs[n].start \in {"settled", "done"}
       /\ rs[n].setup = "resolved"
       /\ ~rs[n].aborted
  /\ own.status = "stopping" =>
       /\ rs[n].stop \in Underway
       /\ own.transition = Transition("stop", c, n)
  /\ own.status = "cleanup-blocked" =>
       \/ rs[n].stop \in {"rejected", "blocked"} /\ own.transition = Transition("stop", c, n)
       \/ /\ rs[n].stop = "none"
          /\ rs[n].start \in {"settled", "done"}
          /\ rs[n].teardown = "rejected"
          /\ "reaction" \notin OpenWindows => own.transition = Nothing(c)

(* What is in use belongs to an installed installation; installed ones     *)
(* offer different capabilities.                                           *)
Placement(s) ==
  /\ \A c \in Contribution : s.contribution[c].status \notin IdleStatus => Owner(c) \in Range(s.installed)
  /\ \A m, n \in DOMAIN s.installed : s.installed[m] = s.installed[n] => m = n
  /\ \A c, d \in Contribution :
       /\ c # d
       /\ Owner(c) \in Range(s.installed)
       /\ Owner(d) \in Range(s.installed)
       => Provides[c] \cap Provides[d] = {}

(* A disposal waits for every part that has not been disposed.             *)
DisposalOK(s, i) ==
  LET own == s.installation[i] IN
  /\ own.disposing <=> own.disposal \in {"queued", "stopping", "rejected"}
  /\ own.disposed <=> own.disposal = "resolved"
  /\ own.disposal # "none" => ~own.enabled
  /\ \A c \in PartsOf(i) :
       LET status == s.contribution[c].status IN
       /\ own.disposing => status \in {"disposed", "stopping", "cleanup-blocked"}
       /\ own.disposed => status = "disposed"
       /\ own.disposal = "stopping" =>
            \/ status = "disposed"
            \/ Transition("stop", c, Len(s.run[c])) \in own.awaited
            \/ Rejected(c) \in own.awaited

(* The status of an idle contribution is what stop() would settle on, and  *)
(* what is in use is enabled.                                              *)
Settling(i, failed) ==
  IF i.disposing \/ i.disposed THEN "disposed"
  ELSE IF ~i.enabled THEN "disabled"
  ELSE IF failed THEN "failed"
  ELSE "waiting"

Orderly(i, own) ==
  /\ own.status \in IdleStatus => own.status = Settling(i, own.failed)
  /\ own.status \in {"starting", "active"} => i.enabled

Ending == {"stopping", "cleanup-blocked"}

(* A contribution still serves d, which has n generations: its setup was   *)
(* observed, and its stop has not come further than to wait for d.         *)
Serves(own, rs, d, n, status) ==
  LET r == rs[Len(rs)] IN
  /\ r.start \in {"settled", "done"} /\ r.setup = "resolved"
  /\ \/ own.status = "active"
     \/ own.status = "stopping" /\ r.stop = "queued"
     \/ /\ own.status = "stopping" /\ r.stop = "dependents" /\ status \in Ending
        /\ Transition("stop", d, n) \in r.awaited \/ Rejected(d) \in r.awaited
     \/ own.status = "cleanup-blocked" /\ status \in Ending

(* Whatever a contribution in use requires, somebody else serves it. *)
Served(s) ==
  \A d \in Contribution : s.contribution[d].status \notin IdleStatus =>
    \A p \in Requires[d] : \E c \in Contribution :
      /\ c # d /\ p \in Provides[c] /\ s.contribution[c].status \notin IdleStatus
      /\ Serves(s.contribution[c], s.run[c], d, Len(s.run[d]), s.contribution[d].status)

(* Nobody in use requires what c provides. *)
Alone(s, c) ==
  \A d \in Contribution : d # c /\ s.contribution[d].status \notin IdleStatus =>
    Requires[d] \cap Provides[c] = {}

(* Nothing that waits could start, or a reaction is to come that refreshes. *)
Reconciled(s) ==
  \A d \in Contribution :
    Owner(d) \in Range(s.installed) /\ s.contribution[d].status = "waiting" => ~Eligible(s, d)

Pending(s) ==
  \E c \in Contribution : \E g \in 1 .. Len(s.run[c]) :
    s.run[c][g].start = "settled" \/ s.run[c][g].stop = "resolved"

Ready(s) == Pending(s) \/ Reconciled(s)

(* Without calls from within a report stops are fenced; with the           *)
(* observation race closed as well every contribution is PartOK; with all  *)
(* races closed the installations are in order.                            *)
Loose == "observation" \in OpenWindows \/ "report" \in OpenWindows

PartSound(c, own, rs) ==
  /\ "report" \notin OpenWindows => Fencing(own, rs)
  /\ ~Loose => PartOK(c, own, rs)

(* An installation is listed until its disposal has succeeded. *)
Listed(s) ==
  \A i \in Installation : s.installation[i].disposal \in {"queued", "stopping"} => i \in Range(s.installed)

Sound ==
  {s \in State :
     /\ Listed(s)
     /\ \A c \in Contribution : PartSound(c, s.contribution[c], s.run[c])
     /\ OpenWindows = {} =>
          /\ Placement(s) /\ Served(s)
          /\ \A i \in Installation : DisposalOK(s, i)
          /\ \A c \in Contribution : Orderly(s.installation[Owner(c)], s.contribution[c])}

(* A blocked contribution stays as it is. *)
StaysBlocked(old, own) ==
  old.status = "cleanup-blocked" => own.status = "cleanup-blocked" /\ own.generation = old.generation

Keeps(s, t) ==
  "report" \notin OpenWindows => \A c \in Contribution : StaysBlocked(s.contribution[c], t.contribution[c])

(* What may become of a part while its installation stays as it is. *)
Fits(s, c, own, rs) ==
  LET i == s.installation[Owner(c)]
      old == s.contribution[c]
  IN /\ own.status \notin IdleStatus => Owner(c) \in Range(s.installed)
     /\ i.disposing =>
          /\ own.status \in {"disposed", "stopping", "cleanup-blocked"}
          /\ old.status = "disposed" => own.status = "disposed"
          /\ Len(rs) = Len(s.run[c])
     /\ i.disposed => own.status = "disposed"
     /\ Orderly(i, own)

(* What keeps a part served and serving as it was.                         *)
Continues(old, before, own, rs) ==
  /\ own.status \notin IdleStatus =>
       /\ old.status \notin IdleStatus
       /\ Len(rs) = Len(before)
       /\ old.status \in Ending => own.status \in Ending
  /\ \A d, n, status : Serves(old, before, d, n, status) => Serves(own, rs, d, n, status)

(* No teardown begins in the generations there were. *)
Spares(before, rs) ==
  \A g \in 1 .. Len(before) :
    g \in 1 .. Len(rs) /\ (before[g].teardown = "none" => rs[g].teardown = "none")

(* The reactions that were to come are still to come. *)
Owes(before, rs) ==
  \A g \in 1 .. Len(before) :
    /\ g \in 1 .. Len(rs)
    /\ before[g].start = "settled" => rs[g].start = "settled"
    /\ before[g].stop = "resolved" => rs[g].stop = "resolved"

Untouched(s, t) == \A c \in Contribution : Spares(s.run[c], t.run[c])

(* What makes nothing eligible, nothing wait and no reaction unnecessary.  *)
Calm(s, t) ==
  /\ t.installed = s.installed
  /\ \A i \in Installation : s.installation[i].disposed => t.installation[i].disposed
  /\ \A c \in Contribution :
       /\ t.contribution[c].status \in {"waiting", "active"} =>
            t.contribution[c].status = s.contribution[c].status
       /\ Owes(s.run[c], t.run[c])

(* A teardown begins only in a contribution nobody uses. *)
Spared(s, t) ==
  \A c \in Contribution : Spares(s.run[c], t.run[c]) \/ Alone(s, c)

(* What is said of each step of the system. *)
Proceeds(s, t) ==
  /\ Keeps(s, t)
  /\ OpenWindows = {} => Spared(s, t) /\ (Ready(s) => Ready(t))

PartTo(s, c, own, rs) ==
  /\ PartSound(c, own, rs)
  /\ OpenWindows = {} => Fits(s, c, own, rs)
  /\ "report" \notin OpenWindows => StaysBlocked(s.contribution[c], own)

LEMMA ServedSteps ==
  ASSUME NEW s, NEW t, Served(s),
         \A c \in Contribution : Continues(s.contribution[c], s.run[c], t.contribution[c], t.run[c])
  PROVE  Served(t)
<1> SUFFICES ASSUME NEW d \in Contribution, t.contribution[d].status \notin IdleStatus, NEW p \in Requires[d]
             PROVE  \E c \in Contribution :
                      /\ c # d /\ p \in Provides[c] /\ t.contribution[c].status \notin IdleStatus
                      /\ Serves(t.contribution[c], t.run[c], d, Len(t.run[d]), t.contribution[d].status)
  BY DEF Served
<1>1. /\ s.contribution[d].status \notin IdleStatus /\ Len(t.run[d]) = Len(s.run[d])
      /\ s.contribution[d].status \in Ending => t.contribution[d].status \in Ending
  BY DEF Continues
<1>2. PICK c \in Contribution :
        /\ c # d /\ p \in Provides[c] /\ s.contribution[c].status \notin IdleStatus
        /\ Serves(s.contribution[c], s.run[c], d, Len(s.run[d]), s.contribution[d].status)
  BY <1>1 DEF Served
<1>3. Serves(t.contribution[c], t.run[c], d, Len(s.run[d]), s.contribution[d].status)
  BY <1>2 DEF Continues
<1>4. Serves(t.contribution[c], t.run[c], d, Len(t.run[d]), t.contribution[d].status)
  BY <1>1, <1>3 DEF Serves
<1>5. t.contribution[c].status \notin IdleStatus
  BY <1>4 DEF Serves, IdleStatus
<1> QED BY <1>2, <1>4, <1>5

LEMMA SoundSteps ==
  ASSUME NEW s \in Sound, NEW t \in State, t.installation = s.installation, t.installed = s.installed,
         \A c \in Contribution : PartTo(s, c, t.contribution[c], t.run[c]),
         OpenWindows = {} => Served(t)
  PROVE  t \in Sound /\ Keeps(s, t)
<1>1. \A c \in Contribution : PartSound(c, t.contribution[c], t.run[c])
  BY DEF PartTo
<1>2. Keeps(s, t)
  BY DEF PartTo, Keeps
<1>3. ASSUME OpenWindows = {}
      PROVE  /\ Placement(t) /\ \A i \in Installation : DisposalOK(t, i)
             /\ \A c \in Contribution : Orderly(t.installation[Owner(c)], t.contribution[c])
  <2>1. Placement(s) /\ \A i \in Installation : DisposalOK(s, i)
    BY <1>3 DEF Sound
  <2>2. \A c \in Contribution : Fits(s, c, t.contribution[c], t.run[c])
    BY <1>3 DEF PartTo
  <2>3. Placement(t)
    BY <2>1, <2>2 DEF Placement, Fits
  <2>4. ASSUME NEW i \in Installation PROVE DisposalOK(t, i)
    <3>1. \A c \in PartsOf(i) : c \in Contribution /\ Owner(c) = i
      <4>1. \A c \in PartsOf(i) : c \in Contribution
        BY LifecycleAssumption, ElementOfSeq, LenProperties DEF PartsOf, Range
      <4> QED BY <4>1, Owners
    <3>2. DisposalOK(s, i)
      BY <2>1
    <3> QED BY <2>2, <3>1, <3>2 DEF DisposalOK, Fits
  <2>5. \A c \in Contribution : Orderly(t.installation[Owner(c)], t.contribution[c])
    BY <2>2 DEF Fits
  <2> QED BY <2>3, <2>4, <2>5
<1>4. Listed(t)
  BY DEF Sound, Listed
<1> QED BY <1>1, <1>2, <1>3, <1>4 DEF Sound

LEMMA SamePart ==
  ASSUME NEW s \in Sound, NEW c \in Contribution
  PROVE  PartTo(s, c, s.contribution[c], s.run[c])
<1>1. PartSound(c, s.contribution[c], s.run[c])
  BY DEF Sound
<1>2. ASSUME OpenWindows = {} PROVE Fits(s, c, s.contribution[c], s.run[c])
  <2>1. /\ Placement(s) /\ DisposalOK(s, Owner(c)) /\ c \in PartsOf(Owner(c))
        /\ Orderly(s.installation[Owner(c)], s.contribution[c])
    BY <1>2, Owners DEF Sound
  <2> QED BY <2>1 DEF Placement, DisposalOK, Fits
<1> QED BY <1>1, <1>2 DEF PartTo, StaysBlocked

LEMMA SameContinues ==
  ASSUME NEW old, NEW before
  PROVE  Continues(old, before, old, before) /\ Spares(before, before) /\ Owes(before, before)
BY DEF Continues, Spares, Owes

(* A calm step leaves what is ready ready. *)
LEMMA CalmEligible ==
  ASSUME NEW s \in State, NEW t \in State, Calm(s, t), NEW c \in Contribution, Eligible(t, c)
  PROVE  Eligible(s, c)
<1> SUFFICES ASSUME NEW p \in Requires[c] PROVE \E d \in FindService(s, p) : Active(s, d)
  BY DEF Eligible
<1>1. PICK d \in FindService(t, p) : Active(t, d)
  BY DEF Eligible
<1>2. /\ d \in Contribution /\ Owner(d) \in Range(t.installed) /\ p \in Provides[d]
      /\ ~t.installation[Owner(d)].disposed
  BY ContributionsOf DEF FindService
<1>3. Owner(d) \in Range(s.installed) /\ ~s.installation[Owner(d)].disposed /\ Active(s, d)
  BY <1>1, <1>2, Owners DEF Calm, Active
<1> QED BY <1>2, <1>3, ContributionsOf DEF FindService

LEMMA CalmReady ==
  ASSUME NEW s \in State, NEW t \in State, Calm(s, t), Ready(s)
  PROVE  Ready(t)
<1>1. CASE Pending(s)
  BY <1>1 DEF Pending, Calm, Owes, Ready
<1>2. CASE Reconciled(s)
  BY <1>2, CalmEligible DEF Reconciled, Ready, Calm
<1> QED BY <1>1, <1>2 DEF Ready

LEMMA CalmOn ==
  ASSUME NEW s, NEW t, NEW u, Calm(s, t), Calm(t, u)
  PROVE  Calm(s, u)
BY DEF Calm, Owes

LEMMA UntouchedOn ==
  ASSUME NEW s, NEW t, NEW u, Untouched(s, t), Untouched(t, u)
  PROVE  Untouched(s, u)
BY DEF Untouched, Spares

LEMMA SparedOn ==
  ASSUME NEW s, NEW t, NEW u, Spared(s, t), Untouched(t, u)
  PROVE  Spared(s, u)
BY DEF Untouched, Spared, Spares

LEMMA StopToFencing ==
  ASSUME NEW s \in State, NEW c \in Contribution, NEW own, NEW rs, StopTo(s, c, own, rs),
         Fencing(s.contribution[c], s.run[c])
  PROVE  Fencing(own, rs)
<1> DEFINE old == s.contribution[c]
<1>1. CASE Fenced(old) /\ own = old /\ rs = s.run[c]
  BY <1>1
<1>2. CASE ~Fenced(old) /\ Idle(old) /\ Settles(s, c, own) /\ rs = s.run[c]
  BY <1>2, SettledStatuses DEF Fencing, Fenced, Settles
<1>3. CASE ~Fenced(old) /\ ~Idle(old) /\ Stops(s, c, own, rs)
  <2> DEFINE g == old.activation
             n == Len(s.run[c])
  <2>1. /\ g \in 1 .. n /\ Len(rs) = n /\ own.status = "stopping" /\ own.activation = g /\ own.failed = old.failed
        /\ \A h \in 1 .. n : h # g => rs[h] = s.run[c][h]
        /\ rs[g].stop = "queued" /\ rs[g].start = s.run[c][g].start
    BY <1>3 DEF Stops
  <2>2. old.status \in {"starting", "active"}
    BY <1>3, StateFields DEF Fenced, Idle, ContributionRecord
  <2>3. ~old.failed /\ \A h \in 1 .. n :
          s.run[c][h].stop \notin Underway /\ s.run[c][h].start # "reporting"
    BY <2>2 DEF Fencing
  <2>4. ASSUME NEW h \in 1 .. n
        PROVE  /\ rs[h].stop \in Underway => own.status = "stopping" /\ own.activation = h
               /\ rs[h].stop = "activation" => rs[h].stops = h
               /\ rs[h].start # "reporting"
    BY <2>1, <2>3 DEF Underway
  <2> QED BY <2>1, <2>3, <2>4 DEF Fencing
<1> QED BY <1>1, <1>2, <1>3 DEF StopTo

LEMMA StopToPart ==
  ASSUME NEW s \in State, NEW c \in Contribution, NEW own, NEW rs, StopTo(s, c, own, rs),
         PartOK(c, s.contribution[c], s.run[c])
  PROVE  PartOK(c, own, rs)
<1> DEFINE old == s.contribution[c]
           before == s.run[c]
           n == Len(before)
<1>0. n \in Nat /\ \A g \in 1 .. n : before[g] \in GenerationRecord
  BY StateFields
<1>1. CASE Fenced(old) /\ own = old /\ rs = s.run[c]
  BY <1>1
<1>2. CASE ~Fenced(old) /\ Idle(old) /\ Settles(s, c, own) /\ rs = s.run[c]
  <2>1. own.status \in IdleStatus
    BY <1>2, SettledStatuses DEF Settles, IdleStatus
  <2>2. old.status \in IdleStatus
    BY <1>0, <1>2 DEF PartOK, Idle, IdleStatus
  <2> QED BY <1>2, <2>1, <2>2 DEF PartOK, Settles, IdleStatus
<1>3. CASE ~Fenced(old) /\ ~Idle(old) /\ Stops(s, c, own, rs)
  <2>1. old.status \in {"starting", "active"}
    BY <1>3, StateFields DEF Fenced, Idle, ContributionRecord
  <2>2. n > 0 /\ old.activation = n /\ before[n].stop = "none" /\ n \in 1 .. n
    BY <1>0, <2>1 DEF PartOK, IdleStatus
  <2>3. \A g \in 1 .. n : g # n => rs[g] = before[g]
    BY <1>3, <2>2 DEF Stops
  <2>4. GenerationOK(rs[n]) /\ (rs[n].start = "awaiting" => rs[n].starts = n)
    <3>1. GenerationOK(before[n]) /\ (before[n].start = "awaiting" => before[n].starts = n)
      BY <2>2 DEF PartOK
    <3> QED BY <1>3, <2>2, <3>1 DEF GenerationOK, Stops
  <2>5. Len(rs) = n /\ rs[n].stop = "queued" /\ own.status = "stopping" /\ own.activation = n
        /\ own.transition = Transition("stop", c, n)
    BY <1>3, <2>2 DEF Stops
  <2>6. \A g \in 1 .. n - 1 : g \in 1 .. n /\ g # n
    BY <1>0
  <2>7. /\ \A g \in 1 .. n : GenerationOK(before[g]) /\ (before[g].start = "awaiting" => before[g].starts = g)
        /\ \A g \in 1 .. n - 1 : Finished(before[g])
    BY DEF PartOK
  <2>8. \A g \in 1 .. n : GenerationOK(rs[g]) /\ (rs[g].start = "awaiting" => rs[g].starts = g)
    BY <2>3, <2>4, <2>7
  <2>9. \A g \in 1 .. n - 1 : Finished(rs[g])
    BY <2>3, <2>6, <2>7
  <2> HIDE DEF n, before, old
  <2> QED BY <2>2, <2>5, <2>8, <2>9 DEF PartOK, IdleStatus, Underway
<1> QED BY <1>1, <1>2, <1>3 DEF StopTo

LEMMA StartToFencing ==
  ASSUME NEW s \in State, NEW c \in Contribution, NEW own, NEW rs, StartTo(s, c, own, rs),
         s.contribution[c].status = "waiting",
         Fencing(s.contribution[c], s.run[c])
  PROVE  Fencing(own, rs)
<1> DEFINE n == Len(s.run[c])
           g == n + 1
<1>1. n \in Nat /\ Len(rs) = g /\ (\A h \in 1 .. n : rs[h] = s.run[c][h]) /\ rs[g].stop = "none" /\ rs[g].start = "queued"
  BY StateFields DEF StartTo, Unused
<1>2. \A h \in 1 .. n : s.run[c][h].stop \notin Underway /\ s.run[c][h].start # "reporting"
  BY DEF Fencing
<1>3. \A h \in 1 .. g : h \in 1 .. n \/ h = g
  BY <1>1
<1>4. ~s.contribution[c].failed /\ own.failed = s.contribution[c].failed
  BY DEF Fencing, StartTo
<1> HIDE DEF g
<1> QED BY <1>1, <1>2, <1>3, <1>4 DEF Fencing, Underway

LEMMA StartToPart ==
  ASSUME NEW s \in State, NEW c \in Contribution, NEW own, NEW rs, StartTo(s, c, own, rs),
         s.contribution[c].status = "waiting",
         PartOK(c, s.contribution[c], s.run[c])
  PROVE  PartOK(c, own, rs)
<1> DEFINE before == s.run[c]
           n == Len(before)
           g == n + 1
<1>0. n \in Nat /\ n \in 0 .. n /\ \A h \in 1 .. n : before[h] \in GenerationRecord
  BY StateFields
<1>1. Len(rs) = g /\ (\A h \in 1 .. n : rs[h] = before[h]) /\ rs[g] = [Unused EXCEPT !.start = "queued"]
  BY StateFields DEF StartTo
<1>2. own.status = "starting" /\ own.activation = g /\ own.transition = Transition("start", c, g)
  BY StateFields DEF StartTo
<1>3. \A h \in 1 .. n : GenerationOK(rs[h]) /\ Finished(rs[h]) /\ rs[h].start # "awaiting"
  BY <1>0, <1>1 DEF PartOK, IdleStatus, Finished
<1>4. GenerationOK(rs[g]) /\ rs[g].stop = "none" /\ rs[g].start = "queued"
  BY <1>1 DEF GenerationOK, Unused
<1>5. (\A h \in 1 .. g : h \in 1 .. n \/ h = g) /\ g > 0 /\ 1 .. g - 1 = 1 .. n
  BY <1>0
<1> HIDE DEF g
<1> QED BY <1>1, <1>2, <1>3, <1>4, <1>5 DEF PartOK, IdleStatus

(* A stop ends nothing at once, and leaves what it settles in order. *)
LEMMA StopToContinues ==
  ASSUME NEW s \in State, NEW c \in Contribution, NEW own, NEW rs, StopTo(s, c, own, rs),
         PartOK(c, s.contribution[c], s.run[c])
  PROVE  /\ Continues(s.contribution[c], s.run[c], own, rs)
         /\ Spares(s.run[c], rs) /\ Owes(s.run[c], rs)
         /\ Orderly(s.installation[Owner(c)], own)
         /\ own.status \in {"waiting", "active"} =>
              s.contribution[c].status \in IdleStatus /\ own.status = SettledStatus(s, c)
         /\ s.contribution[c].status \notin IdleStatus => own.status \in Ending
<1> DEFINE old == s.contribution[c]
           before == s.run[c]
           n == Len(before)
<1>0. n \in Nat /\ old \in ContributionRecord
  BY StateFields
<1>1. CASE Fenced(old) /\ own = old /\ rs = before
  BY <1>1, SameContinues DEF Fenced, Orderly, IdleStatus, Ending
<1>2. CASE ~Fenced(old) /\ Idle(old) /\ Settles(s, c, own) /\ rs = before
  <2>1. own.status \in IdleStatus
    BY <1>2, SettledStatuses DEF Settles, IdleStatus
  <2>2. old.status \in IdleStatus
    BY <1>0, <1>2 DEF PartOK, Idle, IdleStatus
  <2>3. Orderly(s.installation[Owner(c)], own)
    BY <1>2, <2>1 DEF Orderly, Settles, SettledStatus, Settling, IdleStatus
  <2>4. \A d, m, status : ~Serves(old, before, d, m, status)
    BY <2>2 DEF Serves, IdleStatus
  <2>5. Continues(old, before, own, rs) /\ Spares(before, rs) /\ Owes(before, rs)
    BY <1>2, <2>1, <2>4, SameContinues DEF Continues
  <2> QED BY <1>2, <2>1, <2>2, <2>3, <2>5 DEF Settles, IdleStatus
<1>3. CASE ~Fenced(old) /\ ~Idle(old) /\ Stops(s, c, own, rs)
  <2>1. old.status \in {"starting", "active"}
    BY <1>0, <1>3 DEF Fenced, Idle, ContributionRecord
  <2>2. n > 0 /\ old.activation = n /\ before[n].stop = "none" /\ n \in 1 .. n
    BY <1>0, <2>1 DEF PartOK, IdleStatus
  <2>3. /\ own.status = "stopping" /\ Len(rs) = n
        /\ \A g \in 1 .. n : g # n => rs[g] = before[g]
        /\ rs[n].start = before[n].start /\ rs[n].setup = before[n].setup
        /\ rs[n].teardown = before[n].teardown /\ rs[n].stop = "queued"
    BY <1>3, <2>2 DEF Stops
  <2>4. Spares(before, rs) /\ Owes(before, rs)
    BY <2>2, <2>3 DEF Spares, Owes
  <2>5. \A d, m, status : Serves(old, before, d, m, status) => Serves(own, rs, d, m, status)
    BY <2>1, <2>3 DEF Serves
  <2>6. Continues(old, before, own, rs)
    BY <2>1, <2>3, <2>5 DEF Continues, IdleStatus, Ending
  <2> QED BY <2>1, <2>3, <2>4, <2>6 DEF Orderly, IdleStatus, Ending
<1> QED BY <1>1, <1>2, <1>3 DEF StopTo

LEMMA StopToSound ==
  ASSUME NEW s \in Sound, NEW c \in Contribution, NEW own, NEW rs, StopTo(s, c, own, rs)
  PROVE  /\ PartTo(s, c, own, rs)
         /\ OpenWindows = {} =>
              /\ Continues(s.contribution[c], s.run[c], own, rs)
              /\ Spares(s.run[c], rs) /\ Owes(s.run[c], rs)
              /\ own.status \in {"waiting", "active"} => own.status = s.contribution[c].status
              /\ s.contribution[c].status \notin IdleStatus => own.status \in Ending
<1> DEFINE old == s.contribution[c]
           i == s.installation[Owner(c)]
<1>0. s \in State /\ PartSound(c, old, s.run[c]) /\ PartTo(s, c, old, s.run[c])
  BY SamePart DEF Sound
<1>1. PartSound(c, own, rs)
  BY <1>0, StopToFencing, StopToPart DEF PartSound
<1>2. ASSUME OpenWindows = {}
      PROVE  /\ Continues(old, s.run[c], own, rs)
             /\ Spares(s.run[c], rs) /\ Owes(s.run[c], rs)
             /\ Orderly(i, own)
             /\ own.status \in {"waiting", "active"} => own.status = old.status
             /\ old.status \notin IdleStatus => own.status \in Ending
  <2>1. PartOK(c, old, s.run[c])
    BY <1>0, <1>2 DEF PartSound, Loose
  <2>2. Orderly(i, old)
    BY <1>2 DEF Sound
  <2>3. old.status \in IdleStatus => old.status = SettledStatus(s, c)
    BY <2>2 DEF Orderly, Settling, SettledStatus
  <2> QED BY <1>0, <2>1, <2>3, StopToContinues
<1>3. ASSUME OpenWindows = {} PROVE Fits(s, c, own, rs)
  <2>1. Fits(s, c, old, s.run[c])
    BY <1>0, <1>3 DEF PartTo
  <2>2. CASE Fenced(old) /\ own = old /\ rs = s.run[c]
    BY <2>1, <2>2
  <2>3. CASE ~Fenced(old) /\ Idle(old) /\ Settles(s, c, own) /\ rs = s.run[c]
    <3>1. own.status \in IdleStatus
      BY <1>0, <2>3, SettledStatuses DEF Settles, IdleStatus
    <3>2. i.disposing \/ i.disposed => own.status = "disposed"
      BY <2>3 DEF Settles, SettledStatus
    <3> QED BY <1>2, <1>3, <2>3, <3>1, <3>2 DEF Fits
  <2>4. CASE ~Fenced(old) /\ ~Idle(old) /\ Stops(s, c, own, rs)
    <3>1. old.status \in {"starting", "active"}
      BY <1>0, <2>4, StateFields DEF Fenced, Idle, ContributionRecord
    <3> QED BY <1>2, <1>3, <2>1, <2>4, <3>1 DEF Fits, Stops, IdleStatus
  <2> QED BY <2>2, <2>3, <2>4 DEF StopTo
<1>4. old.status = "cleanup-blocked" => own = old
  BY DEF StopTo, Fenced
<1> QED BY <1>1, <1>2, <1>3, <1>4 DEF PartTo, StaysBlocked

LEMMA StartToSound ==
  ASSUME NEW s \in Sound, NEW c \in Contribution, NEW own, NEW rs, StartTo(s, c, own, rs),
         s.contribution[c].status = "waiting", s.installation[Owner(c)].enabled,
         ~s.installation[Owner(c)].disposing, ~s.installation[Owner(c)].disposed,
         Owner(c) \in Range(s.installed)
  PROVE  /\ PartTo(s, c, own, rs)
         /\ Spares(s.run[c], rs) /\ Owes(s.run[c], rs)
         /\ own.status = "starting"
<1>0. s \in State /\ PartSound(c, s.contribution[c], s.run[c])
  BY DEF Sound
<1>1. PartSound(c, own, rs)
  BY <1>0, StartToFencing, StartToPart DEF PartSound
<1>2. own.status = "starting"
  BY DEF StartTo
<1>3. Fits(s, c, own, rs)
  BY <1>2 DEF Fits, Orderly, IdleStatus
<1>4. /\ Len(s.run[c]) \in Nat /\ Len(rs) = Len(s.run[c]) + 1
      /\ \A h \in 1 .. Len(s.run[c]) : rs[h] = s.run[c][h]
  BY <1>0, StateFields DEF StartTo
<1>5. Spares(s.run[c], rs) /\ Owes(s.run[c], rs)
  BY <1>4 DEF Spares, Owes
<1> QED BY <1>1, <1>2, <1>3, <1>5 DEF PartTo, StaysBlocked

(* A contribution starts when somebody else serves all it requires, and    *)
(* serves nobody yet.                                                      *)
LEMMA StartServed ==
  ASSUME NEW s \in Sound, NEW c \in Contribution, NEW t, OnlyPart(s, t, c), Eligible(s, c),
         s.contribution[c].status = "waiting", OpenWindows = {}
  PROVE  Served(t)
<1>1. s \in State /\ Served(s) /\ \A d \in Contribution : PartOK(d, s.contribution[d], s.run[d])
  BY DEF Sound, PartSound, Loose
<1> SUFFICES ASSUME NEW d \in Contribution, t.contribution[d].status \notin IdleStatus, NEW p \in Requires[d]
             PROVE  \E e \in Contribution :
                      /\ e # d /\ p \in Provides[e] /\ t.contribution[e].status \notin IdleStatus
                      /\ Serves(t.contribution[e], t.run[e], d, Len(t.run[d]), t.contribution[d].status)
  BY DEF Served
<1>2. CASE d = c
  <2>1. PICK e \in FindService(s, p) : Active(s, e)
    BY <1>2 DEF Eligible
  <2>2. e \in Contribution /\ p \in Provides[e] /\ s.contribution[e].status = "active"
    BY <1>1, <2>1, ContributionsOf DEF FindService, Active
  <2>3. e # c /\ t.contribution[e] = s.contribution[e] /\ t.run[e] = s.run[e]
    BY <2>2 DEF OnlyPart
  <2>4. Serves(s.contribution[e], s.run[e], d, Len(t.run[d]), t.contribution[d].status)
    <3>1. PartOK(e, s.contribution[e], s.run[e])
      BY <1>1, <2>2
    <3> QED BY <2>2, <3>1 DEF PartOK, Serves
  <2> QED BY <1>2, <2>2, <2>3, <2>4 DEF IdleStatus
<1>3. CASE d # c
  <2>1. t.contribution[d] = s.contribution[d] /\ t.run[d] = s.run[d]
    BY <1>3 DEF OnlyPart
  <2>2. PICK e \in Contribution :
          /\ e # d /\ p \in Provides[e] /\ s.contribution[e].status \notin IdleStatus
          /\ Serves(s.contribution[e], s.run[e], d, Len(s.run[d]), s.contribution[d].status)
    BY <1>1, <2>1 DEF Served
  <2>3. e # c
    BY <2>2 DEF IdleStatus
  <2>4. t.contribution[e] = s.contribution[e] /\ t.run[e] = s.run[e]
    BY <2>3 DEF OnlyPart
  <2> QED BY <2>1, <2>2, <2>4
<1> QED BY <1>2, <1>3

(* Stops and refreshes take sound states to sound states. *)
LEMMA OnePart ==
  ASSUME NEW s \in Sound, NEW c \in Contribution, NEW t, OnlyPart(s, t, c),
         PartTo(s, c, t.contribution[c], t.run[c]),
         OpenWindows = {} => Served(t)
  PROVE  t \in Sound /\ Keeps(s, t)
<1>1. \A d \in Contribution : d # c => PartTo(s, d, t.contribution[d], t.run[d])
  BY SamePart DEF OnlyPart
<1>2. \A d \in Contribution : PartTo(s, d, t.contribution[d], t.run[d])
  BY <1>1
<1> QED BY <1>2, SoundSteps DEF OnlyPart

LEMMA OnePartServed ==
  ASSUME NEW s, NEW c \in Contribution, NEW t, OnlyPart(s, t, c), Served(s),
         Continues(s.contribution[c], s.run[c], t.contribution[c], t.run[c])
  PROVE  Served(t)
<1>1. \A d \in Contribution : d # c => Continues(s.contribution[d], s.run[d], t.contribution[d], t.run[d])
  BY SameContinues DEF OnlyPart
<1> QED BY <1>1, ServedSteps

LEMMA OnePartCalm ==
  ASSUME NEW s, NEW c \in Contribution, NEW t, OnlyPart(s, t, c), Owes(s.run[c], t.run[c]),
         t.contribution[c].status \in {"waiting", "active"} =>
           t.contribution[c].status = s.contribution[c].status
  PROVE  Calm(s, t)
<1>1. \A d \in Contribution : Owes(s.run[d], t.run[d])
  BY SameContinues DEF OnlyPart
<1> QED BY <1>1 DEF Calm, OnlyPart

LEMMA OnePartUntouched ==
  ASSUME NEW s, NEW c \in Contribution, NEW t, OnlyPart(s, t, c), Spares(s.run[c], t.run[c])
  PROVE  Untouched(s, t)
BY SameContinues DEF OnlyPart, Untouched

LEMMA KeepsOn ==
  ASSUME NEW s, NEW t, NEW u, Keeps(s, t), Keeps(t, u)
  PROVE  Keeps(s, u)
BY DEF Keeps, StaysBlocked

LEMMA StopAllSound ==
  ASSUME NEW s \in Sound, NEW cs
  PROVE  /\ StopAll(s, cs) \in Sound /\ Keeps(s, StopAll(s, cs))
         /\ StopAll(s, cs).installation = s.installation /\ StopAll(s, cs).installed = s.installed
         /\ OpenWindows = {} =>
              /\ Calm(s, StopAll(s, cs)) /\ Untouched(s, StopAll(s, cs))
              /\ \A c \in Contribution : c \in cs /\ StopAll(s, cs).contribution[c].status \notin IdleStatus =>
                   StopAll(s, cs).contribution[c].status \in Ending
<1> DEFINE t == StopAll(s, cs)
<1>0. s \in State
  BY DEF Sound
<1>1. /\ t \in State /\ t.installation = s.installation /\ t.installed = s.installed
      /\ \A c \in Contribution :
           /\ c \in cs => StopTo(s, c, t.contribution[c], t.run[c])
           /\ c \notin cs => t.contribution[c] = s.contribution[c] /\ t.run[c] = s.run[c]
  BY <1>0, StopAllIs, Zenon
<1> SUFFICES /\ t \in Sound /\ Keeps(s, t)
             /\ OpenWindows = {} =>
                  /\ Calm(s, t) /\ Untouched(s, t)
                  /\ \A c \in Contribution : c \in cs /\ t.contribution[c].status \notin IdleStatus =>
                       t.contribution[c].status \in Ending
  BY <1>1
<1> HIDE DEF t
<1>2. \A c \in Contribution : PartTo(s, c, t.contribution[c], t.run[c])
  BY <1>1, SamePart, StopToSound
<1>3. ASSUME OpenWindows = {}, NEW c \in Contribution
      PROVE  /\ Continues(s.contribution[c], s.run[c], t.contribution[c], t.run[c])
             /\ Spares(s.run[c], t.run[c]) /\ Owes(s.run[c], t.run[c])
             /\ t.contribution[c].status \in {"waiting", "active"} =>
                  t.contribution[c].status = s.contribution[c].status
             /\ c \in cs /\ s.contribution[c].status \notin IdleStatus => t.contribution[c].status \in Ending
  <2>1. CASE c \in cs
    BY <1>1, <1>3, <2>1, StopToSound
  <2>2. CASE c \notin cs
    BY <1>1, <1>3, <2>2, SameContinues
  <2> QED BY <2>1, <2>2
<1>4. OpenWindows = {} => Served(t)
  BY <1>3, ServedSteps DEF Sound
<1>5. t \in Sound /\ Keeps(s, t)
  BY <1>1, <1>2, <1>4, SoundSteps
<1>6. OpenWindows = {} => Calm(s, t) /\ Untouched(s, t)
  BY <1>1, <1>3 DEF Calm, Untouched
<1>7. OpenWindows = {} =>
        \A c \in Contribution : c \in cs /\ t.contribution[c].status \notin IdleStatus =>
          t.contribution[c].status \in Ending
  BY <1>3 DEF Continues
<1> QED BY <1>5, <1>6, <1>7

(* reconcile() leaves the contribution where it is not waiting in vain.    *)
Settled(s, t, c) ==
  /\ Calm(s, t) /\ Untouched(s, t)
  /\ t.contribution[c].status = "waiting" => ~Eligible(t, c)

LEMMA ReconcileSound ==
  ASSUME NEW s \in Sound, NEW c \in Contribution, Owner(c) \in Range(s.installed)
  PROVE  /\ ReconcileContribution(s, c) \in Sound
         /\ Keeps(s, ReconcileContribution(s, c))
         /\ ReconcileContribution(s, c).installed = s.installed
         /\ OpenWindows = {} => Settled(s, ReconcileContribution(s, c), c)
<1> DEFINE t == ReconcileContribution(s, c)
           own == s.contribution[c]
           i == s.installation[Owner(c)]
<1>0. s \in State
  BY DEF Sound
<1>1. \/ /\ t = s
         /\ own.status = "waiting" =>
              i.disposing \/ i.disposed \/ ~i.enabled \/ own.failed \/ ~Eligible(s, c)
      \/ /\ ~i.disposing /\ ~i.disposed /\ i.enabled /\ ~Fenced(own) /\ ~own.failed
         /\ OnlyPart(s, t, c)
         /\ \/ own.status \in {"active", "starting"} /\ StopTo(s, c, t.contribution[c], t.run[c])
            \/ ~Eligible(s, c) /\ StopTo(s, c, t.contribution[c], t.run[c])
            \/ own.status = "waiting" /\ Eligible(s, c) /\ StartTo(s, c, t.contribution[c], t.run[c])
  BY <1>0, ReconcileIs, Zenon
<1> SUFFICES /\ t \in Sound /\ Keeps(s, t) /\ t.installed = s.installed
             /\ OpenWindows = {} => Settled(s, t, c)
  OBVIOUS
<1> HIDE DEF t
<1>2. CASE /\ t = s
           /\ own.status = "waiting" =>
                i.disposing \/ i.disposed \/ ~i.enabled \/ own.failed \/ ~Eligible(s, c)
  <2>1. Keeps(s, s) /\ Calm(s, s) /\ Untouched(s, s)
    BY SameContinues DEF Keeps, StaysBlocked, Calm, Untouched
  <2>2. OpenWindows = {} => Orderly(i, own)
    BY DEF Sound
  <2>3. OpenWindows = {} /\ own.status = "waiting" => ~Eligible(s, c)
    BY <1>2, <2>2 DEF Orderly, Settling, IdleStatus
  <2> QED BY <1>2, <2>1, <2>3 DEF Settled
<1>3. CASE /\ OnlyPart(s, t, c)
           /\ own.status \in {"active", "starting"} \/ ~Eligible(s, c)
           /\ StopTo(s, c, t.contribution[c], t.run[c])
  <2>1. /\ PartTo(s, c, t.contribution[c], t.run[c])
        /\ OpenWindows = {} =>
              /\ Continues(own, s.run[c], t.contribution[c], t.run[c])
              /\ Spares(s.run[c], t.run[c]) /\ Owes(s.run[c], t.run[c])
              /\ t.contribution[c].status \in {"waiting", "active"} => t.contribution[c].status = own.status
              /\ own.status \notin IdleStatus => t.contribution[c].status \in Ending
    BY <1>3, StopToSound
  <2>2. OpenWindows = {} => Served(t)
    BY <1>3, <2>1, OnePartServed DEF Sound
  <2>3. OpenWindows = {} => Calm(s, t) /\ Untouched(s, t)
    BY <1>3, <2>1, OnePartCalm, OnePartUntouched
  <2>4. OpenWindows = {} /\ t.contribution[c].status = "waiting" => ~Eligible(t, c)
    <3>1. OpenWindows = {} /\ own.status \in {"active", "starting"} => t.contribution[c].status # "waiting"
      BY <2>1 DEF IdleStatus, Ending
    <3>2. OpenWindows = {} /\ ~Eligible(s, c) => ~Eligible(t, c)
      BY <1>0, <1>3, <2>3, CalmEligible DEF OnlyPart
    <3> QED BY <1>3, <3>1, <3>2
  <2>5. t \in Sound /\ Keeps(s, t)
    BY <1>3, <2>1, <2>2, OnePart
  <2> QED BY <1>3, <2>3, <2>4, <2>5 DEF OnlyPart, Settled
<1>4. CASE /\ OnlyPart(s, t, c) /\ own.status = "waiting" /\ ~i.disposing /\ ~i.disposed /\ i.enabled
           /\ Eligible(s, c) /\ StartTo(s, c, t.contribution[c], t.run[c])
  <2>1. /\ PartTo(s, c, t.contribution[c], t.run[c])
        /\ Spares(s.run[c], t.run[c]) /\ Owes(s.run[c], t.run[c])
        /\ t.contribution[c].status = "starting"
    BY <1>4, StartToSound
  <2>2. OpenWindows = {} => Served(t)
    BY <1>4, StartServed
  <2>3. Calm(s, t) /\ Untouched(s, t)
    BY <1>4, <2>1, OnePartCalm, OnePartUntouched
  <2>4. t \in Sound /\ Keeps(s, t)
    BY <1>4, <2>1, <2>2, OnePart
  <2> QED BY <1>4, <2>1, <2>3, <2>4 DEF OnlyPart, Settled
<1> QED BY <1>1, <1>2, <1>3, <1>4

LEMMA RefreshSound ==
  ASSUME NEW s \in Sound
  PROVE  /\ Refresh(s) \in Sound /\ Keeps(s, Refresh(s))
         /\ OpenWindows = {} => Untouched(s, Refresh(s)) /\ Reconciled(Refresh(s))
<1> DEFINE S == {x \in Sound :
                   /\ Keeps(s, x) /\ x.installed = s.installed
                   /\ OpenWindows = {} => Untouched(s, x)}
           cs == AllContributions(s)
           L == Len(cs)
<1>0. s \in State
  BY DEF Sound
<1>1. s \in S
  BY SameContinues DEF Keeps, StaysBlocked, Untouched
<1>2. /\ L \in Nat /\ DOMAIN cs = 1 .. L
      /\ \A n \in 1 .. L : cs[n] \in Contribution /\ Owner(cs[n]) \in Range(s.installed)
  <2>1. Len(cs) \in Nat /\ DOMAIN cs = 1 .. Len(cs)
    BY <1>0, ContributionsOf
  <2>2. \A n \in DOMAIN cs : cs[n] \in Range(cs)
    BY DEF Range
  <2> QED BY <1>0, <2>1, <2>2, ContributionsOf
<1>3. ASSUME NEW x \in S, NEW n \in 1 .. L
      PROVE  /\ ReconcileContribution(x, cs[n]) \in S
             /\ OpenWindows = {} => Settled(x, ReconcileContribution(x, cs[n]), cs[n])
  <2>1. x \in Sound /\ cs[n] \in Contribution /\ Owner(cs[n]) \in Range(x.installed)
    BY <1>2, <1>3
  <2>2. Keeps(s, x) /\ x.installed = s.installed /\ (OpenWindows = {} => Untouched(s, x))
    BY <1>3
  <2> HIDE DEF cs
  <2> DEFINE y == ReconcileContribution(x, cs[n])
  <2>3. /\ y \in Sound
        /\ Keeps(x, y)
        /\ y.installed = x.installed
        /\ OpenWindows = {} => Settled(x, y, cs[n])
    BY <2>1, ReconcileSound
  <2> HIDE DEF y
  <2>4. Keeps(s, y)
    BY <2>2, <2>3, KeepsOn
  <2>5. OpenWindows = {} => Untouched(s, y)
    BY <2>2, <2>3, UntouchedOn DEF Settled
  <2>6. y \in S /\ (OpenWindows = {} => Settled(x, y, cs[n]))
    BY <2>2, <2>3, <2>4, <2>5
  <2> QED BY <2>6 DEF y
<1>4. PICK f : Passes(f, s, S, cs)
  <2>1. Len(AllContributions(s)) \in Nat /\ \A x \in S : \A n \in 1 .. Len(AllContributions(s)) :
          ReconcileContribution(x, AllContributions(s)[n]) \in S
    BY <1>2, <1>3
  <2> HIDE DEF S
  <2> QED BY <1>1, <2>1, RefreshPasses, Zenon
<1>5. /\ f \in [0 .. L -> S] /\ Refresh(s) = f[L] /\ L \in 0 .. L
      /\ \A n \in 0 .. L : n # 0 => f[n] = ReconcileContribution(f[n - 1], cs[n])
  BY <1>2, <1>4 DEF Passes
<1>6. f[L] \in S
  BY <1>5
<1>7. ASSUME OpenWindows = {} PROVE Reconciled(f[L])
  <2> DEFINE Done(n, m) == f[n].contribution[cs[m]].status = "waiting" => ~Eligible(f[n], cs[m])
             P == {n \in 0 .. L : \A m \in 1 .. n : Done(n, m)}
  <2>1. 0 \in P
    BY <1>2
  <2>2. ASSUME NEW n \in 0 .. L, n # 0, n - 1 \in P PROVE n \in P
    <3>1. n \in 1 .. L /\ n - 1 \in 0 .. L
      BY <1>2, <2>2
    <3>2. f[n - 1] \in S /\ f[n] \in S
      BY <1>5, <3>1
    <3>3. Settled(f[n - 1], f[n], cs[n])
      BY <1>3, <1>5, <1>7, <2>2, <3>1, <3>2
    <3>4. f[n - 1] \in State /\ f[n] \in State
      BY <3>2 DEF Sound
    <3>5. ASSUME NEW m \in 1 .. n PROVE Done(n, m)
      <4>1. m \in 1 .. L /\ cs[m] \in Contribution
        BY <1>2, <3>1, <3>5
      <4>2. CASE m = n
        BY <3>3, <4>2 DEF Settled
      <4>3. CASE m # n
        <5>1. m \in 1 .. n - 1
          BY <3>1, <3>5, <4>3
        <5>2. Done(n - 1, m)
          BY <2>2, <5>1
        <5>3. Calm(f[n - 1], f[n])
          BY <3>3 DEF Settled
        <5>4. Eligible(f[n], cs[m]) => Eligible(f[n - 1], cs[m])
          BY <3>4, <4>1, <5>3, CalmEligible
        <5>5. f[n].contribution[cs[m]].status = "waiting" => f[n - 1].contribution[cs[m]].status = "waiting"
          BY <4>1, <5>3 DEF Calm
        <5> QED BY <5>2, <5>4, <5>5
      <4> QED BY <4>2, <4>3
    <3> HIDE DEF Done
    <3> QED BY <3>1, <3>5
  <2>3. L \in P
    <3>1. 0 \in Nat /\ L \in Nat /\ L \in 0 .. L
      BY <1>2
    <3>2. \A n \in 0 .. L : n # 0 /\ n - 1 \in P => n \in P
      BY <2>2, Zenon
    <3> HIDE DEF P, L
    <3> QED BY <2>1, <3>1, <3>2, Upwards, Zenon
  <2>4. f[L].installed = s.installed
    BY <1>6
  <2> SUFFICES ASSUME NEW d \in Contribution, Owner(d) \in Range(s.installed), f[L].contribution[d].status = "waiting"
               PROVE  ~Eligible(f[L], d)
    BY <2>4 DEF Reconciled
  <2>5. d \in Range(cs)
    BY <1>0, ContributionsOf
  <2>6. PICK m \in 1 .. L : cs[m] = d
    BY <1>2, <2>5 DEF Range
  <2>7. Done(L, m)
    BY <2>3
  <2> QED BY <2>6, <2>7
<1> QED BY <1>5, <1>6, <1>7

(* A refresh at the end of a step. *)
LEMMA ThenRefresh ==
  ASSUME NEW s, NEW t \in Sound, Keeps(s, t), OpenWindows = {} => Spared(s, t)
  PROVE  /\ Refresh(t) \in Sound
         /\ Proceeds(s, Refresh(t))
<1> DEFINE u == Refresh(t)
<1>1. u \in Sound /\ Keeps(t, u) /\ (OpenWindows = {} => Untouched(t, u) /\ Reconciled(u))
  BY RefreshSound
<1> HIDE DEF u
<1>2. Keeps(s, u)
  BY <1>1, KeepsOn
<1>3. OpenWindows = {} => Spared(s, u)
  BY <1>1, SparedOn
<1>4. OpenWindows = {} => Ready(u)
  BY <1>1 DEF Ready
<1>5. u \in Sound /\ Proceeds(s, u)
  BY <1>1, <1>2, <1>3, <1>4 DEF Proceeds
<1> QED BY <1>5 DEF u

LEMMA CalmProceeds ==
  ASSUME NEW s \in State, NEW t \in State, Keeps(s, t),
         OpenWindows = {} => Calm(s, t) /\ Spared(s, t)
  PROVE  Proceeds(s, t)
BY CalmReady DEF Proceeds

LEMMA UntouchedSpares ==
  ASSUME NEW s, NEW t, Untouched(s, t)
  PROVE  Spared(s, t)
BY DEF Untouched, Spared

-------------------------------------------------------------------------------
(* The continuations of one generation.                                    *)

(* A step of generation g of c: the other generations stay as they are.    *)
Advances(s, t, c, g) ==
  /\ OnlyPart(s, t, c)
  /\ g \in 1 .. Len(s.run[c])
  /\ Len(t.run[c]) = Len(s.run[c])
  /\ \A h \in 1 .. Len(s.run[c]) : h # g => t.run[c][h] = s.run[c][h]

(* What becomes of the generation q, and of its contribution.              *)
BegunStart(q, r, g) ==
  /\ q.start = "queued" /\ r.starts = g /\ r.stops = q.stops
  /\ r.stop = q.stop /\ (r.aborted <=> q.aborted) /\ r.teardown = q.teardown
  /\ \/ q.aborted /\ r.start = "settled" /\ r.setup = q.setup
     \/ ~q.aborted /\ r.start = "awaiting" /\ r.setup = "running"

SettledSetup(q, r) ==
  /\ q.setup = "running"
  /\ r.start = q.start /\ r.starts = q.starts /\ r.stop = q.stop /\ r.stops = q.stops
  /\ \/ r.setup = "resolved" /\ (r.aborted <=> q.aborted) /\ r.teardown = q.teardown
     \/ r.setup = "rejected" /\ r.aborted /\ r.teardown = TornDown(q.teardown)

EndedTeardown(q, r) ==
  /\ q.teardown = "pending" /\ q.setup # "running"
  /\ r.teardown \in {"resolved", "rejected"}
  /\ r.start = q.start /\ r.starts = q.starts /\ r.setup = q.setup /\ (r.aborted <=> q.aborted)
  /\ r.stop = q.stop /\ r.stops = q.stops

BegunStop(q, r) ==
  /\ q.stop = "queued" /\ q.start # "queued"
  /\ r.stop = "dependents" /\ r.starts = q.starts
  /\ r.start = q.start /\ r.setup = q.setup /\ (r.aborted <=> q.aborted) /\ r.teardown = q.teardown

StoppedDependents(q, r, g) ==
  /\ q.stop = "dependents"
  /\ r.stop = "activation" /\ r.stops = g /\ r.starts = q.starts /\ r.teardown = TornDown(q.teardown)
  /\ r.start = q.start /\ r.setup = q.setup /\ r.aborted

SameBut(own, old) == own.generation = old.generation /\ own.activation = old.activation

SucceededStart(old, own, q, r) ==
  /\ q.start = "awaiting" /\ q.setup = "resolved" /\ ~q.aborted
  /\ r.start = "settled" /\ r.stops = q.stops
  /\ r.setup = q.setup /\ (r.aborted <=> q.aborted) /\ r.teardown = q.teardown /\ r.stop = q.stop
  /\ own.status = IF old.status = "starting" THEN "active" ELSE old.status
  /\ own.failed = old.failed /\ own.transition = old.transition /\ SameBut(own, old)

Cleared(old, own, p, c) == own.transition = IF old.transition = p THEN Nothing(c) ELSE old.transition

FailedStart(old, own, q, r, c, g) ==
  /\ q.start = "awaiting"
  /\ \/ q.setup = "resolved" /\ q.aborted
     \/ q.setup = "rejected" /\ q.teardown \in {"resolved", "rejected"}
  /\ r.stops = q.stops
  /\ r.setup = q.setup /\ (r.aborted <=> q.aborted) /\ r.teardown = q.teardown /\ r.stop = q.stop
  /\ IF old.status = "starting"
     THEN own.failed /\ own.status = IF q.teardown = "rejected" THEN "cleanup-blocked" ELSE "failed"
     ELSE own.failed = old.failed /\ own.status = old.status
  /\ SameBut(own, old)
  /\ \/ /\ q.teardown = "rejected" /\ "reaction" \notin OpenWindows
        /\ r.start = "done"
        /\ Cleared(old, own, Transition("start", c, g), c)
     \/ /\ ~(q.teardown = "rejected" /\ "reaction" \notin OpenWindows)
        /\ r.start = "settled"
        /\ own.transition = old.transition

ReactedToStart(old, own, q, r, c, g) ==
  /\ q.start = "settled" /\ r.start = "done" /\ r.awaited = q.awaited /\ r.stops = q.stops
  /\ r.setup = q.setup /\ (r.aborted <=> q.aborted) /\ r.teardown = q.teardown /\ r.stop = q.stop
  /\ own.status = old.status /\ own.failed = old.failed /\ SameBut(own, old)
  /\ Cleared(old, own, Transition("start", c, g), c)

BlockedStop(old, own, q, r) ==
  /\ q.stop \in {"dependents", "activation"} /\ r.stop = "rejected" /\ r.starts = q.starts
  /\ r.start = q.start /\ r.setup = q.setup /\ (r.aborted <=> q.aborted) /\ r.teardown = q.teardown
  /\ own.status = "cleanup-blocked"
  /\ own.failed = old.failed /\ own.transition = old.transition /\ SameBut(own, old)

ResolvedStop(old, own, q, r, settled) ==
  /\ q.stop = "activation" /\ q.teardown = "resolved"
  /\ q.start = "awaiting" => "observation" \in OpenWindows
  /\ r.stop = "resolved" /\ r.starts = q.starts
  /\ r.start = q.start /\ r.setup = q.setup /\ (r.aborted <=> q.aborted) /\ r.teardown = q.teardown
  /\ own.status = settled /\ own.activation = 0
  /\ own.failed = old.failed /\ own.transition = old.transition /\ own.generation = old.generation

ReactedToStop(old, own, q, r, c, g) ==
  /\ r.starts = q.starts
  /\ r.start = q.start /\ r.setup = q.setup /\ (r.aborted <=> q.aborted) /\ r.teardown = q.teardown
  /\ own.status = old.status /\ own.failed = old.failed /\ SameBut(own, old)
  /\ \/ q.stop = "resolved" /\ r.stop = "done" /\ Cleared(old, own, Transition("stop", c, g), c)
     \/ q.stop = "rejected" /\ r.stop = "blocked" /\ own.transition = old.transition

(* A step that uses up a promise's settlement; its segment refreshes. *)
Reacting(q, r) ==
  \/ q.start # "done" /\ r.start = "done"
  \/ q.stop \in {"resolved", "rejected"} /\ r.stop \in {"done", "blocked"}

Moves(s, t, c, g) ==
  LET old == s.contribution[c]
      own == t.contribution[c]
      q == s.run[c][g]
      r == t.run[c][g]
  IN \/ own = old /\ \/ BegunStart(q, r, g)
                     \/ SettledSetup(q, r)
                     \/ EndedTeardown(q, r)
                     \/ BegunStop(q, r) /\ (OpenWindows = {} => Served(t))
                     \/ StoppedDependents(q, r, g) /\ (OpenWindows = {} => Alone(s, c))
     \/ SucceededStart(old, own, q, r)
     \/ FailedStart(old, own, q, r, c, g)
     \/ ReactedToStart(old, own, q, r, c, g)
     \/ BlockedStop(old, own, q, r)
     \/ ResolvedStop(old, own, q, r, SettledStatus(s, c))
     \/ ReactedToStop(old, own, q, r, c, g)

LEMMA MovesFencing ==
  ASSUME NEW s \in State, NEW c \in Contribution, NEW t, NEW g, Advances(s, t, c, g), Moves(s, t, c, g),
         Fencing(s.contribution[c], s.run[c])
  PROVE  Fencing(t.contribution[c], t.run[c])
<1> DEFINE old == s.contribution[c]
           own == t.contribution[c]
           q == s.run[c][g]
           r == t.run[c][g]
           n == Len(s.run[c])
<1>0. /\ n \in Nat /\ g \in 1 .. n /\ Len(t.run[c]) = n
      /\ \A h \in 1 .. n : h # g => t.run[c][h] = s.run[c][h]
      /\ \A h \in 1 .. n :
           /\ s.run[c][h].stop \in Underway => old.status = "stopping" /\ old.activation = h
           /\ s.run[c][h].stop = "activation" => s.run[c][h].stops = h
           /\ s.run[c][h].start # "reporting"
      /\ old.failed => old.status \in {"failed", "disabled", "disposed", "cleanup-blocked"}
  BY StateFields DEF Advances, Fencing
<1>6. (r.stop = "activation" => r.stops = g) /\ r.start # "reporting"
  <2>1. (q.stop = "activation" => q.stops = g) /\ q.start # "reporting"
    BY <1>0
  <2>2. Moves(s, t, c, g)
    OBVIOUS
  <2> HIDE DEF q, r, own, old
  <2> QED BY <2>1, <2>2
          DEF Moves, q, r, own, old, BegunStop, BegunStart, SettledSetup, EndedTeardown, StoppedDependents,
              SucceededStart, FailedStart, ReactedToStart, BlockedStop, ResolvedStop, ReactedToStop
<1>7. ASSUME /\ own.failed => own.status \in {"failed", "disabled", "disposed", "cleanup-blocked"}
             /\ \A h \in 1 .. n : t.run[c][h].stop \in Underway => own.status = "stopping" /\ own.activation = h
      PROVE  Fencing(own, t.run[c])
  <2>1. \A h \in 1 .. n : (t.run[c][h].stop = "activation" => t.run[c][h].stops = h) /\ t.run[c][h].start # "reporting"
    BY <1>0, <1>6
  <2> QED BY <1>0, <1>7, <2>1 DEF Fencing
<1>1. CASE /\ own.status = old.status /\ own.activation = old.activation /\ own.failed = old.failed
           /\ r.stop \in Underway => q.stop \in Underway
  BY <1>0, <1>1, <1>7
<1>2. CASE own = old /\ (BegunStart(q, r, g) \/ SettledSetup(q, r) \/ EndedTeardown(q, r)
                         \/ BegunStop(q, r) \/ StoppedDependents(q, r, g))
  <2>1. r.stop \in Underway => q.stop \in Underway
    BY <1>2 DEF BegunStart, SettledSetup, EndedTeardown, BegunStop, StoppedDependents, Underway
  <2> QED BY <1>1, <1>2, <2>1
<1>3. CASE SucceededStart(old, own, q, r) \/ FailedStart(old, own, q, r, c, g)
  <2>1. r.stop = q.stop /\ own.activation = old.activation
    BY <1>3 DEF SucceededStart, FailedStart, SameBut
  <2>2. \/ own.status = old.status /\ own.failed = old.failed
        \/ /\ old.status = "starting" /\ own.status \in {"active", "failed", "cleanup-blocked"}
           /\ own.failed = old.failed \/ own.status \in {"failed", "cleanup-blocked"}
    BY <1>3 DEF SucceededStart, FailedStart
  <2> QED BY <1>0, <1>1, <1>7, <2>1, <2>2 DEF Underway
<1>4. CASE ReactedToStart(old, own, q, r, c, g) \/ ReactedToStop(old, own, q, r, c, g)
  BY <1>1, <1>4 DEF ReactedToStart, ReactedToStop, SameBut, Underway
<1>5. CASE BlockedStop(old, own, q, r) \/ ResolvedStop(old, own, q, r, SettledStatus(s, c))
  <2>1. q.stop \in Underway /\ r.stop \notin Underway /\ own.failed = old.failed
    BY <1>5 DEF BlockedStop, ResolvedStop, Underway
  <2>2. \A h \in 1 .. n : t.run[c][h].stop \notin Underway
    BY <1>0, <2>1
  <2>3. own.failed => own.status \in {"failed", "disabled", "disposed", "cleanup-blocked"}
    <3>1. own.status = "cleanup-blocked" \/ own.status = SettledStatus(s, c)
      BY <1>5 DEF BlockedStop, ResolvedStop
    <3> QED BY <2>1, <3>1, SettledStatuses
  <2> QED BY <1>7, <2>2, <2>3
<1> QED BY <1>2, <1>3, <1>4, <1>5 DEF Moves

(* Every generation stays in order, and one that has finished stays so;    *)
(* what the contribution's status says of its last generation stays true.  *)
LEMMA MovesGeneration ==
  ASSUME NEW s \in State, NEW c \in Contribution, NEW t, NEW g, Moves(s, t, c, g), g \in 1 .. Len(s.run[c]),
         ~Loose, PartOK(c, s.contribution[c], s.run[c]),
         t.run[c][g] \in GenerationRecord
  PROVE  /\ GenerationOK(t.run[c][g]) /\ (t.run[c][g].start = "awaiting" => t.run[c][g].starts = g)
         /\ Finished(s.run[c][g]) => Finished(t.run[c][g])
<1> DEFINE old == s.contribution[c]
           own == t.contribution[c]
           q == s.run[c][g]
           r == t.run[c][g]
<1>0. /\ q \in GenerationRecord /\ r \in GenerationRecord /\ GenerationOK(q)
      /\ q.start = "awaiting" => q.starts = g
      /\ "observation" \notin OpenWindows
  BY StateFields DEF PartOK, Loose
<1> SUFFICES GenerationOK(r) /\ (r.start = "awaiting" => r.starts = g) /\ (Finished(q) => Finished(r))
  OBVIOUS
<1>12. Moves(s, t, c, g)
  OBVIOUS
<1> HIDE DEF q, r
<1>1. CASE BegunStart(q, r, g)
  BY <1>0, <1>1 DEF BegunStart, GenerationOK, Finished
<1>2. CASE SettledSetup(q, r)
  BY <1>0, <1>2 DEF SettledSetup, GenerationOK, Finished, TornDown, GenerationRecord
<1>3. CASE EndedTeardown(q, r)
  BY <1>0, <1>3 DEF EndedTeardown, GenerationOK, Finished, GenerationRecord
<1>4. CASE BegunStop(q, r)
  BY <1>0, <1>4 DEF BegunStop, GenerationOK, Finished
<1>5. CASE StoppedDependents(q, r, g)
  BY <1>0, <1>5 DEF StoppedDependents, GenerationOK, Finished, TornDown
<1>6. CASE SucceededStart(old, own, q, r)
  BY <1>0, <1>6 DEF SucceededStart, GenerationOK, Finished
<1>7. CASE FailedStart(old, own, q, r, c, g)
  BY <1>0, <1>7 DEF FailedStart, GenerationOK, Finished
<1>8. CASE ReactedToStart(old, own, q, r, c, g)
  BY <1>0, <1>8 DEF ReactedToStart, GenerationOK, Finished
<1>9. CASE BlockedStop(old, own, q, r)
  BY <1>0, <1>9 DEF BlockedStop, GenerationOK, Finished
<1>10. CASE ResolvedStop(old, own, q, r, SettledStatus(s, c))
  BY <1>0, <1>10 DEF ResolvedStop, GenerationOK, Finished
<1>11. CASE ReactedToStop(old, own, q, r, c, g)
  BY <1>0, <1>11 DEF ReactedToStop, GenerationOK, Finished
<1> QED BY <1>1, <1>2, <1>3, <1>4, <1>5, <1>6, <1>7, <1>8, <1>9, <1>10, <1>11 DEF Moves, q, r

LEMMA MovesPart ==
  ASSUME NEW s \in State, NEW c \in Contribution, NEW t, NEW g, Advances(s, t, c, g), Moves(s, t, c, g),
         ~Loose, PartOK(c, s.contribution[c], s.run[c])
  PROVE  PartOK(c, t.contribution[c], t.run[c])
<1> DEFINE old == s.contribution[c]
           own == t.contribution[c]
           q == s.run[c][g]
           r == t.run[c][g]
           before == s.run[c]
           rs == t.run[c]
           n == Len(before)
<1>0. /\ n \in Nat /\ g \in 1 .. n /\ Len(rs) = n /\ n > 0 /\ n \in 1 .. n
      /\ \A h \in 1 .. n : h # g => rs[h] = before[h]
      /\ r \in GenerationRecord /\ q \in GenerationRecord
  BY StateFields DEF Advances, OnlyPart
<1>1. GenerationOK(r) /\ (r.start = "awaiting" => r.starts = g) /\ (Finished(q) => Finished(r))
  BY <1>0, MovesGeneration
<1>2. /\ \A h \in 1 .. n : GenerationOK(rs[h]) /\ (rs[h].start = "awaiting" => rs[h].starts = h)
      /\ \A h \in 1 .. n - 1 : Finished(rs[h])
  <2>1. /\ \A h \in 1 .. n : GenerationOK(before[h]) /\ (before[h].start = "awaiting" => before[h].starts = h)
        /\ \A h \in 1 .. n - 1 : Finished(before[h])
    BY DEF PartOK
  <2>2. rs[g] = r /\ before[g] = q
    OBVIOUS
  <2> HIDE DEF rs, before, r, q, n
  <2>3. ASSUME NEW h \in 1 .. n
        PROVE  GenerationOK(rs[h]) /\ (rs[h].start = "awaiting" => rs[h].starts = h)
    <3>1. CASE h = g
      BY <1>1, <2>2, <3>1
    <3>2. CASE h # g
      BY <1>0, <2>1, <3>2
    <3> QED BY <3>1, <3>2
  <2>4. ASSUME NEW h \in 1 .. n - 1
        PROVE  Finished(rs[h])
    <3>0. h \in 1 .. n /\ Finished(before[h])
      BY <1>0, <2>1
    <3>1. CASE h = g
      BY <1>1, <2>2, <3>0, <3>1
    <3>2. CASE h # g
      BY <1>0, <3>0, <3>2
    <3> QED BY <3>1, <3>2
  <2> QED BY <2>3, <2>4
<1>3. GenerationOK(before[n]) /\ GenerationOK(q) /\ (g # n => Finished(q))
  BY <1>0 DEF PartOK
<1> DEFINE Lastly(o, x) ==
      /\ o.activation \in {0, n}
      /\ o.status \in IdleStatus => Finished(x)
      /\ o.status \notin IdleStatus => o.activation = n
      /\ o.status = "starting" =>
           x.stop = "none" /\ x.start \in {"queued", "awaiting"} /\ o.transition = Transition("start", c, n)
      /\ o.status = "active" =>
           x.stop = "none" /\ x.start \in {"settled", "done"} /\ x.setup = "resolved" /\ ~x.aborted
      /\ o.status = "stopping" => x.stop \in Underway /\ o.transition = Transition("stop", c, n)
      /\ o.status = "cleanup-blocked" =>
           \/ x.stop \in {"rejected", "blocked"} /\ o.transition = Transition("stop", c, n)
           \/ /\ x.stop = "none" /\ x.start \in {"settled", "done"} /\ x.teardown = "rejected"
              /\ "reaction" \notin OpenWindows => o.transition = Nothing(c)
<1>4. Lastly(old, before[n])
  BY <1>0 DEF PartOK
<1>5. Lastly(own, rs[n]) => PartOK(c, own, rs)
  BY <1>0, <1>2 DEF PartOK
<1>6. rs[n] = (IF g = n THEN r ELSE before[n]) /\ (g = n => before[n] = q)
  BY <1>0
<1>7. /\ Transition("start", c, g) = Transition("start", c, n) => g = n
      /\ Transition("stop", c, g) = Transition("stop", c, n) => g = n
      /\ Transition("start", c, g) # Transition("stop", c, n)
      /\ Transition("stop", c, g) # Transition("start", c, n)
      /\ Nothing(c) # Transition("start", c, n) /\ Nothing(c) # Transition("stop", c, n)
  BY <1>0 DEF Transition, Nothing
<1> SUFFICES Lastly(own, rs[n])
  BY <1>5
<1>8. SettledStatus(s, c) \in IdleStatus /\ old \in ContributionRecord /\ "observation" \notin OpenWindows
  BY SettledStatuses, StateFields DEF IdleStatus, Loose
<1>9. Moves(s, t, c, g)
  OBVIOUS
<1> HIDE DEF q, r, before, rs, old, own, n
<1>10. CASE own = old /\ BegunStart(q, r, g)
  BY <1>0, <1>1, <1>3, <1>4, <1>6, <1>7, <1>8, <1>10 DEF BegunStart, GenerationOK, Finished, Underway
<1>11. CASE own = old /\ SettledSetup(q, r)
  BY <1>0, <1>1, <1>3, <1>4, <1>6, <1>7, <1>8, <1>11 DEF SettledSetup, GenerationOK, Finished, Underway
<1>12. CASE own = old /\ EndedTeardown(q, r)
  BY <1>0, <1>1, <1>3, <1>4, <1>6, <1>7, <1>8, <1>12 DEF EndedTeardown, GenerationOK, Finished, Underway
<1>13. CASE own = old /\ BegunStop(q, r)
  BY <1>0, <1>1, <1>3, <1>4, <1>6, <1>7, <1>8, <1>13 DEF BegunStop, GenerationOK, Finished, Underway
<1>14. CASE own = old /\ StoppedDependents(q, r, g)
  BY <1>0, <1>1, <1>3, <1>4, <1>6, <1>7, <1>8, <1>14 DEF StoppedDependents, GenerationOK, Finished, Underway
<1>15. CASE SucceededStart(old, own, q, r)
  BY <1>0, <1>1, <1>3, <1>4, <1>6, <1>7, <1>8, <1>15 DEF SucceededStart, SameBut, IdleStatus, GenerationOK, Finished, Underway
<1>16. CASE FailedStart(old, own, q, r, c, g)
  BY <1>0, <1>1, <1>3, <1>4, <1>6, <1>7, <1>8, <1>16 DEF FailedStart, Cleared, SameBut, IdleStatus, GenerationOK, Finished, Underway
<1>17. CASE ReactedToStart(old, own, q, r, c, g)
  BY <1>0, <1>1, <1>3, <1>4, <1>6, <1>7, <1>8, <1>17 DEF ReactedToStart, Cleared, SameBut, IdleStatus, GenerationOK, Finished, Underway
<1>18. CASE BlockedStop(old, own, q, r)
  BY <1>0, <1>1, <1>3, <1>4, <1>6, <1>7, <1>8, <1>18 DEF BlockedStop, SameBut, IdleStatus, ContributionRecord, GenerationOK, Finished, Underway
<1>19. CASE ResolvedStop(old, own, q, r, SettledStatus(s, c))
  <2>1. q.stop = "activation" /\ q.start \in {"settled", "done"} /\ q.teardown = "resolved"
    BY <1>0, <1>3, <1>8, <1>19 DEF ResolvedStop, GenerationRecord, GenerationOK
  <2>2. g = n /\ rs[n] = r
    BY <1>3, <1>6, <2>1 DEF Finished
  <2>3. Finished(r)
    BY <1>19, <2>1 DEF ResolvedStop, Finished
  <2>4. own.activation = 0 /\ own.status \in IdleStatus
    BY <1>8, <1>19 DEF ResolvedStop
  <2> QED BY <2>2, <2>3, <2>4 DEF IdleStatus
<1>20. CASE ReactedToStop(old, own, q, r, c, g)
  BY <1>0, <1>1, <1>3, <1>4, <1>6, <1>7, <1>8, <1>20 DEF ReactedToStop, Cleared, SameBut, IdleStatus, GenerationOK, Finished, Underway
<1> QED BY <1>9, <1>10, <1>11, <1>12, <1>13, <1>14, <1>15, <1>16, <1>17, <1>18, <1>19, <1>20 DEF Moves, q, r, old, own

(* Whoever requires what c provides would have to be served by c.          *)
LEMMA AloneUnlessServing ==
  ASSUME NEW s \in Sound, OpenWindows = {}, NEW c \in Contribution, s.contribution[c].status \notin IdleStatus,
         \A d \in Contribution : d # c /\ s.contribution[d].status \notin IdleStatus =>
           ~Serves(s.contribution[c], s.run[c], d, Len(s.run[d]), s.contribution[d].status)
  PROVE  Alone(s, c)
<1> SUFFICES ASSUME NEW d \in Contribution, d # c, s.contribution[d].status \notin IdleStatus,
                    NEW p \in Requires[d], p \in Provides[c]
             PROVE  FALSE
  BY DEF Alone
<1>1. Served(s) /\ Placement(s)
  BY DEF Sound
<1>2. PICK e \in Contribution :
        /\ e # d /\ p \in Provides[e] /\ s.contribution[e].status \notin IdleStatus
        /\ Serves(s.contribution[e], s.run[e], d, Len(s.run[d]), s.contribution[d].status)
  BY <1>1 DEF Served
<1>3. e = c
  BY <1>1, <1>2 DEF Placement
<1> QED BY <1>2, <1>3

LEMMA MovesContinues ==
  ASSUME NEW s \in State, NEW c \in Contribution, NEW t, NEW g, Advances(s, t, c, g), Moves(s, t, c, g),
         OpenWindows = {}, PartOK(c, s.contribution[c], s.run[c]), Fencing(s.contribution[c], s.run[c]),
         ~BegunStop(s.run[c][g], t.run[c][g]), ~StoppedDependents(s.run[c][g], t.run[c][g], g)
  PROVE  Continues(s.contribution[c], s.run[c], t.contribution[c], t.run[c])
<1> DEFINE old == s.contribution[c]
           own == t.contribution[c]
           q == s.run[c][g]
           r == t.run[c][g]
           before == s.run[c]
           rs == t.run[c]
           n == Len(before)
           At(o, x, d, m, status) ==
             /\ x.start \in {"settled", "done"} /\ x.setup = "resolved"
             /\ \/ o.status = "active"
                \/ o.status = "stopping" /\ x.stop = "queued"
                \/ /\ o.status = "stopping" /\ x.stop = "dependents" /\ status \in Ending
                   /\ Transition("stop", d, m) \in x.awaited \/ Rejected(d) \in x.awaited
                \/ o.status = "cleanup-blocked" /\ status \in Ending
<1>0. /\ n \in Nat /\ g \in 1 .. n /\ Len(rs) = n /\ n \in 1 .. n
      /\ rs[n] = IF g = n THEN r ELSE before[n]
  BY StateFields DEF Advances
<1>1. \A d, m, status :
        /\ Serves(old, before, d, m, status) <=> At(old, before[n], d, m, status)
        /\ Serves(own, rs, d, m, status) <=> At(own, rs[n], d, m, status)
  BY <1>0 DEF Serves
<1>2. GenerationOK(q) /\ (g # n => Finished(q)) /\ (g = n => before[n] = q)
  BY <1>0 DEF PartOK
<1>3. q.stop \in Underway => old.status = "stopping"
  BY <1>0 DEF Fencing
<1>4. SettledStatus(s, c) \in IdleStatus
  BY SettledStatuses DEF IdleStatus
<1>5. Moves(s, t, c, g) /\ ~BegunStop(q, r) /\ ~StoppedDependents(q, r, g)
  OBVIOUS
<1> DEFINE Still == \A d, m, status : At(old, before[n], d, m, status) => At(own, rs[n], d, m, status)
           Comes == own.status \notin IdleStatus =>
                      old.status \notin IdleStatus /\ (old.status \in Ending => own.status \in Ending)
<1> SUFFICES Still /\ Comes
  BY <1>0, <1>1 DEF Continues
<1> HIDE DEF q, r, before, rs, old, own, n
<1>6. CASE own = old /\ BegunStart(q, r, g)
  BY <1>0, <1>2, <1>6 DEF BegunStart, Finished
<1>7. CASE own = old /\ SettledSetup(q, r)
  BY <1>0, <1>2, <1>7 DEF SettledSetup, GenerationOK, Finished
<1>8. CASE own = old /\ EndedTeardown(q, r)
  BY <1>0, <1>2, <1>8 DEF EndedTeardown, GenerationOK
<1>9. CASE SucceededStart(old, own, q, r)
  BY <1>0, <1>2, <1>9 DEF SucceededStart, Finished, IdleStatus, Ending
<1>10. CASE FailedStart(old, own, q, r, c, g)
  BY <1>0, <1>2, <1>10 DEF FailedStart, Finished, IdleStatus, Ending
<1>11. CASE ReactedToStart(old, own, q, r, c, g)
  BY <1>0, <1>2, <1>11 DEF ReactedToStart
<1>12. CASE BlockedStop(old, own, q, r)
  BY <1>0, <1>2, <1>3, <1>12 DEF BlockedStop, Finished, Underway, IdleStatus, Ending
<1>13. CASE ResolvedStop(old, own, q, r, SettledStatus(s, c))
  BY <1>0, <1>2, <1>3, <1>4, <1>13 DEF ResolvedStop, Finished, Underway, IdleStatus
<1>14. CASE ReactedToStop(old, own, q, r, c, g)
  BY <1>0, <1>2, <1>14 DEF ReactedToStop
<1> QED
  BY <1>5, <1>6, <1>7, <1>8, <1>9, <1>10, <1>11, <1>12, <1>13, <1>14 DEF Moves, old, own, q, r

LEMMA MovesServed ==
  ASSUME NEW s \in Sound, NEW c \in Contribution, NEW t, NEW g, Advances(s, t, c, g), Moves(s, t, c, g),
         OpenWindows = {}
  PROVE  Served(t)
<1> DEFINE q == s.run[c][g]
           r == t.run[c][g]
<1>0. /\ s \in State /\ PartOK(c, s.contribution[c], s.run[c]) /\ Fencing(s.contribution[c], s.run[c])
      /\ Served(s) /\ OnlyPart(s, t, c) /\ Len(t.run[c]) = Len(s.run[c])
  BY DEF Sound, PartSound, Advances, Loose
<1>1. CASE ~BegunStop(q, r) /\ ~StoppedDependents(q, r, g)
  <2>1. Continues(s.contribution[c], s.run[c], t.contribution[c], t.run[c])
    BY <1>0, <1>1, MovesContinues
  <2> QED BY <1>0, <2>1, OnePartServed
<1>2. CASE BegunStop(q, r)
  BY <1>2 DEF Moves, BegunStop, BegunStart, SettledSetup, EndedTeardown, StoppedDependents, SucceededStart,
              FailedStart, ReactedToStart, BlockedStop, ResolvedStop, ReactedToStop
<1>3. CASE StoppedDependents(q, r, g)
  <2>1. t.contribution[c] = s.contribution[c] /\ Alone(s, c)
    BY <1>3 DEF Moves, BegunStop, BegunStart, SettledSetup, EndedTeardown, StoppedDependents, SucceededStart,
                FailedStart, ReactedToStart, BlockedStop, ResolvedStop, ReactedToStop
  <2> SUFFICES ASSUME NEW d \in Contribution, t.contribution[d].status \notin IdleStatus, NEW p \in Requires[d]
               PROVE  \E e \in Contribution :
                        /\ e # d /\ p \in Provides[e] /\ t.contribution[e].status \notin IdleStatus
                        /\ Serves(t.contribution[e], t.run[e], d, Len(t.run[d]), t.contribution[d].status)
    BY DEF Served
  <2>2. t.contribution[d] = s.contribution[d] /\ Len(t.run[d]) = Len(s.run[d])
    BY <1>0, <2>1 DEF OnlyPart
  <2>3. PICK e \in Contribution :
          /\ e # d /\ p \in Provides[e] /\ s.contribution[e].status \notin IdleStatus
          /\ Serves(s.contribution[e], s.run[e], d, Len(s.run[d]), s.contribution[d].status)
    BY <1>0, <2>2 DEF Served
  <2>4. e # c
    BY <2>1, <2>2, <2>3 DEF Alone
  <2>5. t.contribution[e] = s.contribution[e] /\ t.run[e] = s.run[e]
    BY <1>0, <2>4 DEF OnlyPart
  <2> QED BY <2>2, <2>3, <2>5
<1> QED BY <1>1, <1>2, <1>3

LEMMA MovesSpared ==
  ASSUME NEW s \in Sound, NEW c \in Contribution, NEW t, NEW g, Advances(s, t, c, g), Moves(s, t, c, g),
         OpenWindows = {}
  PROVE  Spared(s, t)
<1> DEFINE q == s.run[c][g]
           r == t.run[c][g]
           n == Len(s.run[c])
<1>0. /\ s \in State /\ PartOK(c, s.contribution[c], s.run[c])
      /\ OnlyPart(s, t, c) /\ n \in Nat /\ g \in 1 .. n /\ Len(t.run[c]) = n
      /\ \A h \in 1 .. n : h # g => t.run[c][h] = s.run[c][h]
  BY StateFields DEF Sound, PartSound, Advances, Loose
<1>1. CASE q.teardown = "none" => r.teardown = "none"
  <2>1. Spares(s.run[c], t.run[c])
    BY <1>0, <1>1 DEF Spares
  <2>2. Untouched(s, t)
    BY <1>0, <2>1, OnePartUntouched
  <2> QED BY <2>2, UntouchedSpares
<1>2. CASE SettledSetup(q, r)
  <2>1. GenerationOK(q) /\ q.start = "awaiting"
    BY <1>0, <1>2 DEF PartOK, GenerationOK, SettledSetup
  <2>2. g = n
    BY <1>0, <2>1 DEF PartOK, Finished
  <2>3. s.contribution[c].status \notin IdleStatus
    BY <1>0, <2>1, <2>2 DEF PartOK, Finished
  <2>4. \A d, m, status : ~Serves(s.contribution[c], s.run[c], d, m, status)
    BY <2>1, <2>2 DEF Serves
  <2>5. Alone(s, c)
    BY <2>3, <2>4, AloneUnlessServing
  <2>6. \A d \in Contribution : d # c => Spares(s.run[d], t.run[d])
    BY <1>0, SameContinues DEF OnlyPart
  <2> QED BY <2>5, <2>6 DEF Spared
<1>3. CASE OpenWindows = {} => Alone(s, c)
  <2>1. \A d \in Contribution : d # c => Spares(s.run[d], t.run[d])
    BY <1>0, SameContinues DEF OnlyPart
  <2> QED BY <1>3, <2>1 DEF Spared
<1> HIDE DEF q, r
<1>4. Moves(s, t, c, g)
  OBVIOUS
<1> QED
  BY <1>1, <1>2, <1>3, <1>4
  DEF Moves, q, r, BegunStop, BegunStart, EndedTeardown, SucceededStart, FailedStart, ReactedToStart,
      BlockedStop, ResolvedStop, ReactedToStop

LEMMA MovesReady ==
  ASSUME NEW s \in State, NEW c \in Contribution, NEW t, NEW g, Advances(s, t, c, g), Moves(s, t, c, g),
         ~Reacting(s.run[c][g], t.run[c][g]), Ready(s)
  PROVE  Ready(t)
<1> DEFINE old == s.contribution[c]
           own == t.contribution[c]
           q == s.run[c][g]
           r == t.run[c][g]
           n == Len(s.run[c])
<1>0. /\ OnlyPart(s, t, c) /\ t \in State /\ n \in Nat /\ g \in 1 .. n /\ Len(t.run[c]) = n
      /\ \A h \in 1 .. n : h # g => t.run[c][h] = s.run[c][h]
  BY StateFields DEF Advances, OnlyPart
<1>1. CASE r.start = "settled" \/ r.stop = "resolved"
  BY <1>0, <1>1 DEF Ready, Pending
<1>2. CASE /\ own.status \in {"waiting", "active"} => own.status = old.status
           /\ q.start = "settled" => r.start = "settled"
           /\ q.stop = "resolved" => r.stop = "resolved"
  <2>1. Owes(s.run[c], t.run[c])
    BY <1>0, <1>2 DEF Owes
  <2>2. Calm(s, t)
    BY <1>0, <1>2, <2>1, OnePartCalm
  <2> QED BY <1>0, <2>2, CalmReady
<1> HIDE DEF q, r, own, old
<1>3. Moves(s, t, c, g) /\ ~Reacting(q, r)
  BY DEF q, r
<1>4. CASE own = old
  BY <1>1, <1>2, <1>3, <1>4
  DEF Moves, Reacting, q, r, own, old, BegunStop, BegunStart, SettledSetup, EndedTeardown, StoppedDependents,
      SucceededStart, FailedStart, ReactedToStart, BlockedStop, ResolvedStop, ReactedToStop
<1>5. CASE own # old
  BY <1>1, <1>2, <1>3, <1>5
  DEF Moves, Reacting, q, r, own, old, SucceededStart, FailedStart, ReactedToStart, BlockedStop, ResolvedStop, ReactedToStop
<1> QED BY <1>4, <1>5

LEMMA MovesSound ==
  ASSUME NEW s \in Sound, NEW c \in Contribution, NEW t, NEW g, Advances(s, t, c, g), Moves(s, t, c, g)
  PROVE  /\ t \in Sound /\ Keeps(s, t)
         /\ OpenWindows = {} =>
              /\ Spared(s, t)
              /\ ~Reacting(s.run[c][g], t.run[c][g]) /\ Ready(s) => Ready(t)
<1> DEFINE old == s.contribution[c]
           own == t.contribution[c]
           q == s.run[c][g]
           r == t.run[c][g]
           i == s.installation[Owner(c)]
<1>0. /\ s \in State /\ PartSound(c, old, s.run[c]) /\ PartTo(s, c, old, s.run[c])
      /\ g \in 1 .. Len(s.run[c]) /\ Len(t.run[c]) = Len(s.run[c])
  BY SamePart DEF Sound, Advances
<1>1. PartSound(c, own, t.run[c])
  BY <1>0, MovesFencing, MovesPart DEF PartSound
<1>2. "report" \notin OpenWindows => (q.stop \in Underway => old.status = "stopping")
  BY <1>0 DEF PartSound, Fencing
<1>3. ASSUME "report" \notin OpenWindows
      PROVE  \/ own.status = old.status /\ own.failed = old.failed
             \/ old.status = "starting" /\ own.status \in {"active", "cleanup-blocked"}
             \/ old.status = "starting" /\ own.status = "failed" /\ own.failed
             \/ old.status = "stopping" /\ own.status = "cleanup-blocked"
             \/ old.status = "stopping" /\ own.status = SettledStatus(s, c) /\ own.failed = old.failed
  BY <1>2, <1>3 DEF Moves, SucceededStart, FailedStart, ReactedToStart, BlockedStop, ResolvedStop, ReactedToStop, Underway
<1>4. own.generation = old.generation
  BY DEF Moves, SucceededStart, FailedStart, ReactedToStart, BlockedStop, ResolvedStop, ReactedToStop, SameBut
<1>5. ASSUME OpenWindows = {} PROVE Fits(s, c, own, t.run[c])
  <2>1. Fits(s, c, old, s.run[c])
    BY <1>0, <1>5 DEF PartTo
  <2>2. /\ SettledStatus(s, c) \in IdleStatus /\ (i.disposing \/ i.disposed => SettledStatus(s, c) = "disposed")
        /\ SettledStatus(s, c) = Settling(i, old.failed)
    BY <1>0, SettledStatuses DEF IdleStatus, SettledStatus, Settling
  <2>3. i.enabled => ~i.disposing /\ ~i.disposed
    <3>1. DisposalOK(s, Owner(c)) /\ i \in InstallationRecord
      BY <1>0, <1>5, Owners, StateFields DEF Sound
    <3> QED BY <3>1 DEF DisposalOK
  <2>4. Orderly(i, old)
    BY <2>1 DEF Fits
  <2>6. "report" \notin OpenWindows
    BY <1>5
  <2> HIDE DEF old, own, i
  <2>5. Orderly(i, own)
    BY <1>3, <2>6, <2>2, <2>3, <2>4 DEF Orderly, Settling, IdleStatus
  <2> QED BY <1>0, <1>3, <2>6, <2>1, <2>2, <2>5 DEF Fits, IdleStatus, i
<1>6. PartTo(s, c, own, t.run[c])
  BY <1>1, <1>3, <1>4, <1>5, SettledStatuses DEF PartTo, StaysBlocked
<1>7. t \in Sound /\ Keeps(s, t)
  BY <1>6, OnePart, MovesServed DEF Advances
<1> QED BY <1>0, <1>7, MovesSpared, MovesReady

(* A step that is followed by nothing else in its segment.                 *)
LEMMA MovesProceeds ==
  ASSUME NEW s \in Sound, NEW c \in Contribution, NEW t, NEW g, Advances(s, t, c, g), Moves(s, t, c, g),
         ~Reacting(s.run[c][g], t.run[c][g])
  PROVE  t \in Sound /\ Proceeds(s, t)
BY MovesSound DEF Proceeds

LEMMA ChangedAdvances ==
  ASSUME NEW s \in State, NEW c \in Contribution, NEW g \in 1 .. Len(s.run[c]),
         NEW own \in ContributionRecord, NEW r \in GenerationRecord, NEW rs,
         rs = [s.run[c] EXCEPT ![g] = r],
         own.generation = s.contribution[c].generation, own.activation \in 0 .. Len(s.run[c])
  PROVE  /\ Advances(s, Changed(s, c, own, rs), c, g)
         /\ Changed(s, c, own, rs) \in State
         /\ Changed(s, c, own, rs).contribution[c] = own
         /\ Changed(s, c, own, rs).run[c][g] = r
<1>1. /\ rs \in Seq(GenerationRecord) /\ Len(rs) = Len(s.run[c]) /\ rs[g] = r
      /\ \A h \in 1 .. Len(s.run[c]) : h # g => rs[h] = s.run[c][h]
  BY StateFields, ExceptSeq
<1>2. own.generation = Len(rs) /\ own.activation \in 0 .. Len(rs)
  BY <1>1, StateFields
<1>3. /\ OnlyPart(s, Changed(s, c, own, rs), c)
      /\ Changed(s, c, own, rs).contribution[c] = own
      /\ Changed(s, c, own, rs).run[c] = rs
  BY <1>1, <1>2, ChangedIs
<1> QED BY <1>1, <1>3 DEF Advances, OnlyPart

LEMMA RunAdvances ==
  ASSUME Here \in State, NEW c \in Contribution, NEW g \in DOMAIN run[c], NEW r \in GenerationRecord,
         run' = [run EXCEPT ![c][g] = r], UNCHANGED <<installation, installed, contribution>>
  PROVE  /\ Advances(Here, Here', c, g)
         /\ contribution'[c] = contribution[c]
         /\ run'[c][g] = r
<1>1. /\ run \in [Contribution -> Seq(GenerationRecord)] /\ run[c] \in Seq(GenerationRecord)
      /\ DOMAIN run[c] = 1 .. Len(run[c])
  BY StateFields DEF Here
<1> DEFINE rs == [run[c] EXCEPT ![g] = r]
<1>2. run' = [run EXCEPT ![c] = rs]
  OBVIOUS
<1>3. /\ rs \in Seq(GenerationRecord) /\ Len(rs) = Len(run[c]) /\ rs[g] = r
      /\ \A h \in 1 .. Len(run[c]) : h # g => rs[h] = run[c][h]
  BY <1>1, ExceptSeq
<1> HIDE DEF rs
<1>4. run' \in [Contribution -> Seq(GenerationRecord)] /\ run'[c] = rs /\ \A d \in Contribution : d # c => run'[d] = run[d]
  BY <1>1, <1>2, <1>3
<1>5. /\ installation \in [Installation -> InstallationRecord] /\ installed \in Seq(Installation)
      /\ contribution \in [Contribution -> ContributionRecord]
      /\ \A d \in Contribution : contribution[d].generation = Len(run[d]) /\ contribution[d].activation \in 0 .. Len(run[d])
  BY StateFields DEF Here
<1>6. \A d \in Contribution : contribution[d].generation = Len(run'[d]) /\ contribution[d].activation \in 0 .. Len(run'[d])
  BY <1>3, <1>4, <1>5
<1>7. Here' = [installation |-> installation, installed |-> installed, contribution |-> contribution, run |-> run']
  BY DEF Here
<1>8. Here' \in State
  BY <1>4, <1>5, <1>6, <1>7, Assembled
<1> QED BY <1>1, <1>3, <1>4, <1>7, <1>8 DEF Advances, OnlyPart, Here

LEMMA BecomeIs ==
  ASSUME NEW s \in State, Become(s)
  PROVE  Here' = s
BY StateFields DEF Become, Here

LEMMA HereFields ==
  ASSUME Here \in State, NEW c \in Contribution, NEW g \in DOMAIN run[c]
  PROVE  /\ Here.contribution[c] = contribution[c] /\ Here.run[c] = run[c]
         /\ g \in 1 .. Len(run[c]) /\ run[c][g] \in GenerationRecord
         /\ contribution[c] \in ContributionRecord
BY StateFields DEF Here

LEMMA Unreacting ==
  ASSUME NEW q, NEW r, NEW g, NEW old, NEW own, NEW settled,
         \/ BegunStart(q, r, g) \/ SettledSetup(q, r) \/ EndedTeardown(q, r) \/ BegunStop(q, r)
         \/ StoppedDependents(q, r, g) \/ SucceededStart(old, own, q, r) \/ BlockedStop(old, own, q, r)
         \/ ResolvedStop(old, own, q, r, settled)
  PROVE  ~Reacting(q, r)
BY DEF Reacting, BegunStart, SettledSetup, EndedTeardown, BegunStop, StoppedDependents, SucceededStart,
       BlockedStop, ResolvedStop

LEMMA SetupSettlesSound ==
  ASSUME Here \in Sound, NEW c \in Contribution, NEW g \in DOMAIN run[c], SetupSettles(c, g)
  PROVE  Here' \in Sound /\ Proceeds(Here, Here')
<1> DEFINE q == run[c][g]
           ready == [q EXCEPT !.setup = "resolved"]
           refused == [q EXCEPT !.setup = "rejected", !.aborted = TRUE, !.teardown = TornDown(q.teardown)]
<1>0. Here \in State /\ q \in GenerationRecord /\ Here.contribution[c] = contribution[c] /\ Here.run[c] = run[c]
  BY HereFields DEF Sound
<1>1. PICK r \in {ready, refused} : run' = [run EXCEPT ![c][g] = r]
  <2>1. [run EXCEPT ![c][g].setup = "resolved"] = [run EXCEPT ![c][g] = ready]
    OBVIOUS
  <2>2. run' = [run EXCEPT ![c][g].setup = "resolved"] \/ run' = [run EXCEPT ![c][g] = refused]
    BY Zenon DEF SetupSettles
  <2> HIDE DEF ready, refused
  <2> QED BY <2>1, <2>2
<1>2. ready \in GenerationRecord /\ refused \in GenerationRecord
  <2>1. ready \in GenerationRecord /\ [q EXCEPT !.setup = "rejected"] \in GenerationRecord
    BY <1>0 DEF GenerationRecord
  <2> DEFINE r1 == [q EXCEPT !.setup = "rejected"]
             r2 == [r1 EXCEPT !.aborted = TRUE]
  <2>2. refused = [r2 EXCEPT !.teardown = TornDown(q.teardown)]
    OBVIOUS
  <2>3. TornDown(q.teardown) \in {"none", "pending", "resolved", "rejected"}
    BY <1>0 DEF GenerationRecord, TornDown
  <2> HIDE DEF r1
  <2>4. r1 \in GenerationRecord => r2 \in GenerationRecord
    BY DEF GenerationRecord
  <2> HIDE DEF r2
  <2>5. r2 \in GenerationRecord => [r2 EXCEPT !.teardown = TornDown(q.teardown)] \in GenerationRecord
    BY <2>3 DEF GenerationRecord
  <2> QED BY <2>1, <2>2, <2>4, <2>5 DEF r1
<1>3. SettledSetup(q, r) /\ r \in GenerationRecord
  <2>1. q.setup = "running"
    BY DEF SetupSettles
  <2>2. SettledSetup(q, ready) /\ SettledSetup(q, refused)
    BY <1>0, <2>1 DEF SettledSetup, GenerationRecord
  <2> HIDE DEF ready, refused
  <2> QED BY <1>2, <2>2
<1> HIDE DEF ready, refused
<1>4. UNCHANGED <<installation, installed, contribution>>
  BY DEF SetupSettles
<1>5. Advances(Here, Here', c, g) /\ contribution'[c] = contribution[c] /\ run'[c][g] = r
  BY <1>0, <1>1, <1>3, <1>4, RunAdvances
<1>6. Moves(Here, Here', c, g) /\ ~Reacting(Here.run[c][g], Here'.run[c][g])
  BY <1>3, <1>5, Unreacting DEF Moves, Here
<1> QED BY <1>5, <1>6, MovesProceeds

LEMMA TeardownSound ==
  ASSUME Here \in Sound, NEW c \in Contribution, NEW g \in DOMAIN run[c], Teardown(c, g)
  PROVE  Here' \in Sound /\ Proceeds(Here, Here')
<1> DEFINE q == run[c][g]
<1>0. Here \in State /\ q \in GenerationRecord
  BY HereFields DEF Sound
<1>1. PICK result \in {"resolved", "rejected"} : run' = [run EXCEPT ![c][g].teardown = result]
  BY DEF Teardown
<1> DEFINE r == [q EXCEPT !.teardown = result]
<1>2. run' = [run EXCEPT ![c][g] = r]
  BY <1>1
<1>3. r \in GenerationRecord /\ EndedTeardown(q, r)
  BY <1>0 DEF GenerationRecord, EndedTeardown, Teardown
<1> HIDE DEF r
<1>4. UNCHANGED <<installation, installed, contribution>>
  BY DEF Teardown
<1>5. Advances(Here, Here', c, g) /\ contribution'[c] = contribution[c] /\ run'[c][g] = r
  BY <1>0, <1>2, <1>3, <1>4, RunAdvances
<1>6. Moves(Here, Here', c, g) /\ ~Reacting(Here.run[c][g], Here'.run[c][g])
  BY <1>3, <1>5, Unreacting DEF Moves, Here
<1> QED BY <1>5, <1>6, MovesProceeds

(* The tail of completeStart, from any state. *)
LEMMA ClearStartIs ==
  ASSUME NEW s \in State, NEW c \in Contribution, NEW g \in 1 .. Len(s.run[c]), s.run[c][g].start = "settled"
  PROVE  LET t == ClearStart(s, c, g) IN
         /\ Advances(s, t, c, g) /\ t \in State
         /\ ReactedToStart(s.contribution[c], t.contribution[c], s.run[c][g], t.run[c][g], c, g)
<1> DEFINE q == s.run[c][g]
           old == s.contribution[c]
           p == Transition("start", c, g)
           r == [q EXCEPT !.start = "done"]
           own == [old EXCEPT !.transition = IF @ = p THEN Nothing(c) ELSE @]
           rs == [s.run[c] EXCEPT ![g].start = "done"]
           t == Changed(s, c, own, rs)
<1>0. q \in GenerationRecord /\ old \in ContributionRecord
  BY StateFields
<1>1. t = ClearStart(s, c, g)
  BY Zenon DEF ClearStart
<1>2. rs = [s.run[c] EXCEPT ![g] = r]
  OBVIOUS
<1>3. Nothing(c) \in Promise
  BY DEF Nothing, Transition, Promise
<1>4. /\ own \in ContributionRecord /\ own.generation = old.generation /\ own.activation = old.activation
      /\ own.status = old.status /\ own.failed = old.failed /\ Cleared(old, own, p, c)
  BY <1>0, <1>3 DEF ContributionRecord, Cleared
<1>5. r \in GenerationRecord
  BY <1>0 DEF GenerationRecord
<1>6. ReactedToStart(old, own, q, r, c, g)
  <2>1. r.start = "done" /\ r.awaited = q.awaited
    BY <1>0 DEF GenerationRecord
  <2> QED BY <1>0, <1>4, <2>1 DEF ReactedToStart, SameBut, GenerationRecord
<1> HIDE DEF own, r, rs
<1>7. own.activation \in 0 .. Len(s.run[c])
  BY <1>0, <1>4, StateFields
<1>8. Advances(s, t, c, g) /\ t \in State /\ t.contribution[c] = own /\ t.run[c][g] = r
  BY <1>0, <1>2, <1>4, <1>5, <1>7, ChangedAdvances
<1> QED BY <1>1, <1>6, <1>8, Zenon

LEMMA ClearStartSound ==
  ASSUME NEW s \in Sound, NEW c \in Contribution, NEW g \in 1 .. Len(s.run[c]), s.run[c][g].start = "settled"
  PROVE  /\ ClearStart(s, c, g) \in Sound /\ Keeps(s, ClearStart(s, c, g))
         /\ OpenWindows = {} => Spared(s, ClearStart(s, c, g))
<1> DEFINE t == ClearStart(s, c, g)
<1>1. /\ Advances(s, t, c, g)
      /\ ReactedToStart(s.contribution[c], t.contribution[c], s.run[c][g], t.run[c][g], c, g)
  BY ClearStartIs DEF Sound
<1> HIDE DEF t
<1>2. Moves(s, t, c, g)
  BY <1>1 DEF Moves
<1> QED BY <1>1, <1>2, MovesSound DEF t

(* A step of one contribution that the fences bind only where they hold: a *)
(* completeStart that may have another generation's activation in hand.    *)
LEMMA LooseSound ==
  ASSUME NEW s \in Sound, NEW c \in Contribution, NEW t, OnlyPart(s, t, c), Loose,
         "report" \notin OpenWindows =>
           /\ Fencing(t.contribution[c], t.run[c])
           /\ StaysBlocked(s.contribution[c], t.contribution[c])
  PROVE  t \in Sound /\ Proceeds(s, t)
<1>1. OpenWindows # {}
  BY DEF Loose
<1>2. PartTo(s, c, t.contribution[c], t.run[c])
  BY <1>1 DEF PartTo, PartSound
<1>3. t \in Sound /\ Keeps(s, t)
  BY <1>1, <1>2, OnePart
<1> QED BY <1>1, <1>3 DEF Proceeds

(* completeStart changes how far the generations' starts are, and ends the *)
(* status "starting".                                                      *)
Restarts(before, rs) ==
  /\ rs \in Seq(GenerationRecord) /\ Len(rs) = Len(before)
  /\ \A h \in 1 .. Len(before) :
       /\ rs[h].stop = before[h].stop /\ rs[h].stops = before[h].stops
       /\ rs[h].start = before[h].start \/ rs[h].start # "reporting"

EndsStarting(old, own) ==
  /\ own \in ContributionRecord
  /\ own.generation = old.generation /\ own.activation = old.activation
  /\ \/ own = old
     \/ /\ old.status = "starting" /\ own.status \in {"active", "failed", "cleanup-blocked"}
        /\ own.failed = old.failed \/ own.status # "active"

LEMMA StartingSound ==
  ASSUME Here \in Sound, NEW c \in Contribution, NEW own, NEW rs, Loose,
         Restarts(run[c], rs), EndsStarting(contribution[c], own)
  PROVE  LET t == Changed(Here, c, own, rs) IN
         /\ t \in Sound /\ Proceeds(Here, t)
         /\ t.run[c] = rs
<1> DEFINE old == contribution[c]
           t == Changed(Here, c, own, rs)
<1>0. /\ Here \in State /\ old \in ContributionRecord /\ Len(run[c]) \in Nat
      /\ Here.contribution[c] = old /\ Here.run[c] = run[c]
      /\ old.generation = Len(run[c]) /\ old.activation \in 0 .. Len(run[c])
      /\ PartSound(c, old, run[c])
  <2>1. Here \in State /\ Here.contribution = contribution /\ Here.run = run
    BY DEF Sound, Here
  <2> QED BY <2>1, StateFields DEF Sound
<1>1. /\ own \in ContributionRecord /\ own.generation = Len(rs) /\ own.activation \in 0 .. Len(rs)
      /\ rs \in Seq(GenerationRecord) /\ Len(rs) = Len(run[c])
  BY <1>0 DEF Restarts, EndsStarting
<1>2. OnlyPart(Here, t, c) /\ t.contribution[c] = own /\ t.run[c] = rs
  BY <1>0, <1>1, ChangedIs
<1>3. ASSUME "report" \notin OpenWindows PROVE Fencing(own, rs) /\ StaysBlocked(old, own)
  <2>1. Fencing(old, run[c])
    BY <1>0, <1>3 DEF PartSound
  <2>2. \A h \in 1 .. Len(run[c]) :
          /\ run[c][h].stop \in Underway => old.status = "stopping" /\ old.activation = h
          /\ run[c][h].stop = "activation" => run[c][h].stops = h
          /\ run[c][h].start # "reporting"
    BY <2>1 DEF Fencing
  <2>3. own.failed => own.status \in {"failed", "disabled", "disposed", "cleanup-blocked"}
    BY <2>1 DEF Fencing, EndsStarting
  <2>4. own = old \/ old.status = "starting"
    BY DEF EndsStarting
  <2>5. own.activation = old.activation
    BY DEF EndsStarting
  <2>6. ASSUME NEW h \in 1 .. Len(rs)
        PROVE  /\ rs[h].stop \in Underway => own.status = "stopping" /\ own.activation = h
               /\ rs[h].stop = "activation" => rs[h].stops = h
               /\ rs[h].start # "reporting"
    <3>1. /\ h \in 1 .. Len(run[c]) /\ rs[h].stop = run[c][h].stop /\ rs[h].stops = run[c][h].stops
          /\ rs[h].start = run[c][h].start \/ rs[h].start # "reporting"
      BY <1>1 DEF Restarts
    <3> HIDE DEF old
    <3> QED BY <2>2, <2>4, <2>5, <3>1
  <2> HIDE DEF old
  <2> QED BY <2>3, <2>4, <2>6 DEF Fencing, StaysBlocked
<1> HIDE DEF t, old
<1>4. t \in Sound /\ Proceeds(Here, t)
  BY <1>0, <1>2, <1>3, LooseSound
<1> QED BY <1>2, <1>4 DEF t

(* Generation g's completeStart at a point. *)
Restarted(q, r, a, point) ==
  /\ r \in GenerationRecord
  /\ r.start = point /\ r.starts = a
  /\ r.setup = q.setup /\ (r.aborted <=> q.aborted) /\ r.teardown = q.teardown
  /\ r.stop = q.stop /\ r.stops = q.stops

LEMMA StartAtIs ==
  ASSUME Here \in State, NEW c \in Contribution, NEW g \in DOMAIN run[c], NEW a \in Nat,
         NEW point \in {"awaiting", "reporting", "settled"}
  PROVE  LET rs == StartAt(c, g, a, point) IN
         /\ rs = [run[c] EXCEPT ![g] = rs[g]]
         /\ Restarted(run[c][g], rs[g], a, point)
         /\ rs \in Seq(GenerationRecord) /\ Len(rs) = Len(run[c])
         /\ \A h \in 1 .. Len(run[c]) : h # g => rs[h] = run[c][h]
<1> DEFINE q == run[c][g]
           r1 == [q EXCEPT !.start = point]
           r == [r1 EXCEPT !.starts = a]
           rs == [run[c] EXCEPT ![g] = r]
<1>0. /\ run[c] \in Seq(GenerationRecord) /\ g \in 1 .. Len(run[c]) /\ q \in GenerationRecord
  <2>1. Here.run = run
    BY DEF Here
  <2> QED BY <2>1, HereFields, StateFields
<1>1. StartAt(c, g, a, point) = rs
  BY DEF StartAt
<1>2. /\ r1 \in GenerationRecord /\ r1.start = point
      /\ r1.setup = q.setup /\ (r1.aborted <=> q.aborted) /\ r1.teardown = q.teardown
      /\ r1.stop = q.stop /\ r1.stops = q.stops
  BY <1>0 DEF GenerationRecord
<1> HIDE DEF r1
<1>3. Restarted(q, r, a, point)
  BY <1>2 DEF GenerationRecord, Restarted
<1> HIDE DEF r
<1>4. /\ rs \in Seq(GenerationRecord) /\ Len(rs) = Len(run[c]) /\ rs[g] = r
      /\ \A h \in 1 .. Len(run[c]) : h # g => rs[h] = run[c][h]
  BY <1>0, <1>3, ExceptSeq DEF Restarted
<1> QED BY <1>1, <1>3, <1>4

LEMMA StartAtRestarts ==
  ASSUME Here \in State, NEW c \in Contribution, NEW g \in DOMAIN run[c], NEW a \in Nat,
         NEW point \in {"awaiting", "settled"}
  PROVE  Restarts(run[c], StartAt(c, g, a, point)) /\ StartAt(c, g, a, point)[g].start = point
<1> DEFINE rs == StartAt(c, g, a, point)
<1>1. /\ Restarted(run[c][g], rs[g], a, point)
      /\ rs \in Seq(GenerationRecord) /\ Len(rs) = Len(run[c])
      /\ \A h \in 1 .. Len(run[c]) : h # g => rs[h] = run[c][h]
  BY StartAtIs
<1> HIDE DEF rs
<1>2. \A h \in 1 .. Len(run[c]) :
        /\ rs[h].stop = run[c][h].stop /\ rs[h].stops = run[c][h].stops
        /\ rs[h].start = run[c][h].start \/ rs[h].start # "reporting"
  BY <1>1 DEF Restarted
<1> QED BY <1>1, <1>2 DEF Restarts, Restarted, rs

(* A completeStart ends, with the refresh of its reaction or without. *)
LEMMA EndStartSound ==
  ASSUME Here \in Sound, NEW c \in Contribution, NEW g \in DOMAIN run[c], NEW a \in Nat, NEW own, Loose,
         EndsStarting(contribution[c], own), EndStart(c, g, a, own)
  PROVE  Here' \in Sound /\ Proceeds(Here, Here')
<1> DEFINE rs == StartAt(c, g, a, "settled")
           t == Changed(Here, c, own, rs)
           u == ClearStart(t, c, g)
<1>0. Here \in State /\ g \in 1 .. Len(run[c])
  BY HereFields DEF Sound
<1>1. Restarts(run[c], rs) /\ rs[g].start = "settled"
  BY <1>0, StartAtRestarts
<1>2. Become(t) \/ Become(Refresh(u))
  BY Zenon DEF EndStart, RefreshFrom
<1> HIDE DEF rs
<1>3. t \in Sound /\ Proceeds(Here, t) /\ t.run[c] = rs
  BY <1>1, StartingSound
<1> HIDE DEF t
<1>4. CASE Become(t)
  BY <1>3, <1>4, BecomeIs DEF Sound
<1>5. CASE Become(Refresh(u))
  <2>1. g \in 1 .. Len(t.run[c]) /\ t.run[c][g].start = "settled"
    BY <1>0, <1>1, <1>3 DEF Restarts
  <2>2. u \in Sound /\ Keeps(t, u)
    BY <1>3, <2>1, ClearStartSound
  <2> HIDE DEF u
  <2>3. Keeps(Here, u)
    BY <1>3, <2>2, KeepsOn DEF Proceeds
  <2>4. Refresh(u) \in Sound /\ Proceeds(Here, Refresh(u))
    BY <2>2, <2>3, ThenRefresh DEF Loose
  <2>5. Here' = Refresh(u)
    BY <1>5, <2>4, BecomeIs DEF Sound
  <2> QED BY <2>4, <2>5
<1> QED BY <1>2, <1>4, <1>5

LEMMA FailedOwn ==
  ASSUME NEW old \in ContributionRecord, NEW status \in {"failed", "cleanup-blocked"}
  PROVE  LET own == [old EXCEPT !.failed = TRUE, !.status = status] IN
         /\ own \in ContributionRecord /\ SameBut(own, old) /\ own.transition = old.transition
         /\ own.failed /\ own.status = status
<1> DEFINE own1 == [old EXCEPT !.failed = TRUE]
           own2 == [own1 EXCEPT !.status = status]
<1>1. [old EXCEPT !.failed = TRUE, !.status = status] = own2
  OBVIOUS
<1>2. own1 \in ContributionRecord /\ SameBut(own1, old) /\ own1.transition = old.transition /\ own1.failed
  BY DEF ContributionRecord, SameBut
<1> HIDE DEF own1
<1>3. /\ own2 \in ContributionRecord /\ SameBut(own2, old) /\ own2.transition = old.transition
      /\ own2.failed /\ own2.status = status
  BY <1>2 DEF ContributionRecord, SameBut
<1> QED BY <1>1, <1>3

LEMMA CatchSound ==
  ASSUME Here \in Sound, NEW c \in Contribution, NEW g \in DOMAIN run[c], NEW a \in Nat, Loose,
         Catch(c, g, a)
  PROVE  Here' \in Sound /\ Proceeds(Here, Here')
<1> DEFINE old == contribution[c]
           own == [old EXCEPT !.failed = TRUE, !.status = FailedStatus(c, a)]
           told == [old EXCEPT !.failed = TRUE]
           rs == StartAt(c, g, a, "reporting")
           t == Changed(Here, c, told, rs)
<1>0. Here \in State /\ old \in ContributionRecord
  BY HereFields DEF Sound
<1>1. \/ EndStart(c, g, a, old)
      \/ old.status = "starting" /\ EndStart(c, g, a, own)
      \/ "report" \in OpenWindows /\ Become(t)
  BY Zenon DEF Catch
<1>2. CASE EndStart(c, g, a, old)
  <2>1. EndsStarting(old, old)
    BY <1>0 DEF EndsStarting
  <2> QED BY <1>2, <2>1, EndStartSound
<1>3. CASE old.status = "starting" /\ EndStart(c, g, a, own)
  <2>1. FailedStatus(c, a) \in {"failed", "cleanup-blocked"}
    BY DEF FailedStatus
  <2>2. own \in ContributionRecord /\ SameBut(own, old) /\ own.status = FailedStatus(c, a)
    BY <1>0, <2>1, FailedOwn
  <2> HIDE DEF own
  <2>3. EndsStarting(old, own)
    BY <1>3, <2>1, <2>2 DEF EndsStarting, SameBut
  <2> QED BY <1>3, <2>3, EndStartSound
<1>4. CASE "report" \in OpenWindows /\ Become(t)
  <2>1. told \in ContributionRecord /\ told.generation = old.generation /\ told.activation = old.activation
    BY <1>0 DEF ContributionRecord
  <2>2. rs \in Seq(GenerationRecord) /\ Len(rs) = Len(run[c])
    BY <1>0, StartAtIs
  <2>3. old.generation = Len(run[c]) /\ old.activation \in 0 .. Len(run[c])
    <3>1. Here.contribution = contribution /\ Here.run = run
      BY DEF Here
    <3> QED BY <1>0, <3>1, StateFields
  <2> HIDE DEF told, rs, old
  <2>4. OnlyPart(Here, t, c)
    BY <1>0, <2>1, <2>2, <2>3, ChangedIs
  <2> HIDE DEF t
  <2>5. t \in Sound /\ Proceeds(Here, t)
    BY <1>4, <2>4, LooseSound
  <2> QED BY <1>4, <2>5, BecomeIs DEF Sound
<1> QED BY <1>1, <1>2, <1>3, <1>4

(* With the races closed a completeStart that is still to begin or awaits  *)
(* is the last generation's, and has that one's activation in hand.        *)
LEMMA StartInHand ==
  ASSUME Here \in Sound, ~Loose, NEW c \in Contribution, NEW g \in DOMAIN run[c]
  PROVE  /\ run[c][g].start = "awaiting" => run[c][g].starts = g
         /\ run[c][g].start = "queued" =>
              /\ contribution[c].activation = g
              /\ run[c][g].setup = "none" /\ run[c][g].teardown = "none"
              /\ run[c][g].aborted => contribution[c].status # "starting"
         /\ "report" \notin OpenWindows /\ "observation" \notin OpenWindows
<1> DEFINE own == contribution[c]
           rs == run[c]
           n == Len(run[c])
<1>1. PartOK(c, own, rs) /\ g \in 1 .. n /\ n \in Nat
  <2>1. Here \in State /\ Here.contribution = contribution /\ Here.run = run
    BY DEF Sound, Here
  <2> QED BY <2>1, HereFields, StateFields DEF Sound, PartSound
<1>2. GenerationOK(rs[g]) /\ (rs[g].start = "awaiting" => rs[g].starts = g)
  BY <1>1 DEF PartOK
<1>3. rs[g].start = "queued" => g = n
  BY <1>1 DEF PartOK, Finished
<1>4. rs[g].start = "queued" => own.status \notin IdleStatus
  BY <1>1, <1>3 DEF PartOK, Finished
<1>5. rs[g].start = "queued" => own.activation = g
  BY <1>1, <1>3, <1>4 DEF PartOK
<1>6. rs[g].start = "queued" => rs[g].setup = "none" /\ rs[g].teardown = "none"
  BY <1>2 DEF GenerationOK
<1>7. rs[g].start = "queued" /\ rs[g].aborted => rs[g].stop # "none"
  BY <1>2 DEF GenerationOK
<1>8. rs[g].start = "queued" /\ rs[g].aborted => own.status # "starting"
  BY <1>1, <1>3, <1>7 DEF PartOK
<1> QED BY <1>2, <1>5, <1>6, <1>8 DEF Loose

LEMMA BeginStartSound ==
  ASSUME Here \in Sound, NEW c \in Contribution, NEW g \in DOMAIN run[c], BeginStart(c, g)
  PROVE  Here' \in Sound /\ Proceeds(Here, Here')
<1> DEFINE q == run[c][g]
           old == contribution[c]
           a == old.activation
           begun == [StartAt(c, g, a, "awaiting") EXCEPT ![a].setup = "running"]
<1>0. /\ Here \in State /\ Here.contribution[c] = old /\ Here.run[c] = run[c] /\ g \in 1 .. Len(run[c])
      /\ old \in ContributionRecord /\ a \in 0 .. Len(run[c]) /\ a \in Nat /\ old.generation = Len(run[c])
      /\ Len(run[c]) \in Nat /\ q \in GenerationRecord
  <2>1. Here \in State /\ Here.contribution = contribution /\ Here.run = run
    BY DEF Sound, Here
  <2> QED BY <2>1, HereFields, StateFields
<1>1. /\ q.start = "queued"
      /\ \/ a = 0 /\ Become(Changed(Here, c, old, StartAt(c, g, 0, "settled")))
         \/ a # 0 /\ (run[c][a].aborted \/ run[c][a].setup # "none") /\ Catch(c, g, a)
         \/ a # 0 /\ ~run[c][a].aborted /\ Become(Changed(Here, c, old, begun))
  BY Zenon DEF BeginStart
<1>2. EndsStarting(old, old)
  BY <1>0 DEF EndsStarting
<1>3. CASE Loose
  <2>1. ASSUME a = 0, Become(Changed(Here, c, old, StartAt(c, g, 0, "settled")))
        PROVE  Here' \in Sound /\ Proceeds(Here, Here')
    <3> DEFINE rs == StartAt(c, g, 0, "settled")
               t == Changed(Here, c, old, rs)
    <3>1. Restarts(run[c], rs)
      BY <1>0, StartAtRestarts
    <3> HIDE DEF rs
    <3>2. t \in Sound /\ Proceeds(Here, t)
      BY <1>2, <1>3, <3>1, StartingSound
    <3> QED BY <2>1, <3>2, BecomeIs DEF Sound, rs
  <2>2. ASSUME a # 0, Become(Changed(Here, c, old, begun))
        PROVE  Here' \in Sound /\ Proceeds(Here, Here')
    <3> DEFINE rs == StartAt(c, g, a, "awaiting")
               r == [rs[a] EXCEPT !.setup = "running"]
               rs2 == [rs EXCEPT ![a] = r]
               t == Changed(Here, c, old, rs2)
    <3>1. Restarts(run[c], rs)
      BY <1>0, StartAtRestarts
    <3>2. begun = rs2
      OBVIOUS
    <3> HIDE DEF rs
    <3>3. rs \in Seq(GenerationRecord) /\ Len(rs) = Len(run[c]) /\ a \in 1 .. Len(rs)
      BY <1>0, <2>2, <3>1 DEF Restarts
    <3>4. rs[a] \in GenerationRecord
      BY <3>3, ElementOfSeq
    <3>5. r \in GenerationRecord /\ r.stop = rs[a].stop /\ r.stops = rs[a].stops /\ r.start = rs[a].start
      BY <3>4 DEF GenerationRecord
    <3> HIDE DEF r
    <3>6. /\ rs2 \in Seq(GenerationRecord) /\ Len(rs2) = Len(rs) /\ rs2[a] = r
          /\ \A h \in 1 .. Len(rs) : h # a => rs2[h] = rs[h]
      BY <3>3, <3>5, ExceptSeq
    <3> HIDE DEF rs2
    <3>7. ASSUME NEW h \in 1 .. Len(run[c])
          PROVE  /\ rs2[h].stop = run[c][h].stop /\ rs2[h].stops = run[c][h].stops
                 /\ rs2[h].start = run[c][h].start \/ rs2[h].start # "reporting"
      <4>1. rs2[h].stop = rs[h].stop /\ rs2[h].stops = rs[h].stops /\ rs2[h].start = rs[h].start
        BY <3>3, <3>5, <3>6
      <4> QED BY <3>1, <4>1 DEF Restarts
    <3>8. Restarts(run[c], rs2)
      BY <3>3, <3>6, <3>7 DEF Restarts
    <3>9. t \in Sound /\ Proceeds(Here, t)
      BY <1>2, <1>3, <3>8, StartingSound
    <3> QED BY <2>2, <3>2, <3>9, BecomeIs DEF Sound
  <2> HIDE DEF begun, a, old
  <2> QED BY <1>0, <1>1, <1>3, <2>1, <2>2, CatchSound
<1>4. CASE ~Loose
  <2>1. /\ a = g /\ q.setup = "none" /\ q.teardown = "none" /\ (q.aborted => old.status # "starting")
        /\ "report" \notin OpenWindows /\ g # 0
    BY <1>0, <1>1, <1>4, StartInHand
  <2>2. ASSUME NEW rs, NEW r \in GenerationRecord, rs = [run[c] EXCEPT ![g] = r], BegunStart(q, r, g),
               Become(Changed(Here, c, old, rs))
        PROVE  Here' \in Sound /\ Proceeds(Here, Here')
    <3> DEFINE t == Changed(Here, c, old, rs)
    <3>1. Advances(Here, t, c, g) /\ t \in State /\ t.contribution[c] = old /\ t.run[c][g] = r
      BY <1>0, <2>2, ChangedAdvances
    <3> HIDE DEF t, q, old
    <3>2. Moves(Here, t, c, g) /\ ~Reacting(Here.run[c][g], t.run[c][g])
      BY <1>0, <2>2, <3>1, Unreacting DEF Moves, q
    <3> QED BY <2>2, <3>1, <3>2, BecomeIs, MovesProceeds DEF t
  <2>3. CASE q.aborted
    <3> DEFINE rs == StartAt(c, g, g, "settled")
    <3>1. EndStart(c, g, g, old)
      <4>1. Catch(c, g, g)
        BY <1>1, <2>1, <2>3
      <4> QED BY <2>1, <2>3, <4>1, Zenon DEF Catch
    <3>2. Become(Changed(Here, c, old, rs))
      BY <2>1, <3>1, Zenon DEF EndStart
    <3>3. rs = [run[c] EXCEPT ![g] = rs[g]] /\ Restarted(q, rs[g], g, "settled")
      BY <1>0, StartAtIs
    <3> HIDE DEF rs
    <3>4. BegunStart(q, rs[g], g)
      BY <1>1, <2>3, <3>3 DEF BegunStart, Restarted
    <3> QED BY <2>2, <3>2, <3>3, <3>4 DEF Restarted
  <2>4. CASE ~q.aborted
    <3> DEFINE rs == StartAt(c, g, g, "awaiting")
               r1 == rs[g]
               r == [r1 EXCEPT !.setup = "running"]
               rs2 == [rs EXCEPT ![g].setup = "running"]
    <3>1. Become(Changed(Here, c, old, rs2))
      BY <1>1, <2>1, <2>4, Zenon
    <3>2. rs = [run[c] EXCEPT ![g] = r1] /\ Restarted(q, r1, g, "awaiting")
      BY <1>0, StartAtIs
    <3>3. rs2 = [rs EXCEPT ![g] = r]
      OBVIOUS
    <3> HIDE DEF r1, rs
    <3>4. r \in GenerationRecord /\ BegunStart(q, r, g)
      BY <1>1, <2>1, <2>4, <3>2 DEF BegunStart, Restarted, GenerationRecord
    <3> HIDE DEF r
    <3>5. rs2 = [run[c] EXCEPT ![g] = r]
      BY <1>0, <3>2, <3>3
    <3> HIDE DEF rs2
    <3> QED BY <2>2, <3>1, <3>4, <3>5
  <2> QED BY <2>3, <2>4
<1> QED BY <1>3, <1>4

LEMMA StartSucceedsSound ==
  ASSUME Here \in Sound, NEW c \in Contribution, NEW g \in DOMAIN run[c], StartSucceeds(c, g)
  PROVE  Here' \in Sound /\ Proceeds(Here, Here')
<1> DEFINE q == run[c][g]
           old == contribution[c]
           r == [q EXCEPT !.start = "settled"]
           own == [old EXCEPT !.status = IF @ = "starting" THEN "active" ELSE @]
           rs == [run[c] EXCEPT ![g].start = "settled"]
           t == Changed(Here, c, own, rs)
<1>0. Here \in State /\ q \in GenerationRecord /\ old \in ContributionRecord
      /\ Here.contribution[c] = old /\ Here.run[c] = run[c] /\ g \in 1 .. Len(run[c])
      /\ run[c] \in Seq(GenerationRecord)
  <2>1. Here \in State /\ Here.run = run
    BY DEF Sound, Here
  <2> QED BY <2>1, HereFields, StateFields
<1>1. rs = [run[c] EXCEPT ![g] = r]
  OBVIOUS
<1>2. /\ own \in ContributionRecord /\ own.generation = old.generation /\ own.activation = old.activation
      /\ own.status = (IF old.status = "starting" THEN "active" ELSE old.status)
      /\ own.failed = old.failed /\ own.transition = old.transition
      /\ old.status # "starting" => own = old
  BY <1>0 DEF ContributionRecord
<1>3. /\ r \in GenerationRecord /\ r.start = "settled" /\ r.stops = q.stops
      /\ r.setup = q.setup /\ (r.aborted <=> q.aborted) /\ r.teardown = q.teardown /\ r.stop = q.stop
  BY <1>0 DEF GenerationRecord
<1>5. Become(t)
  BY Zenon DEF StartSucceeds
<1> HIDE DEF own, r, rs
<1>6. CASE Loose
  <2>1. /\ rs \in Seq(GenerationRecord) /\ Len(rs) = Len(run[c]) /\ rs[g] = r
        /\ \A h \in 1 .. Len(run[c]) : h # g => rs[h] = run[c][h]
    BY <1>0, <1>1, <1>3, ExceptSeq
  <2>2. Restarts(run[c], rs)
    BY <1>3, <2>1 DEF Restarts
  <2>3. EndsStarting(old, own)
    BY <1>2 DEF EndsStarting
  <2>4. t \in Sound /\ Proceeds(Here, t)
    BY <1>6, <2>2, <2>3, StartingSound
  <2> QED BY <1>5, <2>4, BecomeIs DEF Sound
<1>7. CASE ~Loose
  <2>1. q.start = "awaiting" /\ q.starts = g /\ q.setup = "resolved" /\ ~q.aborted
    BY <1>7, StartInHand DEF StartSucceeds
  <2>2. SucceededStart(old, own, q, r)
    BY <1>2, <1>3, <2>1 DEF SucceededStart, SameBut
  <2>3. own.activation \in 0 .. Len(run[c])
    BY <1>0, <1>2, StateFields
  <2>4. Advances(Here, t, c, g) /\ t \in State /\ t.contribution[c] = own /\ t.run[c][g] = r
    BY <1>0, <1>1, <1>2, <1>3, <2>3, ChangedAdvances
  <2> HIDE DEF t
  <2>5. Moves(Here, t, c, g) /\ ~Reacting(Here.run[c][g], t.run[c][g])
    BY <1>0, <2>2, <2>4, Unreacting DEF Moves
  <2> QED BY <1>5, <2>4, <2>5, BecomeIs, MovesProceeds
<1> QED BY <1>6, <1>7

LEMMA StartReactionSound ==
  ASSUME Here \in Sound, NEW c \in Contribution, NEW g \in DOMAIN run[c], StartReaction(c, g)
  PROVE  Here' \in Sound /\ Proceeds(Here, Here')
<1> DEFINE t == ClearStart(Here, c, g)
<1>0. Here \in State /\ g \in 1 .. Len(Here.run[c]) /\ Here.run[c][g].start = "settled"
  BY HereFields DEF Sound, StartReaction
<1>1. t \in Sound /\ Keeps(Here, t) /\ (OpenWindows = {} => Spared(Here, t))
  BY <1>0, ClearStartSound
<1>2. Become(Refresh(t))
  BY DEF StartReaction, RefreshFrom
<1> HIDE DEF t
<1>3. Refresh(t) \in Sound /\ Proceeds(Here, Refresh(t))
  BY <1>1, ThenRefresh
<1>4. Here' = Refresh(t)
  BY <1>2, <1>3, BecomeIs DEF Sound
<1> QED BY <1>3, <1>4

LEMMA StartFailsSound ==
  ASSUME Here \in Sound, NEW c \in Contribution, NEW g \in DOMAIN run[c], StartFails(c, g)
  PROVE  Here' \in Sound /\ Proceeds(Here, Here')
<1> DEFINE q == run[c][g]
           old == contribution[c]
           blocked == q.teardown = "rejected"
           status == FailedStatus(c, g)
           own1 == [old EXCEPT !.failed = TRUE, !.status = status]
           own == IF old.status = "starting" THEN own1 ELSE old
           rs == StartAt(c, g, g, "settled")
           r == rs[g]
           t == Changed(Here, c, own, rs)
           u == ClearStart(t, c, g)
<1>0. Here \in State /\ q \in GenerationRecord /\ old \in ContributionRecord
      /\ Here.contribution[c] = old /\ Here.run[c] = run[c] /\ g \in 1 .. Len(run[c]) /\ g \in Nat
  BY HereFields DEF Sound
<1>10. CASE Loose
  <2>1. q.starts \in Nat
    BY <1>0 DEF GenerationRecord
  <2> QED BY <1>10, <2>1, CatchSound DEF StartFails
<1>11. CASE ~Loose
  <2>1. q.start = "awaiting" /\ q.starts = g /\ "report" \notin OpenWindows
    BY <1>11, StartInHand DEF StartFails, StartRejected
  <2>2. \/ q.setup = "resolved" /\ q.aborted
        \/ q.setup = "rejected" /\ q.teardown \in {"resolved", "rejected"}
    BY <2>1 DEF StartFails, StartRejected
  <2>3. Catch(c, g, g)
    BY <2>1 DEF StartFails
  <2>4. EndStart(c, g, g, own)
    BY <2>1, <2>3 DEF Catch
  <2>5. IF blocked /\ "reaction" \notin OpenWindows THEN Become(Refresh(u)) ELSE Become(t)
    BY <2>4, Zenon DEF EndStart, RefreshFrom
  <2>6. status = IF blocked THEN "cleanup-blocked" ELSE "failed"
    BY DEF FailedStatus
  <2>7. own1 \in ContributionRecord /\ SameBut(own1, old) /\ own1.transition = old.transition
        /\ own1.failed /\ own1.status = status
    <3>1. status \in {"failed", "cleanup-blocked"}
      BY <2>6
    <3> HIDE DEF status, old
    <3> QED BY <1>0, <3>1, FailedOwn
  <2> HIDE DEF own1, status
  <2>8. /\ own \in ContributionRecord /\ SameBut(own, old) /\ own.transition = old.transition
        /\ IF old.status = "starting" THEN own.failed /\ own.status = status
           ELSE own.failed = old.failed /\ own.status = old.status
    BY <1>0, <2>7 DEF SameBut
  <2>9. /\ rs = [run[c] EXCEPT ![g] = r] /\ r \in GenerationRecord /\ r.start = "settled"
        /\ r.setup = q.setup /\ (r.aborted <=> q.aborted) /\ r.teardown = q.teardown
        /\ r.stop = q.stop /\ r.stops = q.stops
    BY <1>0, StartAtIs DEF Restarted
  <2> HIDE DEF own, r, rs
  <2>10. own.activation \in 0 .. Len(run[c]) /\ own.generation = old.generation
    BY <1>0, <2>8, StateFields DEF SameBut
  <2>11. Advances(Here, t, c, g) /\ t \in State /\ t.contribution[c] = own /\ t.run[c][g] = r
    BY <1>0, <2>8, <2>9, <2>10, ChangedAdvances
  <2> HIDE DEF t, q, old
  <2>12. CASE ~(blocked /\ "reaction" \notin OpenWindows)
    <3>1. FailedStart(old, own, q, r, c, g)
      BY <2>1, <2>2, <2>6, <2>8, <2>9, <2>12 DEF FailedStart
    <3>2. Moves(Here, t, c, g)
      BY <1>0, <2>11, <3>1 DEF Moves, q, old
    <3>3. ~Reacting(Here.run[c][g], t.run[c][g])
      BY <1>0, <2>9, <2>11 DEF Reacting, q
    <3> QED BY <2>5, <2>11, <2>12, <3>2, <3>3, BecomeIs, MovesProceeds
  <2>13. CASE blocked /\ "reaction" \notin OpenWindows
    <3>1. Len(t.run[c]) = Len(run[c]) /\ t.run[c][g].start = "settled" /\ g \in 1 .. Len(t.run[c])
      BY <1>0, <2>9, <2>11 DEF Advances
    <3>2. /\ Advances(t, u, c, g) /\ u \in State
          /\ ReactedToStart(own, u.contribution[c], r, u.run[c][g], c, g)
      BY <2>11, <3>1, ClearStartIs
    <3> HIDE DEF u
    <3>3. Advances(Here, u, c, g)
      BY <2>11, <3>2 DEF Advances, OnlyPart
    <3>4. FailedStart(old, u.contribution[c], q, u.run[c][g], c, g)
      BY <2>1, <2>2, <2>6, <2>8, <2>9, <2>13, <3>2 DEF FailedStart, ReactedToStart, SameBut, Cleared
    <3>5. Moves(Here, u, c, g)
      BY <1>0, <3>4 DEF Moves, q, old
    <3>6. u \in Sound /\ Keeps(Here, u) /\ (OpenWindows = {} => Spared(Here, u))
      BY <1>0, <3>3, <3>5, MovesSound
    <3>7. Refresh(u) \in Sound /\ Proceeds(Here, Refresh(u))
      BY <3>6, ThenRefresh
    <3>8. Here' = Refresh(u)
      BY <2>5, <2>13, <3>7, BecomeIs DEF Sound
    <3> QED BY <3>7, <3>8
  <2> QED BY <2>12, <2>13
<1> QED BY <1>10, <1>11

(* Only with calls from within it is a report a step of its own. *)
LEMMA FailureReportedSound ==
  ASSUME Here \in Sound, NEW c \in Contribution, NEW g \in DOMAIN run[c], FailureReported(c, g)
  PROVE  Here' \in Sound /\ Proceeds(Here, Here')
<1> DEFINE a == run[c][g].starts
           old == contribution[c]
           own == [old EXCEPT !.status = FailedStatus(c, a)]
           rs == StartAt(c, g, a, "settled")
           t == Changed(Here, c, own, rs)
           u == ClearStart(t, c, g)
<1>0. /\ Here \in State /\ g \in 1 .. Len(run[c]) /\ run[c][g] \in GenerationRecord /\ a \in Nat
      /\ old \in ContributionRecord /\ Here.contribution[c] = old /\ Here.run[c] = run[c]
      /\ old.generation = Len(run[c]) /\ old.activation \in 0 .. Len(run[c])
  <2>1. Here \in State /\ Here.contribution = contribution /\ Here.run = run
    BY DEF Sound, Here
  <2> QED BY <2>1, HereFields, StateFields DEF GenerationRecord
<1>1. "report" \in OpenWindows
  <2>1. run[c][g].start = "reporting"
    BY DEF FailureReported
  <2>2. PartSound(c, old, run[c])
    BY <1>0 DEF Sound
  <2> QED BY <1>0, <2>1, <2>2 DEF PartSound, Fencing
<1>2. Loose
  BY <1>1 DEF Loose
<1>3. Become(t) \/ Become(Refresh(u))
  BY Zenon DEF FailureReported, EndStart, RefreshFrom
<1>4. own \in ContributionRecord /\ own.generation = old.generation /\ own.activation = old.activation
  <2>1. FailedStatus(c, a) \in {"failed", "cleanup-blocked"}
    BY DEF FailedStatus
  <2> QED BY <1>0, <2>1 DEF ContributionRecord
<1>5. rs \in Seq(GenerationRecord) /\ Len(rs) = Len(run[c]) /\ rs[g].start = "settled"
  BY <1>0, StartAtIs DEF Restarted
<1> HIDE DEF own, rs, old, a
<1>6. OnlyPart(Here, t, c) /\ t.run[c] = rs
  BY <1>0, <1>4, <1>5, ChangedIs
<1> HIDE DEF t
<1>7. t \in Sound /\ Proceeds(Here, t)
  BY <1>1, <1>2, <1>6, LooseSound
<1>8. CASE Become(t)
  BY <1>7, <1>8, BecomeIs DEF Sound
<1>9. CASE Become(Refresh(u))
  <2>1. g \in 1 .. Len(t.run[c]) /\ t.run[c][g].start = "settled"
    BY <1>0, <1>5, <1>6
  <2>2. u \in Sound /\ Keeps(t, u)
    BY <1>7, <2>1, ClearStartSound
  <2> HIDE DEF u
  <2>3. Keeps(Here, u)
    BY <1>7, <2>2, KeepsOn DEF Proceeds
  <2>4. Refresh(u) \in Sound /\ Proceeds(Here, Refresh(u))
    BY <1>2, <2>2, <2>3, ThenRefresh DEF Loose
  <2>5. Here' = Refresh(u)
    BY <1>9, <2>4, BecomeIs DEF Sound
  <2> QED BY <2>4, <2>5
<1> QED BY <1>3, <1>8, <1>9

(* What stop() returns for a contribution that is stopping or blocked. *)
LEMMA StopPromiseIs ==
  ASSUME NEW s \in Sound, OpenWindows = {}, NEW c \in Contribution, s.contribution[c].status \in Ending
  PROVE  StopPromise(s, c) = Transition("stop", c, Len(s.run[c])) \/ StopPromise(s, c) = Rejected(c)
<1> DEFINE own == s.contribution[c]
           n == Len(s.run[c])
<1>1. PartOK(c, own, s.run[c])
  BY DEF Sound, PartSound, Loose
<1>2. Transition("stop", c, n).kind = "stop" /\ Nothing(c).kind = "none"
  BY DEF Transition, Nothing
<1>3. own.status = "stopping" => own.transition = Transition("stop", c, n)
  BY <1>1 DEF PartOK
<1>4. own.status = "cleanup-blocked" => own.transition = Transition("stop", c, n) \/ own.transition = Nothing(c)
  BY <1>1 DEF PartOK
<1> QED BY <1>2, <1>3, <1>4 DEF StopPromise, Fenced, Ending

LEMMA BeginStopSound ==
  ASSUME Here \in Sound, NEW c \in Contribution, NEW g \in DOMAIN run[c], BeginStop(c, g)
  PROVE  Here' \in Sound /\ Proceeds(Here, Here')
<1> DEFINE dependents == DependentContributions(Here, c)
           s == StopAll(Here, dependents)
           q == s.run[c][g]
           promises == {StopPromise(s, d) : d \in dependents}
           r == [q EXCEPT !.stop = "dependents", !.awaited = promises]
           rs == [s.run[c] EXCEPT ![g] = [@ EXCEPT !.stop = "dependents", !.awaited = promises]]
           t == Changed(s, c, s.contribution[c], rs)
<1>0. Here \in State /\ g \in 1 .. Len(run[c]) /\ Here.contribution[c] = contribution[c] /\ Here.run[c] = run[c]
  BY HereFields DEF Sound
<1>1. Become(t)
  BY Zenon DEF BeginStop
<1>2. rs = [s.run[c] EXCEPT ![g] = r]
  BY Zenon
<1>3. /\ s \in Sound /\ Keeps(Here, s) /\ s \in State
      /\ s.installation = installation /\ s.installed = installed
      /\ OpenWindows = {} =>
           /\ Calm(Here, s) /\ Untouched(Here, s)
           /\ \A d \in Contribution : d \in dependents /\ s.contribution[d].status \notin IdleStatus =>
                s.contribution[d].status \in Ending
  <2>1. /\ s \in Sound /\ Keeps(Here, s)
        /\ s.installation = Here.installation /\ s.installed = Here.installed
        /\ OpenWindows = {} =>
             /\ Calm(Here, s) /\ Untouched(Here, s)
             /\ \A d \in Contribution : d \in dependents /\ s.contribution[d].status \notin IdleStatus =>
                  s.contribution[d].status \in Ending
    BY StopAllSound
  <2> HIDE DEF s, dependents
  <2> QED BY <2>1 DEF Sound, Here
<1>4. c \notin dependents /\ dependents \subseteq Contribution
  BY <1>0, ContributionsOf DEF DependentContributions
<1>5. s.run[c] = run[c] /\ s.contribution[c] = contribution[c]
  BY <1>0, <1>4, StopAllIs
<1>13. \A d \in Contribution : d # c /\ Owner(d) \in Range(installed) /\ ~installation[Owner(d)].disposed
                                /\ Requires[d] \cap Provides[c] # {} => d \in dependents
  <2>1. Here.installed = installed /\ Here.installation = installation
    BY DEF Here
  <2> QED BY <1>0, <2>1, ContributionsOf DEF DependentContributions
<1> HIDE DEF s, dependents
<1>6. promises \subseteq Promise
  <2>1. ASSUME NEW d \in dependents PROVE StopPromise(s, d) \in Promise
    <3>1. s.contribution[d] \in ContributionRecord /\ d \in Contribution
      BY <1>3, <1>4, StateFields
    <3>2. Resolved(d) \in Promise /\ Rejected(d) \in Promise
      BY <3>1 DEF Resolved, Rejected, Promise
    <3>3. s.contribution[d].transition \in Promise
      BY <3>1 DEF ContributionRecord
    <3> QED BY <3>2, <3>3 DEF StopPromise
  <2> QED BY <2>1
<1>7. /\ q \in GenerationRecord /\ s.contribution[c] \in ContributionRecord
      /\ q.stop = "queued" /\ q.start # "queued"
  BY <1>0, <1>3, <1>5, StateFields DEF BeginStop
<1> HIDE DEF promises
<1>8. r \in GenerationRecord /\ BegunStop(q, r) /\ r.awaited = promises
  <2> DEFINE r1 == [q EXCEPT !.stop = "dependents"]
  <2>1. r = [r1 EXCEPT !.awaited = promises]
    OBVIOUS
  <2>2. r1 \in GenerationRecord /\ BegunStop(q, r1)
    BY <1>7 DEF GenerationRecord, BegunStop
  <2> HIDE DEF r1, r
  <2> QED BY <1>6, <2>1, <2>2 DEF GenerationRecord, BegunStop
<1> HIDE DEF r, rs
<1>9. /\ g \in 1 .. Len(s.run[c])
      /\ s.contribution[c].activation \in 0 .. Len(s.run[c])
  BY <1>0, <1>3, <1>5, StateFields
<1>10. Advances(s, t, c, g) /\ t \in State /\ t.contribution[c] = s.contribution[c] /\ t.run[c][g] = r
  BY <1>2, <1>3, <1>7, <1>8, <1>9, ChangedAdvances
<1> HIDE DEF t
<1>14. OpenWindows = {} => Served(t)
  <2> SUFFICES ASSUME OpenWindows = {}, NEW d \in Contribution, t.contribution[d].status \notin IdleStatus,
                      NEW p \in Requires[d]
               PROVE  \E e \in Contribution :
                        /\ e # d /\ p \in Provides[e] /\ t.contribution[e].status \notin IdleStatus
                        /\ Serves(t.contribution[e], t.run[e], d, Len(t.run[d]), t.contribution[d].status)
    BY DEF Served
  <2>1. /\ Served(s) /\ Placement(s) /\ DisposalOK(s, Owner(d)) /\ d \in PartsOf(Owner(d))
        /\ PartOK(c, s.contribution[c], s.run[c]) /\ Fencing(s.contribution[c], s.run[c])
    BY <1>3, Owners DEF Sound, PartSound, Loose
  <2>2. t.contribution[d] = s.contribution[d] /\ Len(t.run[d]) = Len(s.run[d])
    BY <1>10 DEF Advances, OnlyPart
  <2>3. PICK e \in Contribution :
          /\ e # d /\ p \in Provides[e] /\ s.contribution[e].status \notin IdleStatus
          /\ Serves(s.contribution[e], s.run[e], d, Len(s.run[d]), s.contribution[d].status)
    BY <2>1, <2>2 DEF Served
  <2>4. CASE e # c
    <3>1. t.contribution[e] = s.contribution[e] /\ t.run[e] = s.run[e]
      BY <1>10, <2>4 DEF Advances, OnlyPart
    <3> QED BY <2>2, <2>3, <3>1
  <2>5. CASE e = c
    <3>1. s.contribution[c].status = "stopping" /\ g = Len(s.run[c]) /\ Len(t.run[c]) = Len(s.run[c])
      BY <1>7, <1>9, <1>10, <2>1 DEF PartOK, Fencing, Underway, IdleStatus, Advances
    <3>2. d \in dependents
      <4>1. Owner(d) \in Range(s.installed) /\ ~s.installation[Owner(d)].disposed
        BY <2>1, <2>2 DEF Placement, DisposalOK, IdleStatus
      <4> QED BY <1>3, <1>13, <2>3, <2>5, <4>1
    <3>3. s.contribution[d].status \in Ending
      BY <1>3, <2>2, <3>2
    <3>4. StopPromise(s, d) = Transition("stop", d, Len(s.run[d])) \/ StopPromise(s, d) = Rejected(d)
      BY <1>3, <3>3, StopPromiseIs
    <3>5. StopPromise(s, d) \in promises
      BY <3>2 DEF promises
    <3>6. r.stop = "dependents" /\ r.start = q.start /\ r.setup = q.setup /\ r.awaited = promises
      BY <1>8 DEF BegunStop
    <3>7. Serves(t.contribution[c], t.run[c], d, Len(t.run[d]), t.contribution[d].status)
      BY <1>10, <2>2, <2>3, <2>5, <3>1, <3>3, <3>4, <3>5, <3>6 DEF Serves
    <3> QED BY <1>10, <2>3, <2>5, <3>7
  <2> QED BY <2>4, <2>5
<1>11. Moves(s, t, c, g) /\ ~Reacting(s.run[c][g], t.run[c][g])
  BY <1>8, <1>10, <1>14, Unreacting DEF Moves
<1>12. /\ t \in Sound /\ Keeps(s, t)
       /\ OpenWindows = {} => (Ready(s) => Ready(t))
  BY <1>3, <1>10, <1>11, MovesSound
<1>15. Untouched(s, t)
  <2>1. /\ Len(t.run[c]) = Len(s.run[c]) /\ r.teardown = q.teardown
        /\ \A h \in 1 .. Len(s.run[c]) : h # g => t.run[c][h] = s.run[c][h]
    BY <1>8, <1>10 DEF Advances, BegunStop
  <2>2. Spares(s.run[c], t.run[c])
    BY <1>10, <2>1 DEF Spares
  <2> QED BY <1>10, <2>2, OnePartUntouched DEF Advances
<1>16. OpenWindows = {} => Spared(Here, t) /\ (Ready(Here) => Ready(t))
  BY <1>0, <1>3, <1>12, <1>15, UntouchedOn, UntouchedSpares, CalmReady
<1>17. Proceeds(Here, t)
  BY <1>3, <1>12, <1>16, KeepsOn DEF Proceeds
<1> QED BY <1>1, <1>10, <1>12, <1>17, BecomeIs

LEMMA BlockedSound ==
  ASSUME Here \in Sound, NEW c \in Contribution, NEW g \in DOMAIN run[c],
         run[c][g].stop \in {"dependents", "activation"}, Blocked(c, g)
  PROVE  Here' \in Sound /\ Proceeds(Here, Here')
<1> DEFINE q == run[c][g]
           old == contribution[c]
           r == [q EXCEPT !.stop = "rejected"]
           own == [old EXCEPT !.status = "cleanup-blocked"]
           rs == [run[c] EXCEPT ![g].stop = "rejected"]
           t == Changed(Here, c, own, rs)
<1>0. Here \in State /\ q \in GenerationRecord /\ old \in ContributionRecord
      /\ Here.contribution[c] = old /\ Here.run[c] = run[c] /\ g \in 1 .. Len(run[c])
  BY HereFields DEF Sound
<1>1. rs = [run[c] EXCEPT ![g] = r]
  OBVIOUS
<1>2. own \in ContributionRecord /\ own.generation = old.generation /\ own.activation = old.activation
  BY <1>0 DEF ContributionRecord
<1>3. r \in GenerationRecord
  BY <1>0 DEF GenerationRecord
<1>4. BlockedStop(old, own, q, r)
  BY <1>0 DEF BlockedStop, SameBut, ContributionRecord, GenerationRecord
<1>5. Become(t)
  BY Zenon DEF Blocked
<1> HIDE DEF own, r, rs
<1>6. own.activation \in 0 .. Len(run[c])
  BY <1>0, <1>2, StateFields
<1>7. Advances(Here, t, c, g) /\ t \in State /\ t.contribution[c] = own /\ t.run[c][g] = r
  BY <1>0, <1>1, <1>2, <1>3, <1>6, ChangedAdvances
<1> HIDE DEF t
<1>8. Moves(Here, t, c, g) /\ ~Reacting(Here.run[c][g], t.run[c][g])
  BY <1>0, <1>4, <1>7, Unreacting DEF Moves
<1> QED BY <1>5, <1>7, <1>8, BecomeIs, MovesProceeds

(* completeStop turns to the activation it finds. *)
Halted(q, r, a, point) ==
  /\ r \in GenerationRecord
  /\ r.stop = point /\ r.stops = a /\ r.starts = q.starts
  /\ r.start = q.start /\ r.setup = q.setup

LEMMA StopActivationIs ==
  ASSUME Here \in State, NEW c \in Contribution, NEW g \in DOMAIN run[c], NEW a \in 0 .. Len(run[c])
  PROVE  LET rs == StopActivation(c, g, a) IN
         /\ rs \in Seq(GenerationRecord) /\ Len(rs) = Len(run[c])
         /\ a = g => /\ rs = [run[c] EXCEPT ![g] = rs[g]]
                     /\ Halted(run[c][g], rs[g], g, "activation")
                     /\ rs[g].aborted /\ rs[g].teardown = TornDown(run[c][g].teardown)
<1> DEFINE q == run[c][g]
           q1 == [q EXCEPT !.stop = "activation"]
           q2 == [q1 EXCEPT !.stops = a]
           rs0 == [run[c] EXCEPT ![g] = q2]
           u == rs0[a]
           u1 == [u EXCEPT !.aborted = TRUE]
           u2 == [u1 EXCEPT !.teardown = TornDown(run[c][a].teardown)]
           rs1 == [rs0 EXCEPT ![a] = u2]
<1>0. /\ run[c] \in Seq(GenerationRecord) /\ g \in 1 .. Len(run[c]) /\ q \in GenerationRecord
      /\ a \in Nat /\ Len(run[c]) \in Nat
  <2>1. Here.run = run
    BY DEF Here
  <2> QED BY <2>1, HereFields, StateFields
<1>1. StopActivation(c, g, a) = IF a = 0 THEN rs0 ELSE rs1
  BY DEF StopActivation
<1>2. /\ q1 \in GenerationRecord /\ q1.stop = "activation" /\ q1.starts = q.starts
      /\ q1.start = q.start /\ q1.setup = q.setup /\ q1.teardown = q.teardown
  BY <1>0 DEF GenerationRecord
<1> HIDE DEF q1
<1>3. /\ q2 \in GenerationRecord /\ q2.stop = "activation" /\ q2.starts = q.starts /\ q2.stops = a
      /\ q2.start = q.start /\ q2.setup = q.setup /\ q2.teardown = q.teardown
  BY <1>0, <1>2 DEF GenerationRecord
<1> HIDE DEF q2
<1>4. /\ rs0 \in Seq(GenerationRecord) /\ Len(rs0) = Len(run[c]) /\ rs0[g] = q2
      /\ \A h \in 1 .. Len(run[c]) : h # g => rs0[h] = run[c][h]
  BY <1>0, <1>3, ExceptSeq
<1>5. CASE a = 0
  BY <1>0, <1>1, <1>4, <1>5
<1>6. CASE a # 0
  <2>1. rs1 = [run[c] EXCEPT ![g] = q2, ![a] = u2]
    OBVIOUS
  <2> HIDE DEF rs0
  <2>2. a \in 1 .. Len(rs0) /\ a \in 1 .. Len(run[c])
    BY <1>0, <1>4, <1>6
  <2>3. u \in GenerationRecord /\ run[c][a] \in GenerationRecord
    BY <1>0, <1>4, <2>2, ElementOfSeq
  <2>4. TornDown(run[c][a].teardown) \in {"none", "pending", "resolved", "rejected"}
    BY <2>3 DEF GenerationRecord, TornDown
  <2>5. /\ u1 \in GenerationRecord /\ u1.aborted /\ u1.stop = u.stop /\ u1.stops = u.stops
        /\ u1.start = u.start /\ u1.starts = u.starts /\ u1.setup = u.setup
    BY <2>3 DEF GenerationRecord
  <2> HIDE DEF u1, u
  <2>6. /\ u2 \in GenerationRecord /\ u2.aborted /\ u2.stop = u.stop /\ u2.stops = u.stops
        /\ u2.start = u.start /\ u2.starts = u.starts /\ u2.setup = u.setup
        /\ u2.teardown = TornDown(run[c][a].teardown)
    BY <2>4, <2>5 DEF GenerationRecord
  <2> HIDE DEF u2
  <2>7. /\ rs1 \in Seq(GenerationRecord) /\ Len(rs1) = Len(run[c]) /\ rs1[a] = u2
    BY <1>4, <2>2, <2>6, ExceptSeq
  <2>8. ASSUME a = g
        PROVE  /\ rs1 = [run[c] EXCEPT ![g] = rs1[g]]
               /\ Halted(q, rs1[g], g, "activation")
               /\ rs1[g].aborted /\ rs1[g].teardown = TornDown(q.teardown)
    <3>1. u = q2
      BY <1>4, <2>8 DEF u
    <3>2. rs1[g] = u2
      BY <2>7, <2>8
    <3>3. rs1 = [run[c] EXCEPT ![g] = u2]
      BY <1>0, <2>8 DEF rs0
    <3> HIDE DEF rs1
    <3> QED BY <1>3, <2>6, <2>8, <3>1, <3>2, <3>3 DEF Halted
  <2> QED BY <1>1, <1>6, <2>7, <2>8
<1> QED BY <1>5, <1>6

LEMMA DependentsStoppedSound ==
  ASSUME Here \in Sound, NEW c \in Contribution, NEW g \in DOMAIN run[c], DependentsStopped(c, g)
  PROVE  Here' \in Sound /\ Proceeds(Here, Here')
<1> DEFINE q == run[c][g]
           old == contribution[c]
           a == old.activation
           rs == StopActivation(c, g, a)
           r == rs[g]
           t == Changed(Here, c, old, rs)
<1>0. /\ Here \in State /\ q \in GenerationRecord /\ q.stop = "dependents" /\ g \in 1 .. Len(run[c])
      /\ old \in ContributionRecord /\ Here.contribution[c] = old /\ Here.run[c] = run[c]
      /\ old.generation = Len(run[c]) /\ a \in 0 .. Len(run[c])
  <2>1. Here \in State /\ Here.contribution = contribution /\ Here.run = run
    BY DEF Sound, Here
  <2> QED BY <2>1, HereFields, StateFields DEF DependentsStopped
<1>1. CASE SomeRejected(q.awaited)
  BY <1>0, <1>1, BlockedSound DEF DependentsStopped
<1>2. CASE ~SomeRejected(q.awaited)
  <2>1. Become(t)
    BY <1>2, Zenon DEF DependentsStopped
  <2>2. /\ rs \in Seq(GenerationRecord) /\ Len(rs) = Len(run[c])
        /\ a = g => /\ rs = [run[c] EXCEPT ![g] = r]
                    /\ Halted(q, r, g, "activation")
                    /\ r.aborted /\ r.teardown = TornDown(q.teardown)
    BY <1>0, StopActivationIs
  <2> HIDE DEF r, rs
  <2>3. CASE "report" \in OpenWindows
    <3>1. OnlyPart(Here, t, c)
      BY <1>0, <2>2, ChangedIs
    <3> HIDE DEF t
    <3>2. t \in Sound /\ Proceeds(Here, t)
      BY <2>3, <3>1, LooseSound DEF Loose
    <3> QED BY <2>1, <3>2, BecomeIs DEF Sound
  <2>4. CASE "report" \notin OpenWindows
    <3>1. a = g
      <4>1. Fencing(old, run[c])
        BY <1>0, <2>4 DEF Sound, PartSound
      <4> QED BY <1>0, <4>1 DEF Fencing, Underway
    <3>2. r \in GenerationRecord /\ StoppedDependents(q, r, g)
      BY <1>0, <2>2, <3>1 DEF Halted, StoppedDependents
    <3>3. Advances(Here, t, c, g) /\ t \in State /\ t.contribution[c] = old /\ t.run[c][g] = r
      BY <1>0, <2>2, <3>1, <3>2, ChangedAdvances
    <3> HIDE DEF t
    <3>4. ASSUME OpenWindows = {} PROVE Alone(Here, c)
      <4>1. /\ Here.run = run /\ Here.contribution = contribution /\ Len(run[c]) \in Nat
            /\ \A d \in Contribution : PartOK(d, contribution[d], run[d]) /\ Fencing(contribution[d], run[d])
        BY <1>0, <3>4, HereFields, StateFields DEF Here, Sound, PartSound, Loose
      <4>2. contribution[c].status = "stopping" /\ g = Len(run[c])
        BY <1>0, <4>1 DEF PartOK, Fencing, Underway, IdleStatus
      <4>3. ASSUME NEW d \in Contribution, contribution[d].status \notin IdleStatus,
                   Serves(contribution[c], run[c], d, Len(run[d]), contribution[d].status)
            PROVE  FALSE
        <5> DEFINE p == Transition("stop", d, Len(run[d]))
        <5>1. contribution[d].status \in Ending /\ (p \in q.awaited \/ Rejected(d) \in q.awaited)
          BY <1>0, <4>2, <4>3 DEF Serves
        <5>2. Rejected(d) \notin q.awaited
          BY <1>2 DEF SomeRejected, RejectedNow, Rejected
        <5>3. RejectedNow(p) \/ ResolvedNow(p)
          BY <5>1, <5>2 DEF DependentsStopped, AllSettled
        <5>4. ~RejectedNow(p)
          BY <1>2, <5>1, <5>2 DEF SomeRejected
        <5>5. p.kind = "stop" /\ p.of = d /\ p.generation = Len(run[d])
          BY DEF Transition
        <5>6. run[d][Len(run[d])].stop \in {"resolved", "done"}
          BY <5>3, <5>4, <5>5 DEF ResolvedNow
        <5>7. PartOK(d, contribution[d], run[d])
          BY <4>1
        <5> QED BY <5>1, <5>6, <5>7 DEF PartOK, Ending, Underway
      <4> QED BY <3>4, <4>1, <4>2, <4>3, AloneUnlessServing DEF IdleStatus
    <3>5. Moves(Here, t, c, g) /\ ~Reacting(Here.run[c][g], t.run[c][g])
      BY <1>0, <3>2, <3>3, <3>4, Unreacting DEF Moves
    <3> QED BY <2>1, <3>3, <3>5, BecomeIs, MovesProceeds
  <2> QED BY <2>3, <2>4
<1> QED BY <1>1, <1>2

LEMMA ActivationStoppedSound ==
  ASSUME Here \in Sound, NEW c \in Contribution, NEW g \in DOMAIN run[c], ActivationStopped(c, g)
  PROVE  Here' \in Sound /\ Proceeds(Here, Here')
<1> DEFINE q == run[c][g]
           a == q.stops
           old == contribution[c]
           settled == SettledStatus(Here, c)
           r == [q EXCEPT !.stop = "resolved"]
           own == [old EXCEPT !.activation = 0, !.status = settled]
           rs == [run[c] EXCEPT ![g].stop = "resolved"]
           t == Changed(Here, c, own, rs)
<1>0. /\ Here \in State /\ q \in GenerationRecord /\ old \in ContributionRecord
      /\ Here.contribution[c] = old /\ Here.run[c] = run[c] /\ g \in 1 .. Len(run[c])
      /\ run[c] \in Seq(GenerationRecord) /\ old.generation = Len(run[c]) /\ Len(run[c]) \in Nat
      /\ q.stop = "activation"
  <2>1. Here \in State /\ Here.contribution = contribution /\ Here.run = run
    BY DEF Sound, Here
  <2> QED BY <2>1, HereFields, StateFields DEF ActivationStopped
<1>1. CASE Blocked(c, g)
  BY <1>0, <1>1, BlockedSound
<1>2. CASE (a # 0 => run[c][a].teardown = "resolved") /\ Become(t)
  <2>1. rs = [run[c] EXCEPT ![g] = r]
    OBVIOUS
  <2>2. /\ own \in ContributionRecord /\ own.generation = old.generation /\ own.activation = 0
        /\ own.status = settled /\ own.failed = old.failed /\ own.transition = old.transition
    <3> DEFINE own1 == [old EXCEPT !.activation = 0]
    <3>1. own = [own1 EXCEPT !.status = settled]
      OBVIOUS
    <3>2. settled \in {"disposed", "disabled", "failed", "waiting"}
      BY <1>0, SettledStatuses
    <3>3. /\ own1 \in ContributionRecord /\ own1.generation = old.generation /\ own1.activation = 0
          /\ own1.failed = old.failed /\ own1.transition = old.transition
      BY <1>0 DEF ContributionRecord
    <3> HIDE DEF own1, own, settled
    <3> QED BY <3>1, <3>2, <3>3 DEF ContributionRecord
  <2>3. /\ r \in GenerationRecord /\ r.stop = "resolved" /\ r.starts = q.starts
        /\ r.start = q.start /\ r.setup = q.setup /\ (r.aborted <=> q.aborted) /\ r.teardown = q.teardown
    BY <1>0 DEF GenerationRecord
  <2> HIDE DEF own, r, rs
  <2>4. own.activation \in 0 .. Len(run[c]) /\ own.generation = Len(run[c])
    BY <1>0, <2>2
  <2>5. CASE "report" \in OpenWindows
    <3>1. rs \in Seq(GenerationRecord) /\ Len(rs) = Len(run[c])
      BY <1>0, <2>1, <2>3, ExceptSeq
    <3>2. OnlyPart(Here, t, c)
      BY <1>0, <2>2, <2>4, <3>1, ChangedIs
    <3> HIDE DEF t
    <3>3. t \in Sound /\ Proceeds(Here, t)
      BY <2>5, <3>2, LooseSound DEF Loose
    <3> QED BY <1>2, <3>3, BecomeIs DEF Sound
  <2>6. CASE "report" \notin OpenWindows
    <3>1. Fencing(old, run[c])
      BY <1>0, <2>6 DEF Sound, PartSound
    <3>2. a = g /\ g # 0
      BY <1>0, <3>1 DEF Fencing
    <3>3. q.start = "awaiting" => "observation" \in OpenWindows
      <4>1. CASE Loose
        BY <2>6, <4>1 DEF Loose
      <4>2. CASE ~Loose
        <5>1. q.start = "awaiting" => q.starts = g
          BY <4>2, StartInHand
        <5>2. ObservedInTime(c, g)
          BY <3>2 DEF ActivationStopped
        <5> QED BY <5>1, <5>2 DEF ObservedInTime, Awaits
      <4> QED BY <4>1, <4>2
    <3>4. ResolvedStop(old, own, q, r, settled)
      <4>1. q.teardown = "resolved"
        BY <1>2, <3>2
      <4> HIDE DEF q, old, settled
      <4> QED BY <1>0, <2>2, <2>3, <3>3, <4>1 DEF ResolvedStop
    <3>5. Advances(Here, t, c, g) /\ t \in State /\ t.contribution[c] = own /\ t.run[c][g] = r
      BY <1>0, <2>1, <2>2, <2>3, <2>4, ChangedAdvances
    <3> HIDE DEF t
    <3>6. Moves(Here, t, c, g) /\ ~Reacting(Here.run[c][g], t.run[c][g])
      BY <1>0, <3>4, <3>5, Unreacting DEF Moves
    <3> QED BY <1>2, <3>5, <3>6, BecomeIs, MovesProceeds
  <2> QED BY <2>5, <2>6
<1>3. Blocked(c, g) \/ ((a # 0 => run[c][a].teardown = "resolved") /\ Become(t))
  BY Zenon DEF ActivationStopped
<1> QED BY <1>1, <1>2, <1>3

LEMMA StopReactionSound ==
  ASSUME Here \in Sound, NEW c \in Contribution, NEW g \in DOMAIN run[c], StopReaction(c, g)
  PROVE  Here' \in Sound /\ Proceeds(Here, Here')
<1> DEFINE q == run[c][g]
           old == contribution[c]
           p == Transition("stop", c, g)
<1>0. Here \in State /\ q \in GenerationRecord /\ old \in ContributionRecord
      /\ Here.contribution[c] = old /\ Here.run[c] = run[c] /\ g \in 1 .. Len(run[c])
  BY HereFields DEF Sound
<1>1. ASSUME NEW own \in ContributionRecord, NEW r \in GenerationRecord,
             own.generation = old.generation, own.activation = old.activation,
             ReactedToStop(old, own, q, r, c, g), NEW rs, rs = [run[c] EXCEPT ![g] = r],
             Become(Refresh(Changed(Here, c, own, rs)))
      PROVE  Here' \in Sound /\ Proceeds(Here, Here')
  <2> DEFINE t == Changed(Here, c, own, rs)
  <2>1. own.activation \in 0 .. Len(run[c])
    BY <1>0, <1>1, StateFields
  <2>2. Advances(Here, t, c, g) /\ t \in State /\ t.contribution[c] = own /\ t.run[c][g] = r
    BY <1>0, <1>1, <2>1, ChangedAdvances
  <2> HIDE DEF t
  <2>3. Moves(Here, t, c, g)
    BY <1>0, <1>1, <2>2 DEF Moves
  <2>4. t \in Sound /\ Keeps(Here, t) /\ (OpenWindows = {} => Spared(Here, t))
    BY <2>2, <2>3, MovesSound
  <2>5. Refresh(t) \in Sound /\ Proceeds(Here, Refresh(t))
    BY <2>4, ThenRefresh
  <2>6. Here' = Refresh(t)
    BY <1>1, <2>5, BecomeIs DEF Sound, t
  <2> QED BY <2>5, <2>6
<1> DEFINE own == [old EXCEPT !.transition = IF @ = p THEN Nothing(c) ELSE @]
           done == [q EXCEPT !.stop = "done"]
           still == [q EXCEPT !.stop = "blocked"]
<1>2. CASE q.stop = "resolved" /\ Become(Refresh(Changed(Here, c, own, [run[c] EXCEPT ![g].stop = "done"])))
  <2>1. Nothing(c) \in Promise
    BY DEF Nothing, Transition, Promise
  <2>2. /\ own \in ContributionRecord /\ own.generation = old.generation /\ own.activation = old.activation
        /\ own.status = old.status /\ own.failed = old.failed /\ Cleared(old, own, p, c)
    BY <1>0, <2>1 DEF ContributionRecord, Cleared
  <2>3. done \in GenerationRecord
    BY <1>0 DEF GenerationRecord
  <2>4. ReactedToStop(old, own, q, done, c, g)
    BY <1>0, <1>2, <2>2 DEF ReactedToStop, SameBut, GenerationRecord
  <2>5. [run[c] EXCEPT ![g].stop = "done"] = [run[c] EXCEPT ![g] = done]
    OBVIOUS
  <2> HIDE DEF own, done
  <2> QED BY <1>1, <1>2, <2>2, <2>3, <2>4, <2>5
<1>3. CASE q.stop = "rejected" /\ Become(Refresh(Changed(Here, c, old, [run[c] EXCEPT ![g].stop = "blocked"])))
  <2>1. still \in GenerationRecord /\ ReactedToStop(old, old, q, still, c, g)
    BY <1>0, <1>3 DEF GenerationRecord, ReactedToStop, SameBut
  <2>2. [run[c] EXCEPT ![g].stop = "blocked"] = [run[c] EXCEPT ![g] = still]
    OBVIOUS
  <2> HIDE DEF still
  <2> QED BY <1>0, <1>1, <1>3, <2>1, <2>2
<1>4. \/ q.stop = "resolved" /\ Become(Refresh(Changed(Here, c, own, [run[c] EXCEPT ![g].stop = "done"])))
      \/ q.stop = "rejected" /\ Become(Refresh(Changed(Here, c, old, [run[c] EXCEPT ![g].stop = "blocked"])))
  BY Zenon DEF StopReaction, RefreshFrom
<1> QED BY <1>2, <1>3, <1>4

-------------------------------------------------------------------------------
(* The installation handles.                                               *)

OnlyInstallation(s, t, i, own) ==
  /\ t \in State
  /\ t.installation[i] = own
  /\ \A j \in Installation : j # i => t.installation[j] = s.installation[j]
  /\ t.installed = s.installed /\ t.contribution = s.contribution /\ t.run = s.run

LEMMA ChangedInstallationIs ==
  ASSUME NEW s \in State, NEW i \in Installation, NEW own \in InstallationRecord
  PROVE  OnlyInstallation(s, ChangedInstallation(s, i, own), i, own)
<1> DEFINE is == [s.installation EXCEPT ![i] = own]
<1>1. PICK a, b, d, e : s = [installation |-> a, installed |-> b, contribution |-> d, run |-> e]
  BY StateFields
<1>2. s.installation = a /\ s.installed = b /\ s.contribution = d /\ s.run = e
  BY <1>1
<1>3. ChangedInstallation(s, i, own) = [s EXCEPT !.installation = is]
  BY <1>1 DEF ChangedInstallation
<1>4. /\ is \in [Installation -> InstallationRecord] /\ is[i] = own
      /\ \A j \in Installation : j # i => is[j] = s.installation[j]
  BY StateFields
<1> HIDE DEF is
<1>5. [[installation |-> a, installed |-> b, contribution |-> d, run |-> e] EXCEPT !.installation = is]
        = [installation |-> is, installed |-> b, contribution |-> d, run |-> e]
  OBVIOUS
<1>6. ChangedInstallation(s, i, own) = [installation |-> is, installed |-> b, contribution |-> d, run |-> e]
  BY <1>1, <1>3, <1>5, Zenon
<1>7. ChangedInstallation(s, i, own) \in State
  BY <1>2, <1>4, <1>6, StateFields, Assembled
<1> QED BY <1>2, <1>4, <1>6, <1>7 DEF OnlyInstallation

(* The contributions of an installation are contributions it owns. *)
LEMMA PartsOwned ==
  ASSUME NEW i \in Installation
  PROVE  \A c \in PartsOf(i) : c \in Contribution /\ Owner(c) = i
<1>1. \A c \in PartsOf(i) : c \in Contribution
  BY LifecycleAssumption, ElementOfSeq, LenProperties DEF PartsOf, Range
<1> QED BY <1>1, Owners

(* What is done to one installation and its parts. *)
LEMMA InstallationSteps ==
  ASSUME NEW s \in Sound, NEW i \in Installation, NEW t \in State, Listed(t),
         \A j \in Installation : j # i => t.installation[j] = s.installation[j],
         \A c \in Contribution : c \notin PartsOf(i) =>
           t.contribution[c] = s.contribution[c] /\ t.run[c] = s.run[c],
         \A c \in PartsOf(i) :
           /\ PartSound(c, t.contribution[c], t.run[c])
           /\ s.contribution[c].status = "cleanup-blocked" => t.contribution[c] = s.contribution[c],
         OpenWindows = {} =>
           /\ Placement(t) /\ DisposalOK(t, i)
           /\ \A c \in PartsOf(i) :
                /\ Continues(s.contribution[c], s.run[c], t.contribution[c], t.run[c])
                /\ Orderly(t.installation[i], t.contribution[c])
  PROVE  t \in Sound /\ Keeps(s, t)
<1>1. Keeps(s, t)
  BY DEF Keeps, StaysBlocked
<1>2. \A c \in Contribution : PartSound(c, t.contribution[c], t.run[c])
  BY DEF Sound
<1>3. ASSUME OpenWindows = {}
      PROVE  /\ Served(t) /\ \A j \in Installation : DisposalOK(t, j)
             /\ \A c \in Contribution : Orderly(t.installation[Owner(c)], t.contribution[c])
  <2>1. /\ Served(s) /\ \A j \in Installation : DisposalOK(s, j)
        /\ \A c \in Contribution : Orderly(s.installation[Owner(c)], s.contribution[c])
    BY <1>3 DEF Sound
  <2>2. \A c \in Contribution : Continues(s.contribution[c], s.run[c], t.contribution[c], t.run[c])
    BY <1>3, SameContinues
  <2>3. Served(t)
    BY <2>1, <2>2, ServedSteps
  <2>4. ASSUME NEW j \in Installation, j # i PROVE DisposalOK(t, j)
    <3>1. t.installation[j] = s.installation[j] /\ DisposalOK(s, j)
      BY <2>1, <2>4
    <3>2. \A c \in PartsOf(j) : t.contribution[c] = s.contribution[c] /\ t.run[c] = s.run[c]
      BY <2>4, PartsOwned
    <3> QED BY <3>1, <3>2 DEF DisposalOK
  <2>5. ASSUME NEW c \in Contribution PROVE Orderly(t.installation[Owner(c)], t.contribution[c])
    <3>1. CASE c \in PartsOf(i)
      BY <1>3, <3>1, PartsOwned
    <3>2. CASE c \notin PartsOf(i)
      <4>1. Owner(c) \in Installation /\ Owner(c) # i
        BY <3>2, Owners
      <4> QED BY <2>1, <3>2, <4>1
    <3> QED BY <3>1, <3>2
  <2> QED BY <1>3, <2>3, <2>4, <2>5
<1> QED BY <1>1, <1>2, <1>3 DEF Sound

(* What is idle serves nobody. *)
LEMMA IdleContinues ==
  ASSUME NEW old, NEW before, NEW own, NEW rs, old.status \in IdleStatus, own.status \in IdleStatus
  PROVE  Continues(old, before, own, rs)
BY DEF Continues, Serves, IdleStatus

(* What stop() does to every part of an installation that is disabled or   *)
(* begins to be disposed.                                                  *)
LEMMA StopInstallation ==
  ASSUME NEW s \in Sound, NEW i \in Range(s.installed), NEW own \in InstallationRecord, i \in Installation,
         ~own.enabled,
         OpenWindows = {} =>
           /\ own.disposing <=> own.disposal = "queued"
           /\ own.disposal \in {"none", "queued"} /\ ~own.disposed /\ ~s.installation[i].disposed
  PROVE  LET t == StopAll(ChangedInstallation(s, i, own), PartsOf(i)) IN t \in Sound /\ Proceeds(s, t)
<1> DEFINE u == ChangedInstallation(s, i, own)
           t == StopAll(u, PartsOf(i))
<1> SUFFICES t \in Sound /\ Proceeds(s, t)
  OBVIOUS
<1>0. s \in State /\ Listed(s) /\ \A c \in Contribution : PartSound(c, s.contribution[c], s.run[c])
  BY DEF Sound
<1>1. /\ u \in State /\ u.installation[i] = own
      /\ \A j \in Installation : j # i => u.installation[j] = s.installation[j]
      /\ u.installed = s.installed /\ u.contribution = s.contribution /\ u.run = s.run
  <2>1. OnlyInstallation(s, u, i, own)
    BY <1>0, ChangedInstallationIs
  <2> HIDE DEF u
  <2> QED BY <2>1 DEF OnlyInstallation
<1> HIDE DEF u
<1>2. /\ t \in State /\ t.installation = u.installation /\ t.installed = s.installed
      /\ \A c \in Contribution :
           /\ c \in PartsOf(i) => StopTo(u, c, t.contribution[c], t.run[c])
           /\ c \notin PartsOf(i) => t.contribution[c] = s.contribution[c] /\ t.run[c] = s.run[c]
  BY <1>1, StopAllIs
<1> HIDE DEF t
<1>3. ASSUME NEW c \in PartsOf(i)
      PROVE  /\ c \in Contribution /\ Owner(c) = i
             /\ PartSound(c, t.contribution[c], t.run[c])
             /\ s.contribution[c].status = "cleanup-blocked" => t.contribution[c] = s.contribution[c]
  <2>1. c \in Contribution /\ Owner(c) = i
    BY PartsOwned
  <2>2. StopTo(u, c, t.contribution[c], t.run[c]) /\ PartSound(c, u.contribution[c], u.run[c])
    BY <1>0, <1>1, <1>2, <2>1
  <2>3. PartSound(c, t.contribution[c], t.run[c])
    BY <1>1, <2>1, <2>2, StopToFencing, StopToPart DEF PartSound
  <2> QED BY <1>1, <2>1, <2>2, <2>3 DEF StopTo, Fenced
<1>4. ASSUME OpenWindows = {}, NEW c \in PartsOf(i)
      PROVE  /\ Continues(s.contribution[c], s.run[c], t.contribution[c], t.run[c])
             /\ Spares(s.run[c], t.run[c]) /\ Owes(s.run[c], t.run[c])
             /\ Orderly(own, t.contribution[c])
             /\ t.contribution[c].status \notin {"waiting", "active"}
             /\ t.contribution[c].status \in IdleStatus \cup Ending
  <2>1. c \in Contribution /\ Owner(c) = i
    BY PartsOwned
  <2>2. StopTo(u, c, t.contribution[c], t.run[c]) /\ PartOK(c, u.contribution[c], u.run[c])
    BY <1>0, <1>1, <1>2, <1>4, <2>1 DEF PartSound, Loose
  <2>3. /\ Continues(u.contribution[c], u.run[c], t.contribution[c], t.run[c])
        /\ Spares(u.run[c], t.run[c]) /\ Owes(u.run[c], t.run[c])
        /\ Orderly(u.installation[Owner(c)], t.contribution[c])
        /\ t.contribution[c].status \in {"waiting", "active"} =>
             u.contribution[c].status \in IdleStatus /\ t.contribution[c].status = SettledStatus(u, c)
        /\ u.contribution[c].status \notin IdleStatus => t.contribution[c].status \in Ending
    BY <1>1, <2>1, <2>2, StopToContinues
  <2>4. SettledStatus(u, c) \in {"disposed", "disabled"}
    BY <1>1, <2>1 DEF SettledStatus
  <2>5. t.contribution[c].status \notin {"waiting", "active"}
    BY <2>3, <2>4
  <2>6. t.contribution[c].status \in IdleStatus \cup Ending
    BY <2>3 DEF Continues
  <2> QED BY <1>1, <2>1, <2>3, <2>5, <2>6
<1>5. ASSUME OpenWindows = {} PROVE Placement(t)
  <2>1. Placement(s)
    BY <1>5 DEF Sound
  <2>2. \A c \in Contribution :
          t.contribution[c].status \notin IdleStatus => s.contribution[c].status \notin IdleStatus
    BY <1>2, <1>4, <1>5 DEF Continues
  <2> QED BY <1>2, <2>1, <2>2 DEF Placement
<1>6. ASSUME OpenWindows = {} PROVE DisposalOK(t, i)
  <2>1. t.installation[i] = own
    BY <1>1, <1>2
  <2>2. \A c \in PartsOf(i) : own.disposing =>
          t.contribution[c].status \in {"disposed", "stopping", "cleanup-blocked"}
    <3> SUFFICES ASSUME NEW c \in PartsOf(i), own.disposing
                 PROVE  t.contribution[c].status \in {"disposed", "stopping", "cleanup-blocked"}
      OBVIOUS
    <3>1. Orderly(own, t.contribution[c]) /\ t.contribution[c].status \in IdleStatus \cup Ending
      BY <1>4, <1>6
    <3> QED BY <3>1 DEF Orderly, Settling, Ending
  <2> QED BY <1>6, <2>1, <2>2 DEF DisposalOK
<1>7. Listed(t)
  BY <1>0, <1>1, <1>2 DEF Listed
<1>8. t \in Sound /\ Keeps(s, t)
  <2>1. \A j \in Installation : j # i => t.installation[j] = s.installation[j]
    BY <1>1, <1>2
  <2>2. \A c \in PartsOf(i) :
          /\ PartSound(c, t.contribution[c], t.run[c])
          /\ s.contribution[c].status = "cleanup-blocked" => t.contribution[c] = s.contribution[c]
    BY <1>3
  <2>3. OpenWindows = {} =>
          \A c \in PartsOf(i) :
            /\ Continues(s.contribution[c], s.run[c], t.contribution[c], t.run[c])
            /\ Orderly(t.installation[i], t.contribution[c])
    BY <1>1, <1>2, <1>4
  <2> QED BY <1>2, <1>5, <1>6, <1>7, <2>1, <2>2, <2>3, InstallationSteps
<1>9. ASSUME OpenWindows = {} PROVE Calm(s, t) /\ Untouched(s, t)
  <2>1. \A c \in Contribution :
          /\ Spares(s.run[c], t.run[c]) /\ Owes(s.run[c], t.run[c])
          /\ t.contribution[c].status \in {"waiting", "active"} =>
               t.contribution[c].status = s.contribution[c].status
    BY <1>2, <1>4, <1>9, SameContinues
  <2>2. \A j \in Installation : s.installation[j].disposed => t.installation[j].disposed
    BY <1>1, <1>2, <1>9
  <2> QED BY <1>2, <2>1, <2>2 DEF Calm, Untouched
<1> QED BY <1>0, <1>2, <1>8, <1>9, CalmProceeds, UntouchedSpares

LEMMA InstallSound ==
  ASSUME Here \in Sound, NEW i \in Installation, Install(i)
  PROVE  Here' \in Sound /\ Keeps(Here, Here') /\ Spared(Here, Here')
<1>0. /\ Here \in State /\ installed \in Seq(Installation)
      /\ Here.installed = installed /\ Here.installation = installation
      /\ Here.contribution = contribution /\ Here.run = run
  BY StateFields DEF Sound, Here
<1>1. Here' = [installation |-> installation, installed |-> installed', contribution |-> contribution, run |-> run]
  BY DEF Here, Install
<1>2. /\ installed' \in Seq(Installation) /\ Len(installed') = Len(installed) + 1
      /\ (\A n \in 1 .. Len(installed) : installed'[n] = installed[n])
      /\ installed'[Len(installed) + 1] = i
      /\ Len(installed) \in Nat /\ DOMAIN installed = 1 .. Len(installed)
      /\ DOMAIN installed' = 1 .. Len(installed) + 1
  BY <1>0, AppendProperties, LenProperties DEF Install
<1>3. Range(installed') = Range(installed) \cup {i}
  <2>1. \A n : n \in 1 .. Len(installed) + 1 <=> n \in 1 .. Len(installed) \/ n = Len(installed) + 1
    BY <1>2
  <2> QED BY <1>2, <2>1 DEF Range
<1>4. Here' \in State
  BY <1>0, <1>1, <1>2, StateFields, Assembled
<1>5. Keeps(Here, Here')
  BY <1>0, <1>1 DEF Keeps, StaysBlocked
<1>6. \A c \in Contribution : PartSound(c, Here'.contribution[c], Here'.run[c])
  BY <1>0, <1>1 DEF Sound
<1>7. ASSUME OpenWindows = {}
      PROVE  /\ Placement(Here') /\ Served(Here')
             /\ \A j \in Installation : DisposalOK(Here', j)
             /\ \A c \in Contribution : Orderly(Here'.installation[Owner(c)], Here'.contribution[c])
  <2>1. /\ Placement(Here) /\ Served(Here)
        /\ \A j \in Installation : DisposalOK(Here, j)
        /\ \A c \in Contribution : Orderly(Here.installation[Owner(c)], Here.contribution[c])
    BY <1>7 DEF Sound
  <2>7. Served(Here') /\ \A c \in Contribution : Orderly(Here'.installation[Owner(c)], Here'.contribution[c])
    BY <1>0, <1>1, <2>1, SameContinues, ServedSteps
  <2>2. \A j \in Installation : DisposalOK(Here', j)
    BY <1>0, <1>1, <2>1 DEF DisposalOK
  <2>3. \A c \in Contribution : contribution[c].status \notin IdleStatus => Owner(c) \in Range(installed')
    BY <1>0, <1>3, <2>1 DEF Placement
  <2>4. \A m, n \in DOMAIN installed' : installed'[m] = installed'[n] => m = n
    <3>1. \A m, n \in 1 .. Len(installed) : installed[m] = installed[n] => m = n
      BY <1>0, <1>2, <2>1 DEF Placement
    <3>2. \A m \in 1 .. Len(installed) : installed[m] # i
      BY <1>2 DEF Install, Range
    <3>3. \A n : n \in 1 .. Len(installed) + 1 <=> n \in 1 .. Len(installed) \/ n = Len(installed) + 1
      BY <1>2
    <3> QED BY <1>2, <3>1, <3>2, <3>3
  <2>5. ASSUME NEW c \in Contribution, NEW d \in Contribution, c # d,
               Owner(c) \in Range(installed'), Owner(d) \in Range(installed')
        PROVE  Provides[c] \cap Provides[d] = {}
    <3>1. \A x \in Contribution : Owner(x) = i => x \in PartsOf(i)
      BY Owners
    <3>2. \A x \in Contribution : x \in Range(AllContributions(Here)) <=> Owner(x) \in Range(installed)
      BY <1>0, ContributionsOf
    <3>3. \A x \in PartsOf(i), y \in Range(AllContributions(Here)) : Provides[x] \cap Provides[y] = {}
      BY <1>0, ContributionsOf DEF Install
    <3>4. CASE Owner(c) = i /\ Owner(d) = i
      BY <2>5, <3>1, <3>4, LifecycleAssumption DEF PartsOf
    <3>5. CASE Owner(c) \in Range(installed) /\ Owner(d) \in Range(installed)
      BY <1>0, <2>1, <2>5, <3>5 DEF Placement
    <3>6. CASE Owner(c) = i /\ Owner(d) \in Range(installed)
      BY <3>1, <3>2, <3>3, <3>6
    <3>7. CASE Owner(c) \in Range(installed) /\ Owner(d) = i
      BY <3>1, <3>2, <3>3, <3>7
    <3> QED BY <1>3, <2>5, <3>4, <3>5, <3>6, <3>7
  <2>6. Placement(Here')
    BY <1>1, <2>3, <2>4, <2>5 DEF Placement
  <2> QED BY <2>2, <2>6, <2>7
<1>8. Listed(Here')
  <2>1. Listed(Here)
    BY DEF Sound
  <2> QED BY <1>0, <1>1, <1>3, <2>1 DEF Listed
<1>9. Spared(Here, Here')
  BY <1>0, <1>1, SameContinues DEF Spared
<1> QED BY <1>4, <1>5, <1>6, <1>7, <1>8, <1>9 DEF Sound

LEMMA SettleSound ==
  ASSUME Here \in Sound, Settle
  PROVE  Here' \in Sound /\ Keeps(Here, Here') /\ (OpenWindows = {} => Spared(Here, Here') /\ Ready(Here'))
<1>1. /\ Refresh(Here) \in Sound /\ Keeps(Here, Refresh(Here))
      /\ OpenWindows = {} => Untouched(Here, Refresh(Here)) /\ Reconciled(Refresh(Here))
  BY RefreshSound
<1>2. Become(Refresh(Here))
  BY DEF Settle, RefreshFrom
<1>3. Here' = Refresh(Here)
  BY <1>1, <1>2, BecomeIs DEF Sound
<1> QED BY <1>1, <1>3, UntouchedSpares DEF Ready

LEMMA EnableSound ==
  ASSUME Here \in Sound, NEW i \in Installation, Enable(i)
  PROVE  Here' \in Sound /\ Proceeds(Here, Here')
<1> DEFINE own == [installation[i] EXCEPT !.enabled = TRUE]
           u == ChangedInstallation(Here, i, own)
           C == [c \in Contribution |->
                  IF c \in PartsOf(i) /\ contribution[c].status = "disabled"
                  THEN [contribution[c] EXCEPT !.status = IF contribution[c].failed THEN "failed" ELSE "waiting"]
                  ELSE contribution[c]]
           t == [u EXCEPT !.contribution = C]
<1>0. /\ Here \in State /\ installation[i] \in InstallationRecord
      /\ contribution \in [Contribution -> ContributionRecord]
      /\ Here.installation = installation /\ Here.contribution = contribution /\ Here.run = run
      /\ Here.installed = installed
  BY StateFields DEF Sound, Here
<1>1. ~installation[i].disposing /\ ~installation[i].disposed
  BY DEF Enable, Call, Live
<1>2. /\ own \in InstallationRecord /\ own.enabled
      /\ (own.disposing <=> installation[i].disposing) /\ (own.disposed <=> installation[i].disposed)
      /\ own.disposal = installation[i].disposal
  BY <1>0 DEF InstallationRecord
<1>3. Become(Refresh(t))
  BY Zenon DEF Enable, RefreshFrom
<1>4. \A c \in Contribution :
        \/ /\ C[c] = contribution[c]
           /\ c \in PartsOf(i) => contribution[c].status # "disabled"
        \/ /\ c \in PartsOf(i) /\ contribution[c].status = "disabled"
           /\ C[c].status = IF contribution[c].failed THEN "failed" ELSE "waiting"
           /\ C[c] \in ContributionRecord
           /\ (C[c].failed <=> contribution[c].failed)
           /\ C[c].generation = contribution[c].generation /\ C[c].activation = contribution[c].activation
           /\ C[c].transition = contribution[c].transition
  <2>0. \A c \in Contribution :
          \/ c \in PartsOf(i) /\ contribution[c].status = "disabled"
          \/ C[c] = contribution[c]
    OBVIOUS
  <2> SUFFICES ASSUME NEW c \in Contribution, c \in PartsOf(i), contribution[c].status = "disabled"
               PROVE  /\ C[c].status = IF contribution[c].failed THEN "failed" ELSE "waiting"
                      /\ C[c] \in ContributionRecord
                      /\ (C[c].failed <=> contribution[c].failed)
                      /\ C[c].generation = contribution[c].generation
                      /\ C[c].activation = contribution[c].activation
                      /\ C[c].transition = contribution[c].transition
    <3> HIDE DEF C
    <3> QED BY <2>0
  <2>1. C[c] = [contribution[c] EXCEPT !.status = IF contribution[c].failed THEN "failed" ELSE "waiting"]
    OBVIOUS
  <2>2. contribution[c] \in ContributionRecord
    BY <1>0
  <2> HIDE DEF C
  <2> QED BY <2>1, <2>2 DEF ContributionRecord
<1>5. C \in [Contribution -> ContributionRecord]
  <2>1. \A c \in Contribution : C[c] \in ContributionRecord
    BY <1>0, <1>4
  <2> QED BY <2>1
<1> HIDE DEF C
<1>6. OnlyInstallation(Here, u, i, own)
  BY <1>0, <1>2, ChangedInstallationIs
<1> HIDE DEF own, u
<1>7. t = [installation |-> u.installation, installed |-> u.installed, contribution |-> C, run |-> u.run]
  <2>1. PICK a, b, d, e : u = [installation |-> a, installed |-> b, contribution |-> d, run |-> e]
    BY <1>6, StateFields DEF OnlyInstallation
  <2> QED BY <2>1
<1>8. t \in State
  <2>1. \A c \in Contribution : C[c].generation = Len(u.run[c]) /\ C[c].activation \in 0 .. Len(u.run[c])
    BY <1>0, <1>4, <1>6, StateFields DEF OnlyInstallation
  <2>2. /\ u.installation \in [Installation -> InstallationRecord] /\ u.installed \in Seq(Installation)
        /\ u.run \in [Contribution -> Seq(GenerationRecord)]
    BY <1>6, StateFields DEF OnlyInstallation
  <2> HIDE DEF t
  <2> QED BY <1>5, <1>7, <2>1, <2>2, Assembled
<1>9. /\ t.installation[i] = own /\ t.installed = installed /\ t.contribution = C /\ t.run = run
      /\ \A j \in Installation : j # i => t.installation[j] = installation[j]
  BY <1>0, <1>6, <1>7 DEF OnlyInstallation
<1> HIDE DEF t
<1>10. Listed(t)
  <2>1. Listed(Here)
    BY DEF Sound
  <2> QED BY <1>0, <1>2, <1>9, <2>1 DEF Listed
<1>11. ASSUME NEW c \in PartsOf(i)
       PROVE  /\ PartSound(c, C[c], run[c])
              /\ contribution[c].status = "cleanup-blocked" => C[c] = contribution[c]
  <2>1. c \in Contribution /\ PartSound(c, contribution[c], run[c])
    BY <1>0, PartsOwned DEF Sound
  <2>2. CASE C[c] = contribution[c]
    BY <2>1, <2>2
  <2>3. CASE C[c] # contribution[c]
    <3>1. /\ contribution[c].status = "disabled"
          /\ C[c].status = IF contribution[c].failed THEN "failed" ELSE "waiting"
          /\ (C[c].failed <=> contribution[c].failed)
          /\ C[c].activation = contribution[c].activation
      BY <1>4, <2>1, <2>3
    <3>2. Len(run[c]) \in Nat
      BY <1>0, <2>1, StateFields
    <3>3. PartSound(c, C[c], run[c])
      BY <2>1, <3>1, <3>2 DEF PartSound, Fencing, PartOK, IdleStatus
    <3> QED BY <3>1, <3>3
  <2> QED BY <2>2, <2>3
<1>12. ASSUME OpenWindows = {}, NEW c \in PartsOf(i)
       PROVE  /\ Continues(contribution[c], run[c], C[c], run[c])
              /\ Orderly(own, C[c])
  <2>1. c \in Contribution /\ Owner(c) = i
    BY PartsOwned
  <2>2. Orderly(installation[i], contribution[c])
    BY <1>0, <1>12, <2>1 DEF Sound
  <2>3. CASE C[c] = contribution[c] /\ contribution[c].status # "disabled"
    <3>1. Orderly(own, contribution[c])
      BY <1>1, <1>2, <2>2, <2>3 DEF Orderly, Settling
    <3> QED BY <2>3, <3>1, SameContinues
  <2>4. CASE /\ contribution[c].status = "disabled"
             /\ C[c].status = IF contribution[c].failed THEN "failed" ELSE "waiting"
             /\ (C[c].failed <=> contribution[c].failed)
    <3>1. Continues(contribution[c], run[c], C[c], run[c])
      BY <2>4, IdleContinues DEF IdleStatus
    <3>2. Orderly(own, C[c])
      BY <1>1, <1>2, <2>4 DEF Orderly, Settling
    <3> QED BY <3>1, <3>2
  <2> QED BY <1>4, <2>1, <2>3, <2>4
<1>13. ASSUME OpenWindows = {} PROVE Placement(t) /\ DisposalOK(t, i)
  <2>1. Placement(Here) /\ DisposalOK(Here, i)
    BY <1>13 DEF Sound
  <2>2. \A c \in Contribution : C[c].status \notin IdleStatus => contribution[c].status \notin IdleStatus
    BY <1>4 DEF IdleStatus
  <2>3. Placement(t)
    BY <1>0, <1>9, <2>1, <2>2 DEF Placement
  <2>4. own.disposal = "none"
    BY <1>0, <1>1, <1>2, <2>1 DEF DisposalOK, InstallationRecord
  <2> QED BY <1>1, <1>2, <1>9, <2>3, <2>4 DEF DisposalOK
<1>14. t \in Sound /\ Keeps(Here, t)
  <2>1. /\ \A j \in Installation : j # i => t.installation[j] = Here.installation[j]
        /\ \A c \in Contribution : c \notin PartsOf(i) =>
             t.contribution[c] = Here.contribution[c] /\ t.run[c] = Here.run[c]
        /\ \A c \in PartsOf(i) :
             /\ PartSound(c, t.contribution[c], t.run[c])
             /\ Here.contribution[c].status = "cleanup-blocked" => t.contribution[c] = Here.contribution[c]
    BY <1>0, <1>4, <1>9, <1>11
  <2>2. OpenWindows = {} =>
          \A c \in PartsOf(i) :
            /\ Continues(Here.contribution[c], Here.run[c], t.contribution[c], t.run[c])
            /\ Orderly(t.installation[i], t.contribution[c])
    BY <1>0, <1>9, <1>12
  <2> QED BY <1>8, <1>10, <1>13, <2>1, <2>2, InstallationSteps
<1>15. Spared(Here, t)
  BY <1>0, <1>9, SameContinues, UntouchedSpares DEF Untouched
<1>16. Refresh(t) \in Sound /\ Proceeds(Here, Refresh(t))
  BY <1>14, <1>15, ThenRefresh
<1>17. Here' = Refresh(t)
  BY <1>3, <1>16, BecomeIs DEF Sound
<1> QED BY <1>16, <1>17

LEMMA DisableSound ==
  ASSUME Here \in Sound, NEW i \in Installation, Disable(i)
  PROVE  Here' \in Sound /\ Proceeds(Here, Here')
<1> DEFINE own == [installation[i] EXCEPT !.enabled = FALSE]
           t == StopAll(ChangedInstallation(Here, i, own), PartsOf(i))
<1>0. installation[i] \in InstallationRecord /\ Here.installation = installation /\ Here.installed = installed
  BY StateFields DEF Sound, Here
<1>1. /\ own \in InstallationRecord /\ ~own.enabled
      /\ (own.disposing <=> installation[i].disposing) /\ (own.disposed <=> installation[i].disposed)
      /\ own.disposal = installation[i].disposal
  BY <1>0 DEF InstallationRecord
<1>2. Become(t)
  BY Zenon DEF Disable
<1> HIDE DEF own
<1>3. i \in Range(Here.installed) /\ ~installation[i].disposing /\ ~installation[i].disposed
  BY <1>0 DEF Disable, Call, Live
<1>4. ASSUME OpenWindows = {}
      PROVE  /\ own.disposing <=> own.disposal = "queued"
             /\ own.disposal \in {"none", "queued"} /\ ~own.disposed /\ ~installation[i].disposed
  <2>1. DisposalOK(Here, i)
    BY <1>4 DEF Sound
  <2> QED BY <1>0, <1>1, <1>3, <2>1 DEF DisposalOK, InstallationRecord
<1>5. t \in Sound /\ Proceeds(Here, t)
  BY <1>0, <1>1, <1>3, <1>4, StopInstallation
<1> HIDE DEF t
<1>6. Here' = t
  BY <1>2, <1>5, BecomeIs DEF Sound
<1> QED BY <1>5, <1>6

LEMMA RetrySound ==
  ASSUME Here \in Sound, NEW i \in Installation, NEW c \in Contribution, Retry(i, c)
  PROVE  Here' \in Sound /\ Proceeds(Here, Here')
<1> DEFINE old == contribution[c]
           status == IF installation[i].enabled THEN "waiting" ELSE "disabled"
           own == [old EXCEPT !.failed = FALSE, !.activation = 0, !.status = status]
           t == Changed(Here, c, own, run[c])
<1>0. /\ Here \in State /\ old \in ContributionRecord /\ run[c] \in Seq(GenerationRecord)
      /\ Here.installation = installation /\ Here.contribution = contribution /\ Here.run = run
      /\ Len(run[c]) \in Nat /\ old.generation = Len(run[c])
  BY StateFields DEF Sound, Here
<1>1. /\ Owner(c) = i /\ ~installation[i].disposing /\ ~installation[i].disposed /\ old.status # "cleanup-blocked"
  BY PartsOwned DEF Retry, Call, Live
<1>2. CASE old.failed
  <2>1. Become(Refresh(t))
    BY <1>2, Zenon DEF Retry, RefreshFrom
  <2>2. /\ own \in ContributionRecord /\ own.generation = old.generation /\ own.activation = 0
        /\ own.status = status /\ own.transition = old.transition /\ ~own.failed
    <3> DEFINE own1 == [old EXCEPT !.failed = FALSE]
               own2 == [own1 EXCEPT !.activation = 0]
    <3>1. own = [own2 EXCEPT !.status = status]
      OBVIOUS
    <3>2. own1 \in ContributionRecord /\ own1.generation = old.generation /\ own1.transition = old.transition
          /\ ~own1.failed
      BY <1>0 DEF ContributionRecord
    <3> HIDE DEF own1, own
    <3>3. own2 \in ContributionRecord /\ own2.generation = old.generation /\ own2.transition = old.transition
          /\ ~own2.failed /\ own2.activation = 0
      BY <3>2 DEF ContributionRecord
    <3>4. status \in {"waiting", "disabled"}
      OBVIOUS
    <3> HIDE DEF own2, status
    <3> QED BY <3>1, <3>3, <3>4 DEF ContributionRecord
  <2> HIDE DEF own
  <2>3. OnlyPart(Here, t, c) /\ t.contribution[c] = own /\ t.run[c] = run[c]
    BY <1>0, <2>2, ChangedIs
  <2> HIDE DEF t
  <2>4. PartSound(c, old, run[c])
    BY <1>0 DEF Sound
  <2>5. "report" \notin OpenWindows => old.status \in IdleStatus
    BY <1>1, <1>2, <2>4 DEF PartSound, Fencing, IdleStatus
  <2>6. PartSound(c, own, run[c])
    BY <1>0, <2>2, <2>4, <2>5 DEF PartSound, Loose, Fencing, PartOK, IdleStatus
  <2>7. Fits(Here, c, own, run[c])
    <3>1. own.status = (IF installation[i].enabled THEN "waiting" ELSE "disabled") /\ ~own.failed
      BY <2>2
    <3>2. Orderly(installation[i], own)
      BY <1>1, <2>2, <3>1 DEF Orderly, Settling
    <3> QED BY <1>0, <1>1, <2>2, <3>2 DEF Fits, IdleStatus
  <2>8. PartTo(Here, c, t.contribution[c], t.run[c])
    BY <1>0, <1>1, <2>3, <2>6, <2>7 DEF PartTo, StaysBlocked
  <2>9. OpenWindows = {} /\ Served(Here) => Served(t)
    <3>1. OpenWindows = {} => Continues(old, run[c], own, run[c])
      BY <2>2, <2>5, IdleContinues DEF IdleStatus
    <3> QED BY <1>0, <2>3, <3>1, OnePartServed
  <2>10. t \in Sound /\ Keeps(Here, t)
    BY <2>3, <2>8, <2>9, OnePart DEF Sound
  <2>11. Spared(Here, t)
    BY <1>0, <2>3, SameContinues, OnePartUntouched, UntouchedSpares
  <2>12. Refresh(t) \in Sound /\ Proceeds(Here, Refresh(t))
    BY <2>10, <2>11, ThenRefresh
  <2>13. Here' = Refresh(t)
    BY <2>1, <2>12, BecomeIs DEF Sound
  <2> QED BY <2>12, <2>13
<1>3. CASE ~old.failed
  <2>1. Become(Refresh(Here))
    BY <1>3, Zenon DEF Retry, RefreshFrom
  <2>2. Refresh(Here) \in Sound /\ Proceeds(Here, Refresh(Here))
    BY SameContinues, UntouchedSpares, ThenRefresh DEF Keeps, StaysBlocked, Untouched
  <2>3. Here' = Refresh(Here)
    BY <2>1, <2>2, BecomeIs DEF Sound
  <2> QED BY <2>2, <2>3
<1> QED BY <1>2, <1>3

(* dispose(): every part of the installation is disposed, or stops, or is  *)
(* blocked from then on.                                                   *)
LEMMA DisposeSound ==
  ASSUME Here \in Sound, NEW i \in Installation, Dispose(i)
  PROVE  Here' \in Sound /\ Proceeds(Here, Here')
<1> DEFINE old == installation[i]
           own == [old EXCEPT !.disposing = TRUE, !.enabled = FALSE, !.disposal = "queued"]
           t == StopAll(ChangedInstallation(Here, i, own), PartsOf(i))
<1>0. /\ Here \in State /\ old \in InstallationRecord
      /\ Here.installation = installation /\ Here.installed = installed
      /\ old.disposal = "none" /\ i \in Range(installed)
  BY StateFields DEF Sound, Here, Dispose
<1>1. Become(t)
  BY Zenon DEF Dispose
<1>2. /\ own \in InstallationRecord /\ own.disposing /\ ~own.enabled /\ own.disposal = "queued"
      /\ (own.disposed <=> old.disposed)
  <2> DEFINE own1 == [old EXCEPT !.disposing = TRUE]
             own2 == [own1 EXCEPT !.enabled = FALSE]
  <2>1. own = [own2 EXCEPT !.disposal = "queued"]
    OBVIOUS
  <2>2. own1 \in InstallationRecord /\ own1.disposing /\ (own1.disposed <=> old.disposed)
    BY <1>0 DEF InstallationRecord
  <2> HIDE DEF own1, own
  <2>3. own2 \in InstallationRecord /\ own2.disposing /\ (own2.disposed <=> old.disposed) /\ ~own2.enabled
    BY <2>2 DEF InstallationRecord
  <2> HIDE DEF own2
  <2> QED BY <2>1, <2>3 DEF InstallationRecord
<1> HIDE DEF own
<1>3. OpenWindows = {} => ~old.disposed
  <2>1. OpenWindows = {} => DisposalOK(Here, i)
    BY DEF Sound
  <2> QED BY <1>0, <2>1 DEF DisposalOK
<1>4. t \in Sound /\ Proceeds(Here, t)
  BY <1>0, <1>2, <1>3, StopInstallation
<1> HIDE DEF t
<1>5. Here' = t
  BY <1>1, <1>4, BecomeIs DEF Sound
<1> QED BY <1>4, <1>5

(* completeDisposal() waits for the stop of every part, or for the         *)
(* rejection of a blocked one.                                             *)
LEMMA BeginDisposalSound ==
  ASSUME Here \in Sound, NEW i \in Installation, BeginDisposal(i)
  PROVE  Here' \in Sound /\ Proceeds(Here, Here')
<1> DEFINE s == StopAll(Here, PartsOf(i))
           promises == {StopPromise(s, c) : c \in PartsOf(i)}
           old == s.installation[i]
           own == [old EXCEPT !.disposal = "stopping", !.awaited = promises]
           t == ChangedInstallation(s, i, own)
<1>0. Here \in State /\ installation[i].disposal = "queued" /\ Here.installation = installation
  BY DEF Sound, Here, BeginDisposal
<1>1. Become(t)
  BY Zenon DEF BeginDisposal
<1>2. /\ s \in Sound /\ s \in State /\ Keeps(Here, s) /\ s.installation = installation
      /\ OpenWindows = {} => Calm(Here, s) /\ Untouched(Here, s)
  <2>1. /\ s \in Sound /\ Keeps(Here, s) /\ s.installation = Here.installation
        /\ OpenWindows = {} => Calm(Here, s) /\ Untouched(Here, s)
    BY StopAllSound
  <2> HIDE DEF s
  <2> QED BY <1>0, <2>1 DEF Sound
<1> HIDE DEF s
<1>3. \A c \in PartsOf(i) :
        /\ c \in Contribution /\ s.contribution[c] \in ContributionRecord
        /\ StopPromise(s, c) \in Promise /\ StopPromise(s, c) \in promises
  <2> SUFFICES ASSUME NEW c \in PartsOf(i)
               PROVE  c \in Contribution /\ s.contribution[c] \in ContributionRecord /\ StopPromise(s, c) \in Promise
    OBVIOUS
  <2>1. c \in Contribution /\ s.contribution[c] \in ContributionRecord
    BY <1>2, PartsOwned, StateFields
  <2>2. Resolved(c) \in Promise /\ Rejected(c) \in Promise
    BY <2>1 DEF Resolved, Rejected, Promise
  <2>3. s.contribution[c].transition \in Promise
    BY <2>1 DEF ContributionRecord
  <2> QED BY <2>1, <2>2, <2>3 DEF StopPromise
<1>4. promises \subseteq Promise
  BY <1>3
<1> HIDE DEF promises
<1>5. old \in InstallationRecord /\ old.disposal = "queued"
  BY <1>0, <1>2, StateFields
<1>6. /\ own \in InstallationRecord /\ own.disposal = "stopping" /\ own.awaited = promises
      /\ (own.disposing <=> old.disposing) /\ (own.disposed <=> old.disposed) /\ (own.enabled <=> old.enabled)
  <2> DEFINE own1 == [old EXCEPT !.disposal = "stopping"]
  <2>1. own = [own1 EXCEPT !.awaited = promises]
    OBVIOUS
  <2>2. /\ own1 \in InstallationRecord /\ own1.disposal = "stopping"
        /\ (own1.disposing <=> old.disposing) /\ (own1.disposed <=> old.disposed) /\ (own1.enabled <=> old.enabled)
    BY <1>5 DEF InstallationRecord
  <2> HIDE DEF own1, own
  <2> QED BY <1>4, <2>1, <2>2 DEF InstallationRecord
<1> HIDE DEF own
<1>7. OnlyInstallation(s, t, i, own)
  BY <1>2, <1>6, ChangedInstallationIs
<1> HIDE DEF t
<1>8. /\ t \in State /\ t.installation[i] = own
      /\ \A j \in Installation : j # i => t.installation[j] = s.installation[j]
      /\ t.installed = s.installed /\ t.contribution = s.contribution /\ t.run = s.run
  BY <1>7 DEF OnlyInstallation
<1>9. \A c \in Contribution : PartSound(c, t.contribution[c], t.run[c])
  BY <1>2, <1>8 DEF Sound
<1>10. ASSUME OpenWindows = {} PROVE Placement(t) /\ DisposalOK(t, i)
  <2>1. Placement(s) /\ DisposalOK(s, i)
    BY <1>2, <1>10 DEF Sound
  <2>2. Placement(t)
    BY <1>8, <2>1 DEF Placement
  <2>3. old.disposing /\ ~old.disposed /\ ~old.enabled
    BY <1>5, <2>1 DEF DisposalOK
  <2>4. ASSUME NEW c \in PartsOf(i)
        PROVE  \/ s.contribution[c].status = "disposed"
               \/ Transition("stop", c, Len(s.run[c])) \in promises
               \/ Rejected(c) \in promises
    <3>1. s.contribution[c].status \in {"disposed", "stopping", "cleanup-blocked"}
      BY <2>1, <2>3 DEF DisposalOK
    <3>2. c \in Contribution /\ StopPromise(s, c) \in promises
      BY <1>3
    <3>3. s.contribution[c].status # "disposed" =>
            StopPromise(s, c) = Transition("stop", c, Len(s.run[c])) \/ StopPromise(s, c) = Rejected(c)
      BY <1>2, <1>10, <3>1, <3>2, StopPromiseIs DEF Ending
    <3> QED BY <3>2, <3>3
  <2> QED BY <1>6, <1>8, <2>1, <2>2, <2>3, <2>4 DEF DisposalOK
<1>11. ASSUME OpenWindows = {}, NEW c \in PartsOf(i)
       PROVE  /\ Continues(s.contribution[c], s.run[c], t.contribution[c], t.run[c])
              /\ Orderly(t.installation[i], t.contribution[c])
  <2>1. c \in Contribution /\ Owner(c) = i
    BY PartsOwned
  <2>2. Orderly(old, s.contribution[c])
    BY <1>2, <1>11, <2>1 DEF Sound
  <2>3. Orderly(own, s.contribution[c])
    BY <1>6, <2>2 DEF Orderly, Settling
  <2> QED BY <1>8, <2>3, SameContinues
<1>12. Listed(t)
  <2>1. Listed(s)
    BY <1>2 DEF Sound
  <2> QED BY <1>0, <1>2, <1>8, <2>1 DEF Listed
<1>13. t \in Sound /\ Keeps(s, t)
  <2>1. \A c \in PartsOf(i) : PartSound(c, t.contribution[c], t.run[c])
    BY <1>9, PartsOwned
  <2> QED BY <1>2, <1>8, <1>10, <1>11, <1>12, <2>1, InstallationSteps
<1>14. ASSUME OpenWindows = {} PROVE Calm(Here, t) /\ Spared(Here, t)
  <2>1. Calm(Here, s) /\ Untouched(Here, s)
    BY <1>2, <1>14
  <2>2. \A j \in Installation : s.installation[j].disposed => t.installation[j].disposed
    BY <1>6, <1>8
  <2>3. Calm(s, t) /\ Untouched(s, t)
    BY <1>8, <2>2, SameContinues DEF Calm, Untouched
  <2> QED BY <2>1, <2>3, CalmOn, UntouchedOn, UntouchedSpares
<1>15. Proceeds(Here, t)
  BY <1>0, <1>2, <1>8, <1>13, <1>14, KeepsOn, CalmProceeds
<1>16. Here' = t
  BY <1>1, <1>8, BecomeIs
<1> QED BY <1>13, <1>15, <1>16

(* A sequence without one of its elements. *)
LEMMA Without ==
  ASSUME NEW is \in Seq(Installation), NEW i \in Range(is)
  PROVE  /\ Deleted(is, i) \in Seq(Installation)
         /\ \A j \in Range(is) : j # i => j \in Range(Deleted(is, i))
         /\ Range(Deleted(is, i)) \subseteq Range(is)
         /\ (\A m, n \in DOMAIN is : is[m] = is[n] => m = n) =>
              \A m, n \in DOMAIN Deleted(is, i) : Deleted(is, i)[m] = Deleted(is, i)[n] => m = n
<1> DEFINE L == Len(is)
           k == CHOOSE n \in DOMAIN is : is[n] = i
           left == Deleted(is, i)
<1>1. L \in Nat /\ DOMAIN is = 1 .. L /\ is \in [1 .. L -> Installation]
  BY LenProperties
<1>2. k \in 1 .. L /\ is[k] = i
  BY <1>1 DEF Range
<1> DEFINE a == SubSeq(is, 1, k - 1)
           b == SubSeq(is, k + 1, L)
<1>3. left = a \o b
  BY Zenon DEF Deleted, RemoveAt
<1>9. /\ a \in Seq(Installation) /\ Len(a) = k - 1 /\ \A n \in 1 .. k - 1 : a[n] = is[n]
      /\ b \in Seq(Installation) /\ Len(b) = L - k /\ \A n \in 1 .. L - k : b[n] = is[n + k]
  <2>1. k \in Nat /\ k > 0 /\ k <= L
    BY <1>1, <1>2
  <2>2. (\A n \in 1 .. k - 1 : is[n] \in Installation) /\ (\A n \in k + 1 .. L : is[n] \in Installation)
    <3>1. \A n \in 1 .. L : is[n] \in Installation
      BY <1>1
    <3>2. (\A n \in 1 .. k - 1 : n \in 1 .. L) /\ (\A n \in k + 1 .. L : n \in 1 .. L)
      <4> HIDE DEF k, L
      <4> QED BY <1>1, <2>1 DEF L
    <3> HIDE DEF k, L
    <3> QED BY <3>1, <3>2
  <2> HIDE DEF k, L
  <2>3. a \in Seq(Installation) /\ Len(a) = (IF 1 <= k - 1 THEN k - 1 - 1 + 1 ELSE 0)
        /\ \A n \in 1 .. k - 1 - 1 + 1 : a[n] = is[1 + n - 1]
    BY <2>1, <2>2, SubSeqProperties
  <2>4. b \in Seq(Installation) /\ Len(b) = (IF k + 1 <= L THEN L - (k + 1) + 1 ELSE 0)
        /\ \A n \in 1 .. L - (k + 1) + 1 : b[n] = is[k + 1 + n - 1]
    BY <1>1, <2>1, <2>2, SubSeqProperties DEF L
  <2>5. L \in Nat
    BY <1>1 DEF L
  <2>6. Len(a) = k - 1 /\ Len(b) = L - k
    BY <2>1, <2>3, <2>4, <2>5
  <2>7. \A n \in 1 .. k - 1 : n \in 1 .. k - 1 - 1 + 1 /\ 1 + n - 1 = n
    BY <2>1
  <2>8. \A n \in 1 .. L - k : n \in 1 .. L - (k + 1) + 1 /\ k + 1 + n - 1 = n + k
    BY <2>1, <2>5
  <2> QED BY <2>3, <2>4, <2>6, <2>7, <2>8
<1> HIDE DEF a, b, k
<1>4. DOMAIN left = 1 .. L - 1 /\ \A n \in 1 .. L - 1 : left[n] = IF n < k THEN is[n] ELSE is[n + 1]
  <2>1. left \in Seq(Installation) /\ Len(left) = L - 1
    <3>1. a \o b \in Seq(Installation) /\ Len(a \o b) = Len(a) + Len(b)
      BY <1>9, ConcatProperties
    <3>2. Len(a) + Len(b) = L - 1
      BY <1>1, <1>2, <1>9
    <3> QED BY <1>3, <3>1, <3>2
  <2>2. DOMAIN left = 1 .. L - 1
    BY <2>1, LenProperties
  <2>3. ASSUME NEW n \in 1 .. L - 1 PROVE left[n] = IF n < k THEN is[n] ELSE is[n + 1]
    <3>1. left[n] = IF n <= k - 1 THEN a[n] ELSE b[n - (k - 1)]
      <4>1. n \in 1 .. Len(a) + Len(b)
        BY <1>1, <1>2, <1>9
      <4> QED BY <1>3, <1>9, <4>1, ConcatProperties
    <3>2. n <= k - 1 <=> n < k
      BY <1>1, <1>2
    <3>3. n < k => a[n] = is[n]
      BY <1>1, <1>2, <1>9
    <3>4. ~(n < k) => b[n - (k - 1)] = is[n + 1]
      <4>1. ~(n < k) => n - (k - 1) \in 1 .. L - k /\ n - (k - 1) + k = n + 1
        BY <1>1, <1>2
      <4> QED BY <1>9, <4>1
    <3> QED BY <3>1, <3>2, <3>3, <3>4
  <2> QED BY <2>2, <2>3
<1>5. left \in Seq(Installation)
  BY <1>3, <1>9, ConcatProperties
<1>6. ASSUME NEW j \in Range(is), j # i PROVE j \in Range(left)
  <2>1. PICK n \in 1 .. L : is[n] = j
    BY <1>1 DEF Range
  <2>2. CASE n < k
    <3>1. n \in 1 .. L - 1 /\ left[n] = j
      BY <1>1, <1>2, <1>4, <2>1, <2>2
    <3> QED BY <1>4, <3>1 DEF Range
  <2>3. CASE n > k
    <3>1. n - 1 \in 1 .. L - 1 /\ ~(n - 1 < k) /\ (n - 1) + 1 = n
      BY <1>1, <1>2, <2>3
    <3>2. left[n - 1] = j
      BY <1>4, <2>1, <3>1
    <3> QED BY <1>4, <3>1, <3>2 DEF Range
  <2> QED BY <1>2, <1>6, <2>1, <2>2, <2>3
<1>7. Range(left) \subseteq Range(is)
  <2> SUFFICES ASSUME NEW n \in 1 .. L - 1 PROVE left[n] \in Range(is)
    BY <1>4 DEF Range
  <2>1. n \in 1 .. L /\ n + 1 \in 1 .. L
    BY <1>1
  <2> QED BY <1>1, <1>4, <2>1 DEF Range
<1>8. ASSUME \A m, n \in DOMAIN is : is[m] = is[n] => m = n,
             NEW m \in DOMAIN left, NEW n \in DOMAIN left, left[m] = left[n]
      PROVE  m = n
  <2> DEFINE at(x) == IF x < k THEN x ELSE x + 1
  <2>1. m \in 1 .. L - 1 /\ n \in 1 .. L - 1
    BY <1>4, <1>8
  <2>2. at(m) \in 1 .. L /\ at(n) \in 1 .. L
    BY <1>1, <1>2, <2>1
  <2>3. left[m] = is[at(m)] /\ left[n] = is[at(n)]
    BY <1>4, <2>1
  <2>4. at(m) = at(n)
    <3> HIDE DEF at
    <3> QED BY <1>1, <1>8, <2>2, <2>3
  <2> QED BY <1>1, <1>2, <2>1, <2>4
<1> QED BY <1>5, <1>6, <1>7, <1>8 DEF left

(* Once every stop it waits for has settled and none was rejected, the     *)
(* parts of the installation are disposed.                                 *)
LEMMA FinishDisposalSound ==
  ASSUME Here \in Sound, NEW i \in Installation, FinishDisposal(i)
  PROVE  Here' \in Sound /\ Proceeds(Here, Here')
<1> DEFINE old == installation[i]
<1>0. /\ Here \in State /\ old \in InstallationRecord /\ old.disposal = "stopping"
      /\ Here.installation = installation /\ Here.contribution = contribution /\ Here.run = run
      /\ Here.installed = installed /\ installed \in Seq(Installation)
      /\ installation \in [Installation -> InstallationRecord]
      /\ i \in Range(installed) /\ Listed(Here)
  BY StateFields DEF Sound, Here, FinishDisposal, Listed
<1>1. ASSUME OpenWindows = {}
      PROVE  /\ Placement(Here) /\ \A j \in Installation : DisposalOK(Here, j)
             /\ old.disposing /\ ~old.disposed /\ ~old.enabled
  <2>1. Placement(Here) /\ \A j \in Installation : DisposalOK(Here, j)
    BY <1>1 DEF Sound
  <2> QED BY <1>0, <2>1 DEF DisposalOK
<1>2. CASE SomeRejected(old.awaited)
  <2> DEFINE own == [old EXCEPT !.disposal = "rejected"]
             is == [installation EXCEPT ![i].disposal = "rejected"]
  <2>1. is = [installation EXCEPT ![i] = own]
    OBVIOUS
  <2>2. /\ own \in InstallationRecord /\ own.disposal = "rejected"
        /\ (own.disposing <=> old.disposing) /\ (own.disposed <=> old.disposed) /\ (own.enabled <=> old.enabled)
    BY <1>0 DEF InstallationRecord
  <2>3. installation' = is /\ UNCHANGED <<installed, contribution, run>>
    BY <1>2, Zenon DEF FinishDisposal
  <2> HIDE DEF own
  <2>4. /\ is \in [Installation -> InstallationRecord] /\ is[i] = own
        /\ \A j \in Installation : j # i => is[j] = installation[j]
    BY <1>0, <2>1, <2>2
  <2> HIDE DEF is
  <2>5. Here' = [installation |-> is, installed |-> installed, contribution |-> contribution, run |-> run]
    BY <2>3 DEF Here
  <2> DEFINE t == [installation |-> is, installed |-> installed, contribution |-> contribution, run |-> run]
  <2>6. t \in State
    BY <1>0, <2>4, StateFields, Assembled
  <2>7. t.installation = is /\ t.installed = installed /\ t.contribution = contribution /\ t.run = run
    OBVIOUS
  <2> HIDE DEF t
  <2>8. Listed(t) /\ \A c \in Contribution : PartSound(c, t.contribution[c], t.run[c])
    BY <1>0, <2>2, <2>4, <2>7 DEF Listed, Sound
  <2>9. ASSUME OpenWindows = {} PROVE Placement(t) /\ DisposalOK(t, i)
    <3>1. Placement(t)
      BY <1>0, <1>1, <2>7, <2>9 DEF Placement
    <3>2. DisposalOK(Here, i)
      BY <1>1, <2>9
    <3> QED BY <1>0, <1>1, <2>2, <2>4, <2>7, <2>9, <3>1, <3>2 DEF DisposalOK
  <2>10. ASSUME OpenWindows = {}, NEW c \in PartsOf(i)
         PROVE  /\ Continues(Here.contribution[c], Here.run[c], t.contribution[c], t.run[c])
                /\ Orderly(t.installation[i], t.contribution[c])
    <3>1. c \in Contribution /\ Owner(c) = i
      BY PartsOwned
    <3>2. Orderly(old, contribution[c])
      BY <1>0, <2>10, <3>1 DEF Sound
    <3>3. Orderly(own, contribution[c])
      BY <2>2, <3>2 DEF Orderly, Settling
    <3> QED BY <1>0, <2>4, <2>7, <3>3, SameContinues
  <2>11. t \in Sound /\ Keeps(Here, t)
    <3>1. \A j \in Installation : j # i => t.installation[j] = Here.installation[j]
      BY <1>0, <2>4, <2>7
    <3>2. \A c \in PartsOf(i) : PartSound(c, t.contribution[c], t.run[c])
      BY <2>8, PartsOwned
    <3> QED BY <1>0, <2>6, <2>7, <2>8, <2>9, <2>10, <3>1, <3>2, InstallationSteps
  <2>12. Calm(Here, t) /\ Untouched(Here, t)
    <3>1. \A j \in Installation : installation[j].disposed => t.installation[j].disposed
      BY <2>2, <2>4, <2>7
    <3> QED BY <1>0, <2>7, <3>1, SameContinues DEF Calm, Untouched
  <2> QED BY <1>0, <2>5, <2>6, <2>11, <2>12, CalmProceeds, UntouchedSpares DEF t
<1>3. CASE ~SomeRejected(old.awaited)
  <2> DEFINE own == [old EXCEPT !.disposal = "resolved", !.disposed = TRUE, !.disposing = FALSE]
             u == ChangedInstallation(Here, i, own)
             left == Deleted(installed, i)
             t == Released(i)
  <2>1. Become(Refresh(t)) /\ AllSettled(old.awaited)
    BY <1>3, Zenon DEF FinishDisposal, RefreshFrom
  <2>2. /\ own \in InstallationRecord /\ own.disposal = "resolved" /\ own.disposed /\ ~own.disposing
        /\ (own.enabled <=> old.enabled)
    <3> DEFINE own1 == [old EXCEPT !.disposal = "resolved"]
               own2 == [own1 EXCEPT !.disposed = TRUE]
    <3>1. own = [own2 EXCEPT !.disposing = FALSE]
      OBVIOUS
    <3>2. own1 \in InstallationRecord /\ own1.disposal = "resolved" /\ (own1.enabled <=> old.enabled)
      BY <1>0 DEF InstallationRecord
    <3> HIDE DEF own1, own
    <3>3. own2 \in InstallationRecord /\ own2.disposal = "resolved" /\ (own2.enabled <=> old.enabled) /\ own2.disposed
      BY <3>2 DEF InstallationRecord
    <3> HIDE DEF own2
    <3> QED BY <3>1, <3>3 DEF InstallationRecord
  <2>3. t = [u EXCEPT !.installed = Deleted(u.installed, i)]
    BY Zenon DEF Released
  <2> HIDE DEF own
  <2>4. OnlyInstallation(Here, u, i, own)
    BY <1>0, <2>2, ChangedInstallationIs
  <2> HIDE DEF u, t
  <2>5. /\ u \in State /\ u.installation[i] = own
        /\ \A j \in Installation : j # i => u.installation[j] = installation[j]
        /\ u.installed = installed /\ u.contribution = contribution /\ u.run = run
        /\ u.installation \in [Installation -> InstallationRecord]
    BY <1>0, <2>4, StateFields DEF OnlyInstallation
  <2>6. t = [installation |-> u.installation, installed |-> left, contribution |-> contribution, run |-> run]
    <3>1. PICK a, b, d, e : u = [installation |-> a, installed |-> b, contribution |-> d, run |-> e]
      BY <2>5, StateFields
    <3> HIDE DEF left
    <3>2. t = [u EXCEPT !.installed = left]
      BY <2>3, <2>5 DEF left
    <3> QED BY <2>5, <3>1, <3>2
  <2>7. /\ left \in Seq(Installation)
        /\ \A j \in Range(installed) : j # i => j \in Range(left)
        /\ Range(left) \subseteq Range(installed)
        /\ (\A m, n \in DOMAIN installed : installed[m] = installed[n] => m = n) =>
             \A m, n \in DOMAIN left : left[m] = left[n] => m = n
    BY <1>0, Without
  <2> HIDE DEF left
  <2>8. t \in State
    <3>1. /\ contribution \in [Contribution -> ContributionRecord] /\ run \in [Contribution -> Seq(GenerationRecord)]
          /\ \A c \in Contribution :
               contribution[c].generation = Len(run[c]) /\ contribution[c].activation \in 0 .. Len(run[c])
      BY <1>0, StateFields
    <3> QED BY <2>5, <2>6, <2>7, <3>1, Assembled
  <2>9. t.installation = u.installation /\ t.installed = left /\ t.contribution = contribution /\ t.run = run
    BY <2>6
  <2>10. Listed(t) /\ \A c \in Contribution : PartSound(c, t.contribution[c], t.run[c])
    BY <1>0, <2>2, <2>5, <2>7, <2>9 DEF Listed, Sound
  <2>11. ASSUME OpenWindows = {}, NEW c \in PartsOf(i) PROVE contribution[c].status = "disposed"
    <3> DEFINE part == contribution[c]
               n == Len(run[c])
               p == Transition("stop", c, n)
    <3>1. c \in Contribution /\ PartOK(c, part, run[c]) /\ part \in ContributionRecord
      BY <1>0, <2>11, PartsOwned, StateFields DEF Sound, PartSound, Loose
    <3>2. DisposalOK(Here, i)
      BY <1>1, <2>11
    <3>3. part.status \in {"disposed", "stopping", "cleanup-blocked"}
      BY <1>0, <1>1, <2>11, <3>2 DEF DisposalOK
    <3>4. part.status = "disposed" \/ p \in old.awaited \/ Rejected(c) \in old.awaited
      BY <1>0, <3>2 DEF DisposalOK
    <3>5. Rejected(c) \notin old.awaited
      BY <1>3 DEF SomeRejected, RejectedNow, Rejected
    <3>6. CASE p \in old.awaited
      <4>1. p.kind = "stop" /\ p.of = c /\ p.generation = n
        BY DEF Transition
      <4>2. ResolvedNow(p)
        BY <1>3, <2>1, <3>6 DEF SomeRejected, AllSettled
      <4>3. run[c][n].stop \in {"resolved", "done"}
        BY <4>1, <4>2 DEF ResolvedNow
      <4> QED BY <3>1, <3>3, <4>3 DEF PartOK, Underway
    <3> QED BY <3>4, <3>5, <3>6
  <2>12. ASSUME OpenWindows = {} PROVE Placement(t) /\ DisposalOK(t, i)
    <3>1. Placement(Here)
      BY <1>1, <2>12
    <3>2. ASSUME NEW c \in Contribution, contribution[c].status \notin IdleStatus
          PROVE  Owner(c) \in Range(left)
      <4>1. c \notin PartsOf(i)
        BY <2>11, <2>12, <3>2 DEF IdleStatus
      <4> QED BY <1>0, <2>7, <3>1, <3>2, <4>1, Owners DEF Placement
    <3>3. Placement(t)
      BY <1>0, <2>7, <2>9, <3>1, <3>2 DEF Placement
    <3>4. t.installation[i] = own
      BY <2>5, <2>9
    <3> QED BY <1>1, <2>2, <2>9, <2>11, <2>12, <3>3, <3>4 DEF DisposalOK
  <2>13. ASSUME OpenWindows = {}, NEW c \in PartsOf(i)
         PROVE  /\ Continues(Here.contribution[c], Here.run[c], t.contribution[c], t.run[c])
                /\ Orderly(t.installation[i], t.contribution[c])
    <3>1. Orderly(own, contribution[c])
      BY <2>2, <2>11, <2>13 DEF Orderly, Settling, IdleStatus
    <3> QED BY <1>0, <2>5, <2>9, <3>1, SameContinues
  <2>14. t \in Sound /\ Keeps(Here, t)
    <3>1. \A j \in Installation : j # i => t.installation[j] = Here.installation[j]
      BY <1>0, <2>5, <2>9
    <3>2. \A c \in PartsOf(i) : PartSound(c, t.contribution[c], t.run[c])
      BY <2>10, PartsOwned
    <3> QED BY <1>0, <2>8, <2>9, <2>10, <2>12, <2>13, <3>1, <3>2, InstallationSteps
  <2>15. Spared(Here, t)
    BY <1>0, <2>9, SameContinues, UntouchedSpares DEF Untouched
  <2>16. Refresh(t) \in Sound /\ Proceeds(Here, Refresh(t))
    BY <2>14, <2>15, ThenRefresh
  <2>17. Here' = Refresh(t)
    BY <2>1, <2>16, BecomeIs DEF Sound
  <2> QED BY <2>16, <2>17
<1> QED BY <1>2, <1>3

-------------------------------------------------------------------------------
(* The theorems.                                                           *)

LifecycleInv ==
  /\ Here \in Sound
  /\ OpenWindows = {} => settling \/ Ready(Here)
  /\ settling \in BOOLEAN
  /\ calls \in 0 .. MaxCalls

LEMMA InitLifecycle == Init => LifecycleInv
<1> SUFFICES ASSUME Init PROVE LifecycleInv
  OBVIOUS
<1>1. settling \in BOOLEAN /\ calls \in 0 .. MaxCalls
  <2>1. settling = FALSE /\ calls = 0
    BY Zenon DEF Init
  <2>2. settling \in BOOLEAN
    BY <2>1, Zenon
  <2>3. calls = 0 /\ MaxCalls \in Nat
    BY <2>1, LifecycleAssumption, Zenon
  <2>4. calls \in 0 .. MaxCalls
    BY <2>3
  <2> QED BY <2>2, <2>4
<1>2. /\ installed = <<>>
      /\ installation = [i \in Installation |->
           [enabled |-> TRUE, disposing |-> FALSE, disposed |-> FALSE, disposal |-> "none", awaited |-> {}]]
      /\ contribution = [c \in Contribution |->
           [status |-> "waiting", reason |-> FALSE, failed |-> FALSE, generation |-> 0, activation |-> 0,
            transition |-> Nothing(c)]]
      /\ run = [c \in Contribution |-> <<>>]
  BY Zenon DEF Init
<1>3. \A i \in Installation :
        /\ installation[i] \in InstallationRecord
        /\ installation[i].enabled /\ ~installation[i].disposing /\ ~installation[i].disposed
        /\ installation[i].disposal = "none"
  BY <1>2 DEF InstallationRecord
<1>4. \A c \in Contribution :
        /\ contribution[c] \in ContributionRecord
        /\ contribution[c].status = "waiting" /\ ~contribution[c].failed
        /\ contribution[c].generation = 0 /\ contribution[c].activation = 0
  <2>1. \A c \in Contribution : Nothing(c) \in Promise
    BY DEF Nothing, Transition, Promise
  <2> HIDE DEF Nothing
  <2> QED BY <1>2, <2>1 DEF ContributionRecord
<1>5. \A c \in Contribution : run[c] = <<>> /\ run[c] \in Seq(GenerationRecord) /\ Len(run[c]) = 0
  BY <1>2
<1>6. /\ installation \in [Installation -> InstallationRecord]
      /\ contribution \in [Contribution -> ContributionRecord]
      /\ run \in [Contribution -> Seq(GenerationRecord)]
      /\ installed \in Seq(Installation)
  <2>1. installation \in [Installation -> InstallationRecord]
    BY <1>2, <1>3
  <2>2. contribution \in [Contribution -> ContributionRecord]
    BY <1>2, <1>4
  <2>3. run \in [Contribution -> Seq(GenerationRecord)] /\ installed \in Seq(Installation)
    BY <1>2, <1>5
  <2> QED BY <2>1, <2>2, <2>3
<1>7. /\ Here = [installation |-> installation, installed |-> installed,
                 contribution |-> contribution, run |-> run]
      /\ Here.installation = installation /\ Here.installed = installed
      /\ Here.contribution = contribution /\ Here.run = run
  BY DEF Here
<1>8. Here \in State
  <2>1. \A c \in Contribution :
          contribution[c].generation = Len(run[c]) /\ contribution[c].activation \in 0 .. Len(run[c])
    BY <1>4, <1>5
  <2> QED BY <1>6, <1>7, <2>1, Assembled
<1>9. ASSUME NEW c \in Contribution PROVE PartSound(c, Here.contribution[c], Here.run[c])
  <2>1. /\ Here.contribution[c].status = "waiting" /\ ~Here.contribution[c].failed
        /\ Here.contribution[c].activation = 0 /\ Len(Here.run[c]) = 0
    BY <1>4, <1>5, <1>7
  <2>2. Fencing(Here.contribution[c], Here.run[c])
    BY <2>1 DEF Fencing
  <2>3. PartOK(c, Here.contribution[c], Here.run[c])
    BY <2>1 DEF PartOK, IdleStatus
  <2> QED BY <2>2, <2>3 DEF PartSound
<1>10. Listed(Here) /\ \A i \in Installation : DisposalOK(Here, i)
  BY <1>3, <1>7 DEF Listed, DisposalOK, InstallationRecord
<1>11. Placement(Here)
  <2>1. Range(installed) = {} /\ DOMAIN installed = {}
    BY <1>2 DEF Range
  <2>2. \A c \in Contribution : Here.contribution[c].status \in IdleStatus
    BY <1>4, <1>7 DEF IdleStatus
  <2>3. Range(Here.installed) = {} /\ DOMAIN Here.installed = {}
    BY <1>7, <2>1
  <2> QED BY <2>2, <2>3 DEF Placement
<1>12. Served(Here) /\ Ready(Here)
  <2>1. \A c \in Contribution : Here.contribution[c].status \in IdleStatus
    BY <1>4, <1>7 DEF IdleStatus
  <2>2. Range(Here.installed) = {}
    BY <1>2, <1>7 DEF Range
  <2> QED BY <2>1, <2>2 DEF Served, Ready, Reconciled
<1>13. \A c \in Contribution : Orderly(Here.installation[Owner(c)], Here.contribution[c])
  BY <1>3, <1>4, <1>7, Owners DEF Orderly, Settling
<1>14. Here \in Sound
  BY <1>8, <1>9, <1>10, <1>11, <1>12, <1>13 DEF Sound
<1> QED BY <1>1, <1>12, <1>14 DEF LifecycleInv

(* What is said of each step, a pending settle() included.                 *)
Progresses ==
  /\ Here' \in Sound /\ Keeps(Here, Here')
  /\ OpenWindows = {} =>
       /\ Spared(Here, Here')
       /\ settling \/ Ready(Here) => settling' \/ Ready(Here')

LEMMA ProceedsProgress ==
  ASSUME Here' \in Sound, Proceeds(Here, Here'), settling \in BOOLEAN, settling' = settling
  PROVE  Progresses
BY DEF Progresses, Proceeds

(* Every step of the system keeps the invariant, and what is blocked.      *)
LEMMA NextSound ==
  ASSUME Here \in Sound, settling \in BOOLEAN, Next
  PROVE  Progresses
<1>1. ASSUME NEW i \in Installation, Install(i) PROVE Progresses
  <2>1. settling'
    BY <1>1 DEF Install
  <2> QED BY <1>1, <2>1, InstallSound DEF Progresses
<1>2. ASSUME NEW i \in Installation, Enable(i) \/ Disable(i) \/ Dispose(i) PROVE Progresses
  <2>1. settling' = settling
    BY <1>2, Zenon DEF Enable, Disable, Dispose
  <2> QED BY <1>2, <2>1, EnableSound, DisableSound, DisposeSound, ProceedsProgress
<1>3. ASSUME NEW i \in Installation, NEW c \in Contribution, Retry(i, c) PROVE Progresses
  <2>1. settling' = settling
    BY <1>3, Zenon DEF Retry
  <2> QED BY <1>3, <2>1, RetrySound, ProceedsProgress
<1>4. ASSUME NEW i \in Installation, BeginDisposal(i) \/ FinishDisposal(i) PROVE Progresses
  <2>1. settling' = settling
    BY <1>4, Zenon DEF BeginDisposal, FinishDisposal
  <2> QED BY <1>4, <2>1, BeginDisposalSound, FinishDisposalSound, ProceedsProgress
<1>5. ASSUME NEW c \in Contribution, NEW g \in DOMAIN run[c],
             \/ BeginStart(c, g) \/ SetupSettles(c, g) \/ Teardown(c, g)
             \/ StartSucceeds(c, g) \/ StartFails(c, g) \/ FailureReported(c, g) \/ StartReaction(c, g)
      PROVE  Progresses
  <2>1. settling' = settling
    BY <1>5, Zenon DEF BeginStart, SetupSettles, Teardown, StartSucceeds, StartFails, FailureReported, StartReaction
  <2>2. Here' \in Sound /\ Proceeds(Here, Here')
    BY <1>5, BeginStartSound, SetupSettlesSound, TeardownSound, StartSucceedsSound, StartFailsSound,
       FailureReportedSound, StartReactionSound
  <2> QED BY <2>1, <2>2, ProceedsProgress
<1>6. ASSUME NEW c \in Contribution, NEW g \in DOMAIN run[c],
             BeginStop(c, g) \/ DependentsStopped(c, g) \/ ActivationStopped(c, g) \/ StopReaction(c, g)
      PROVE  Progresses
  <2>1. settling' = settling
    BY <1>6, Zenon DEF BeginStop, DependentsStopped, ActivationStopped, StopReaction
  <2>2. Here' \in Sound /\ Proceeds(Here, Here')
    BY <1>6, BeginStopSound, DependentsStoppedSound, ActivationStoppedSound, StopReactionSound
  <2> QED BY <2>1, <2>2, ProceedsProgress
<1>7. ASSUME Settle PROVE Progresses
  BY <1>7, SettleSound DEF Progresses
<1> QED BY <1>1, <1>2, <1>3, <1>4, <1>5, <1>6, <1>7 DEF Next, HandleCall, Internal

LEMMA CountersBounded ==
  ASSUME settling \in BOOLEAN, calls \in 0 .. MaxCalls, Next
  PROVE  settling' \in BOOLEAN /\ calls' \in 0 .. MaxCalls
<1> DEFINE Kept == (settling' = settling \/ settling' = TRUE \/ settling' = FALSE)
                   /\ (calls' = calls \/ (calls < MaxCalls /\ calls' = calls + 1))
<1>1. ASSUME NEW i \in Installation, Install(i) \/ Dispose(i) \/ BeginDisposal(i) \/ FinishDisposal(i)
      PROVE  Kept
  BY <1>1, Zenon DEF Install, Dispose, BeginDisposal, FinishDisposal
<1>2. ASSUME NEW i \in Installation, Enable(i) \/ Disable(i) \/ \E c \in Contribution : Retry(i, c)
      PROVE  Kept
  BY <1>2, Zenon DEF Enable, Disable, Retry, Call
<1>3. ASSUME NEW c \in Contribution, NEW g \in DOMAIN run[c],
             \/ BeginStart(c, g) \/ SetupSettles(c, g) \/ Teardown(c, g)
             \/ StartSucceeds(c, g) \/ StartFails(c, g) \/ FailureReported(c, g) \/ StartReaction(c, g)
      PROVE  Kept
  BY <1>3, Zenon DEF BeginStart, SetupSettles, Teardown, StartSucceeds, StartFails, FailureReported, StartReaction
<1>4. ASSUME NEW c \in Contribution, NEW g \in DOMAIN run[c],
             BeginStop(c, g) \/ DependentsStopped(c, g) \/ ActivationStopped(c, g) \/ StopReaction(c, g)
      PROVE  Kept
  BY <1>4, Zenon DEF BeginStop, DependentsStopped, ActivationStopped, StopReaction
<1>5. ASSUME Settle PROVE Kept
  BY <1>5, Zenon DEF Settle
<1> HIDE DEF Kept
<1>6. Kept
  BY <1>1, <1>2, <1>3, <1>4, <1>5 DEF Next, HandleCall, Internal
<1>7. calls' \in 0 .. MaxCalls
  BY <1>6, LifecycleAssumption DEF Kept
<1> QED BY <1>6, <1>7 DEF Kept

LEMMA StepLifecycle == LifecycleInv /\ [Next]_vars => LifecycleInv'
<1> SUFFICES ASSUME LifecycleInv, [Next]_vars PROVE LifecycleInv'
  OBVIOUS
<1>1. CASE Next
  <2>1. Progresses
    BY <1>1, NextSound DEF LifecycleInv
  <2>2. settling' \in BOOLEAN /\ calls' \in 0 .. MaxCalls
    BY <1>1, CountersBounded DEF LifecycleInv
  <2>3. OpenWindows = {} => settling' \/ Ready(Here')
    BY <2>1 DEF Progresses, LifecycleInv
  <2> QED BY <2>1, <2>2, <2>3 DEF Progresses, LifecycleInv
<1>2. CASE UNCHANGED vars
  <2>1. Here' = Here /\ settling' = settling /\ calls' = calls
    BY <1>2 DEF vars, Here
  <2> QED BY <2>1 DEF LifecycleInv
<1> QED BY <1>1, <1>2

LEMMA LifecycleInvariant == Spec => []LifecycleInv
BY InitLifecycle, StepLifecycle, PTL DEF Spec

(* Every call and every continuation leaves the provider's records within  *)
(* their types: statuses, transitions and promises of                      *)
(* provider-reconciliation.ts, whichever races are open.                   *)
THEOREM LifecycleTypeOK == Spec => []TypeOK
<1>1. LifecycleInv => TypeOK
  <2> SUFFICES ASSUME LifecycleInv PROVE TypeOK
    OBVIOUS
  <2>1. Here \in State /\ settling \in BOOLEAN /\ calls \in 0 .. MaxCalls
    BY DEF LifecycleInv, Sound
  <2>2. /\ Here.installation = installation /\ Here.installed = installed
        /\ Here.contribution = contribution /\ Here.run = run
    BY DEF Here
  <2>3. /\ installation \in [Installation -> InstallationRecord]
        /\ installed \in Seq(Installation)
        /\ contribution \in [Contribution -> ContributionRecord]
        /\ run \in [Contribution -> Seq(GenerationRecord)]
    BY <2>1, <2>2, StateFields
  <2> QED BY <2>1, <2>3, Zenon DEF TypeOK, InstallationRecord, ContributionRecord, GenerationRecord
<1> QED BY <1>1, LifecycleInvariant, PTL

(* A generation that may hold resources is the contribution's last one,    *)
(* and the contribution is not idle.                                       *)
LEMMA HoldersAreLast ==
  ASSUME LifecycleInv, "observation" \notin OpenWindows, "report" \notin OpenWindows,
         NEW c \in Contribution, NEW g \in DOMAIN run[c], Holding(c, g)
  PROVE  g = Len(run[c]) /\ contribution[c].status \notin IdleStatus
<1>1. /\ PartOK(c, contribution[c], run[c])
      /\ Len(run[c]) \in Nat /\ g \in 1 .. Len(run[c])
  <2>1. Here \in State /\ PartOK(c, Here.contribution[c], Here.run[c])
    BY DEF LifecycleInv, Sound, PartSound, Loose
  <2> QED BY <2>1, HereFields, StateFields
<1>2. ~Finished(run[c][g])
  BY DEF Holding, Finished
<1> QED BY <1>1, <1>2 DEF PartOK

(* A contribution whose status says that nothing is held holds nothing:    *)
(* waiting, failed, disabled and disposed are reached only after the       *)
(* activation's cleanup.  (With the observation race, or with a retry from *)
(* within the report, a failure is charged to the status of another        *)
(* generation, and this fails.)                                            *)
THEOREM IdleContributionsHoldNothing ==
  ASSUME "observation" \notin OpenWindows, "report" \notin OpenWindows
  PROVE  Spec => []IdleHoldsNothing
<1>1. LifecycleInv => IdleHoldsNothing
  BY HoldersAreLast DEF IdleHoldsNothing, IdleStatus
<1> QED BY <1>1, LifecycleInvariant, PTL

(* startContribution creates a generation only when the cleanup of the     *)
(* previous one has succeeded: no contribution has two that hold.          *)
THEOREM OneGenerationHolds ==
  ASSUME "observation" \notin OpenWindows, "report" \notin OpenWindows
  PROVE  Spec => []OneGeneration
<1>1. LifecycleInv => OneGeneration
  <2> SUFFICES ASSUME LifecycleInv, NEW c \in Contribution, NEW g \in DOMAIN run[c], NEW h \in DOMAIN run[c],
                      Holding(c, g), Holding(c, h)
               PROVE  g = h
    BY DEF OneGeneration
  <2> QED BY HoldersAreLast
<1> QED BY <1>1, LifecycleInvariant, PTL

(* A disposal succeeds only when every part of the installation has been   *)
(* disposed: one that stays blocked rejects it, and its name and           *)
(* capability stay reserved.                                               *)
THEOREM BlockedPartsKeepReservation ==
  ASSUME OpenWindows = {}
  PROVE  Spec => []BlockedKeepsReservation
<1>1. LifecycleInv => BlockedKeepsReservation
  <2> SUFFICES ASSUME LifecycleInv, NEW i \in Installation, installation[i].disposed, NEW c \in PartsOf(i)
               PROVE  contribution[c].status = "disposed"
    BY DEF BlockedKeepsReservation
  <2>1. DisposalOK(Here, i)
    BY DEF LifecycleInv, Sound
  <2>2. Here.installation = installation /\ Here.contribution = contribution
    BY DEF Here
  <2> QED BY <2>1, <2>2 DEF DisposalOK
<1> QED BY <1>1, LifecycleInvariant, PTL

(* A capability's successor is admitted only when its predecessor's        *)
(* installation is gone, and that only when it holds nothing any more: two *)
(* providers of one capability never both hold.                            *)
THEOREM SuccessorsWait ==
  ASSUME OpenWindows = {}
  PROVE  Spec => []SuccessorWaits
<1>1. LifecycleInv => SuccessorWaits
  <2> SUFFICES ASSUME LifecycleInv, NEW c \in Contribution, NEW d \in Contribution,
                      c # d, Provides[c] \cap Provides[d] # {},
                      NEW g \in DOMAIN run[c], NEW h \in DOMAIN run[d], Holding(c, g), Holding(d, h)
               PROVE  FALSE
    BY DEF SuccessorWaits
  <2>1. Placement(Here) /\ Here.contribution = contribution
    BY DEF LifecycleInv, Sound, Here
  <2>2. contribution[c].status \notin IdleStatus /\ contribution[d].status \notin IdleStatus
    BY HoldersAreLast
  <2> QED BY <2>1, <2>2 DEF Placement
<1> QED BY <1>1, LifecycleInvariant, PTL

(* cleanup-blocked is final: neither retry nor enable, neither disposal    *)
(* nor a refresh gives the contribution another status or generation, also *)
(* with the observation and the reaction races.  (Calls from within the    *)
(* report begin a stop under the status that is about to be overwritten.)  *)
THEOREM BlockedStaysBlocked ==
  ASSUME "report" \notin OpenWindows
  PROVE  Spec => BlockedIsFinal
<1> DEFINE Final == \A c \in Contribution : contribution[c].status = "cleanup-blocked" =>
                      /\ contribution'[c].status = "cleanup-blocked"
                      /\ contribution'[c].generation = contribution[c].generation
<1>1. LifecycleInv /\ [Next]_vars => [Final]_vars
  <2> SUFFICES ASSUME LifecycleInv, Next PROVE Final
    OBVIOUS
  <2>1. Keeps(Here, Here')
    BY NextSound DEF LifecycleInv, Progresses
  <2> QED BY <2>1 DEF Keeps, StaysBlocked, Here
<1> QED BY <1>1, LifecycleInvariant, PTL DEF Spec, BlockedIsFinal

(* A teardown begins only where nobody in use requires what the            *)
(* contribution provides: completeStop() has waited for its dependents,    *)
(* whose own teardowns have succeeded by then.                             *)
THEOREM DependentsStopFirst ==
  ASSUME OpenWindows = {}
  PROVE  Spec => DependentsFirst
<1> DEFINE First == \A c \in Contribution : \A g \in DOMAIN run[c] :
                      run[c][g].teardown = "none" /\ run'[c][g].teardown # "none" =>
                        \A d \in DependentContributions(Here, c) :
                          \A h \in DOMAIN run[d] : ~Holding(d, h)
<1>1. LifecycleInv /\ [Next]_vars => [First]_vars
  <2> SUFFICES ASSUME LifecycleInv, Next,
                      NEW c \in Contribution, NEW g \in DOMAIN run[c],
                      run[c][g].teardown = "none", run'[c][g].teardown # "none",
                      NEW d \in DependentContributions(Here, c), NEW h \in DOMAIN run[d], Holding(d, h)
               PROVE  FALSE
    OBVIOUS
  <2>1. Spared(Here, Here') /\ Here \in State
    BY NextSound DEF LifecycleInv, Progresses, Sound
  <2>2. ~Spares(Here.run[c], Here'.run[c])
    <3>1. Here.run[c] = run[c] /\ g \in 1 .. Len(run[c])
      BY <2>1, HereFields
    <3>2. Here'.run = run'
      BY DEF Here
    <3> QED BY <3>1, <3>2 DEF Spares
  <2>3. Alone(Here, c)
    BY <2>1, <2>2 DEF Spared
  <2>4. d \in Contribution /\ d # c /\ Requires[d] \cap Provides[c] # {}
    BY <2>1, ContributionsOf DEF DependentContributions
  <2>5. contribution[d].status \notin IdleStatus
    BY <2>4, HoldersAreLast
  <2>6. Here.contribution = contribution
    BY DEF Here
  <2> QED BY <2>3, <2>4, <2>5, <2>6 DEF Alone
<1> QED BY <1>1, LifecycleInvariant, PTL DEF Spec, DependentsFirst

(* When every continuation has run, reconciliation has caught up: every    *)
(* segment that makes something eligible refreshes, or leaves a reaction   *)
(* or a settle() to come that does.                                        *)
THEOREM ReconciliationCatchesUp ==
  ASSUME OpenWindows = {}
  PROVE  Spec => []CaughtUp
<1>1. LifecycleInv => CaughtUp
  <2> SUFFICES ASSUME LifecycleInv, Quiet, NEW c \in InstalledContributions(Here)
               PROVE  /\ contribution[c].status \notin {"starting", "stopping"}
                      /\ contribution[c].status = "active" =>
                           installation[Owner(c)].enabled /\ Eligible(Here, c)
                      /\ contribution[c].status = "waiting" => ~Eligible(Here, c)
                      /\ contribution[c].status = "disabled" => ~installation[Owner(c)].enabled
    BY Zenon DEF CaughtUp
  <2>1. /\ Here \in State /\ Placement(Here) /\ Served(Here)
        /\ \A i \in Installation : DisposalOK(Here, i)
        /\ \A d \in Contribution : PartOK(d, Here.contribution[d], Here.run[d])
        /\ \A d \in Contribution : Orderly(Here.installation[Owner(d)], Here.contribution[d])
        /\ Ready(Here)
    BY DEF LifecycleInv, Sound, PartSound, Loose, Quiet
  <2>2. /\ Here.installation = installation /\ Here.installed = installed
        /\ Here.contribution = contribution /\ Here.run = run
    BY DEF Here
  <2>3. c \in Contribution /\ Owner(c) \in Range(installed)
    BY <2>1, <2>2, ContributionsOf
  <2>4. \A d \in Contribution : \A g \in 1 .. Len(run[d]) :
          run[d][g].start \in {"none", "done"} /\ run[d][g].stop \in {"none", "done", "blocked"}
    BY <2>1, <2>2, StateFields DEF Quiet
  <2>5. ASSUME NEW d \in Contribution PROVE contribution[d].status \notin {"starting", "stopping"}
    <3>1. PartOK(d, contribution[d], run[d]) /\ Len(run[d]) \in Nat
      BY <2>1, <2>2, StateFields
    <3>2. contribution[d].status \in {"starting", "stopping"} => Len(run[d]) \in 1 .. Len(run[d])
      BY <3>1 DEF PartOK, IdleStatus
    <3> QED BY <2>4, <3>1, <3>2 DEF PartOK, Underway
  <2>6. contribution[c].status = "active" => Eligible(Here, c)
    <3> SUFFICES ASSUME contribution[c].status = "active", NEW p \in Requires[c]
                 PROVE  \E d \in FindService(Here, p) : Active(Here, d)
      BY DEF Eligible
    <3>1. PICK d \in Contribution :
            /\ p \in Provides[d] /\ contribution[d].status \notin IdleStatus
            /\ Serves(contribution[d], run[d], c, Len(run[c]), contribution[c].status)
      BY <2>1, <2>2, <2>3 DEF Served, IdleStatus
    <3>2. contribution[d].status = "active"
      BY <2>5, <3>1 DEF Serves, Ending
    <3>3. Owner(d) \in Range(installed) /\ ~installation[Owner(d)].disposed
      BY <2>1, <2>2, <3>1, Owners DEF Placement, DisposalOK, IdleStatus
    <3> QED BY <2>1, <2>2, <3>1, <3>2, <3>3, ContributionsOf DEF FindService, Active
  <2>7. contribution[c].status = "waiting" => ~Eligible(Here, c)
    <3>1. ~Pending(Here)
      BY <2>2, <2>4 DEF Pending
    <3> QED BY <2>1, <2>2, <2>3, <3>1 DEF Ready, Reconciled
  <2>8. /\ contribution[c].status = "active" => installation[Owner(c)].enabled
        /\ contribution[c].status = "disabled" => ~installation[Owner(c)].enabled
    <3>1. Orderly(installation[Owner(c)], contribution[c])
      BY <2>1, <2>2, <2>3
    <3> QED BY <3>1 DEF Orderly, Settling, IdleStatus
  <2> QED BY <2>3, <2>5, <2>6, <2>7, <2>8
<1> QED BY <1>1, LifecycleInvariant, PTL

===============================================================================
