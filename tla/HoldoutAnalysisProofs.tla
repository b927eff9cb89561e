------------------------ MODULE HoldoutAnalysisProofs ------------------------
(***************************************************************************)
(* The tie rule, for every set of episodes, of results and of files: a     *)
(* file that is accepted has the wins of the run it comes from, one for    *)
(* each episode and, once sorted, in their order, so that arms are paired  *)
(* and a candidate that passes really won more.                            *)
(***************************************************************************)
EXTENDS HoldoutAnalysis, FiniteSetTheorems, SequenceTheorems,
        WellFoundedInduction, TLAPS

Wins(records) == Cardinality({k \in DOMAIN records : records[k].won})

\* One record for each episode, and in it what the run came to.
OneEach(records, run) ==
  /\ DOMAIN records = 1..Cardinality(Episodes)
  /\ \A k \in DOMAIN records :
       /\ records[k].episode_index \in Episodes
       /\ records[k].won = (records[k].episode_index \in run.won)
  /\ \A i \in Episodes : \E k \in DOMAIN records : records[k].episode_index = i
  /\ \A j, k \in DOMAIN records :
       records[j].episode_index = records[k].episode_index => j = k

LoadedArmsAreWhole == \A arm \in DOMAIN data : OneEach(data[arm], truth[arm])

\* The arms of the first n steps of the loop over REQUIRED_ARMS.
FirstArms(n) == {REQUIRED_ARMS[k] : k \in 1..n}

LoadedInv ==
  /\ status \in {"loading", "selecting", "judging", "done", "ArtifactError"}
  /\ DOMAIN truth = DOMAIN data
  /\ \E n \in 0..4 : DOMAIN data = FirstArms(n) /\ (status = "loading" => n < 4)
  /\ status \in {"selecting", "judging", "done"} => DOMAIN data = FirstArms(4)
  /\ \A arm \in DOMAIN data :
       /\ truth[arm] \in Runs
       /\ Rate(arm) = Cardinality(truth[arm].won)
       /\ OneEach(data[arm], truth[arm])

\* The comparator set holds the leader and all that share its rate; what was
\* judged was judged against all of it.
JudgedInv ==
  /\ status \in {"judging", "done"} =>
       \A arm \in Bounded : Rate(arm) = Rate(Leader) => arm \in comparator.tied
  /\ verdict.criterion_2 =>
       /\ status = "done"
       /\ \A arm \in comparator.tied : Rate(CANDIDATE_ARM) > Rate(arm)
  /\ verdict.criterion_3 =>
       /\ status = "done"
       /\ \A arm \in comparator.tied : NoMoreContacts(arm)

AnalysisInv == LoadedInv /\ JudgedInv

-----------------------------------------------------------------------------
LEMMA MetricsWins ==
  ASSUME NEW records
  PROVE  Metrics(records).won = Wins(records)
BY DEF Metrics, Wins

LEMMA Extending ==
  ASSUME NEW T, NEW s \in Seq(T), NEW e \in T
  PROVE  /\ Len(Append(s, e)) = Len(s) + 1
         /\ \A k \in 1..Len(s) : Append(s, e)[k] = s[k]
         /\ Append(s, e)[Len(s) + 1] = e
BY AppendProperties

LEMMA TheArms ==
  /\ Bounded = {"A0", "A1", "A2-strengthened"}
  /\ Len(REQUIRED_ARMS) = 4
  /\ REQUIRED_ARMS[1] = "A0" /\ REQUIRED_ARMS[2] = "A1"
  /\ REQUIRED_ARMS[3] = "A2-strengthened" /\ REQUIRED_ARMS[4] = CANDIDATE_ARM
<1>1. Bounded = {"A0", "A1", "A2-strengthened"}
  <2>1. DOMAIN BOUNDED_ARMS = {1, 2, 3}
    BY DEF BOUNDED_ARMS
  <2>2. /\ BOUNDED_ARMS[1] = "A0" /\ BOUNDED_ARMS[2] = "A1"
        /\ BOUNDED_ARMS[3] = "A2-strengthened"
    BY DEF BOUNDED_ARMS
  <2> QED BY <2>1, <2>2 DEF Bounded, ToSet
<1> DEFINE T == {"A0", "A1", "A2-strengthened", CANDIDATE_ARM}
<1>2. BOUNDED_ARMS \in Seq(T) /\ Len(BOUNDED_ARMS) = 3
  <2>1. <<"A0", "A1", "A2-strengthened">> \in Seq(T)
    OBVIOUS
  <2>2. Len(<<"A0", "A1", "A2-strengthened">>) = 3
    OBVIOUS
  <2> QED BY <2>1, <2>2 DEF BOUNDED_ARMS
<1>3. /\ BOUNDED_ARMS[1] = "A0" /\ BOUNDED_ARMS[2] = "A1"
      /\ BOUNDED_ARMS[3] = "A2-strengthened"
  BY DEF BOUNDED_ARMS
<1>4. CANDIDATE_ARM \in T
  OBVIOUS
<1> DEFINE s == BOUNDED_ARMS
           e == CANDIDATE_ARM
<1>5. REQUIRED_ARMS = Append(s, e)
  BY DEF REQUIRED_ARMS
<1> HIDE DEF s, e, T
<1>6. s \in Seq(T) /\ e \in T /\ Len(s) = 3
  BY <1>2, <1>4 DEF s, e
<1>7. /\ Len(Append(s, e)) = 4
      /\ \A k \in 1..3 : Append(s, e)[k] = s[k]
      /\ Append(s, e)[4] = e
  <2>1. /\ Len(Append(s, e)) = Len(s) + 1
        /\ \A k \in 1..Len(s) : Append(s, e)[k] = s[k]
        /\ Append(s, e)[Len(s) + 1] = e
    BY <1>6, Extending
  <2>2. Len(s) + 1 = 4
    BY <1>6
  <2> QED BY <1>6, <2>1, <2>2
<1> QED BY <1>1, <1>3, <1>5, <1>7 DEF s, e

\* A file in which each episode has its one record holds the run's wins.
LEMMA AcceptedWins ==
  ASSUME NEW run \in Runs, NEW file \in FilesOf(run), IndicesVerified(file)
  PROVE  Wins(file) = Cardinality(run.won) /\ OneEach(file, run)
<1> DEFINE lines == {Record(run, i) : i \in Episodes \cup {Foreign}} \cup {Torn}
<1>1. PICK n \in 0..MaxLines : file \in [1..n -> lines]
  BY DEF FilesOf
<1> DEFINE idx == [k \in 1..n |-> file[k].episode_index]
           won == {k \in 1..n : file[k].won}
<1>2. n \in Nat /\ Len(file) = n /\ DOMAIN file = 1..n
  <2>1. n \in Nat
    BY AnalysisAssumption
  <2>2. file \in Seq(lines)
    BY <1>1, <2>1
  <2> QED BY <1>1, <2>1, <2>2
<1>3. IsFiniteSet(1..n) /\ Cardinality(1..n) = n
  BY <1>2, FS_Interval
<1>4. Indices(file) = {idx[k] : k \in 1..n} /\ Indices(file) = Episodes
  BY <1>2 DEF IndicesVerified, Indices
<1>5. idx \in Surjection(1..n, Episodes)
  BY <1>4 DEF Surjection
<1>6. Cardinality(Episodes) = n
  BY <1>2, <1>4 DEF IndicesVerified
<1>7. idx \in Injection(1..n, Episodes)
  BY <1>3, <1>5, <1>6, FS_Surjection
<1>8. ASSUME NEW k \in 1..n
      PROVE  /\ idx[k] \in Episodes
             /\ file[k].won = (idx[k] \in run.won)
  <2>1. idx[k] \in Episodes
    BY <1>4
  <2>2. file[k] \in lines
    BY <1>1
  <2>3. file[k] # Torn
    BY <2>1, AnalysisAssumption DEF Torn
  <2>4. PICK i \in Episodes \cup {Foreign} : file[k] = Record(run, i)
    BY <2>2, <2>3
  <2>5. /\ Record(run, i).episode_index = i
        /\ Record(run, i).won = (i \in run.won)
    BY DEF Record
  <2>6. idx[k] = i
    BY <2>4, <2>5
  <2>7. file[k].won = (idx[k] \in run.won)
    BY <2>4, <2>5, <2>6
  <2> QED BY <2>1, <2>7
<1>9. run.won \subseteq Episodes
  BY DEF Runs
<1> DEFINE f == [k \in won |-> idx[k]]
<1>10. f \in Bijection(won, run.won)
  <2>1. f \in [won -> run.won]
    BY <1>8
  <2>2. \A j, k \in won : f[j] = f[k] => j = k
    BY <1>7 DEF Injection, IsInjective
  <2>3. \A i \in run.won : \E k \in won : f[k] = i
    BY <1>4, <1>8, <1>9
  <2> HIDE DEF f, won
  <2> QED BY <2>1, <2>2, <2>3 DEF Bijection, Injection, Surjection, IsInjective
<1>11. IsFiniteSet(won)
  BY <1>3, FS_Subset
<1>12. Cardinality(won) = Cardinality(run.won)
  <2> HIDE DEF f, won
  <2>1. ExistsBijection(won, run.won)
    BY <1>10 DEF ExistsBijection
  <2> QED BY <1>11, <2>1, FS_Bijection
<1>13. won = {k \in DOMAIN file : file[k].won}
  BY <1>2
<1>14. OneEach(file, run)
  <2>1. \A j, k \in 1..n : idx[j] = idx[k] => j = k
    BY <1>7 DEF Injection, IsInjective
  <2>2. \A i \in Episodes : \E k \in 1..n : idx[k] = i
    BY <1>4
  <2> QED BY <1>2, <1>6, <1>8, <2>1, <2>2 DEF OneEach
<1> QED BY <1>12, <1>13, <1>14 DEF Wins

-----------------------------------------------------------------------------
(***************************************************************************)
(* Sorting.  A finite set of numbers has one ascending enumeration, so the *)
(* records sorted by their episodes come in the order of the episodes.     *)
(***************************************************************************)
LEMMA LeastNumber ==
  ASSUME NEW S \in SUBSET Nat, S # {}
  PROVE  \E m \in S : \A n \in S : m <= n
<1> DEFINE less == {ss \in Nat \X Nat : ss[1] < ss[2]}
<1>1. IsWellFoundedOn(less, Nat)
  BY NatLessThanWellFounded DEF OpToRel
<1>2. PICK m \in S : \A n \in S : ~(<<n, m>> \in less)
  BY <1>1, WFMin
<1>3. ASSUME NEW n \in S PROVE m <= n
  <2>1. m \in Nat /\ n \in Nat
    OBVIOUS
  <2>2. n < m => <<n, m>> \in less
    BY <2>1
  <2> QED BY <1>2, <2>1, <2>2
<1> QED BY <1>3

Enumerations(S) == {f \in Bijection(1..Cardinality(S), S) : Ascending(f)}

\* The least number goes in front of the enumeration of the others.
LEMMA PuttingFirst ==
  ASSUME NEW S \in SUBSET Nat, NEW least \in S, \A n \in S : least <= n,
         IsFiniteSet(S), NEW g \in Enumerations(S \ {least})
  PROVE  Enumerations(S) # {}
<1> DEFINE T == S \ {least}
           m == Cardinality(T)
           f == [k \in 1..(m + 1) |-> IF k = 1 THEN least ELSE g[k - 1]]
<1>1. IsFiniteSet(T) /\ m \in Nat /\ Cardinality(S) = m + 1
  <2>1. IsFiniteSet(T) /\ Cardinality(T) = Cardinality(S) - 1
    BY FS_RemoveElement
  <2>2. Cardinality(S) \in Nat /\ Cardinality(T) \in Nat
    BY <2>1, FS_CardinalityType
  <2> QED BY <2>1, <2>2
<1>2. /\ g \in [1..m -> T]
      /\ \A j, k \in 1..m : j < k => g[j] < g[k]
      /\ \A j, k \in 1..m : g[j] = g[k] => j = k
      /\ \A t \in T : \E k \in 1..m : g[k] = t
  BY DEF Enumerations, Ascending, Bijection, Injection, Surjection, IsInjective
<1> HIDE DEF m
<1>3. \A k \in 1..m : g[k] \in T /\ g[k] \in Nat /\ least < g[k]
  <2>1. ASSUME NEW k \in 1..m PROVE g[k] \in T /\ g[k] \in Nat /\ least < g[k]
    <3>1. g[k] \in T
      BY <1>2
    <3>2. least <= g[k] /\ least # g[k] /\ g[k] \in Nat /\ least \in Nat
      BY <3>1
    <3> QED BY <3>1, <3>2
  <2> QED BY <2>1
<1>4. ASSUME NEW k \in 1..(m + 1)
      PROVE  /\ k = 1 => f[k] = least
             /\ k # 1 => k - 1 \in 1..m /\ f[k] = g[k - 1]
  BY <1>1
<1>5. 1 \in 1..(m + 1) /\ \A k \in 1..m : k + 1 \in 1..(m + 1) /\ k + 1 # 1
  BY <1>1
<1> HIDE DEF f
<1>6. ASSUME NEW j \in 1..(m + 1), NEW k \in 1..(m + 1), j < k
      PROVE  f[j] < f[k]
  <2>1. k # 1 /\ k - 1 \in 1..m /\ f[k] = g[k - 1]
    BY <1>1, <1>4, <1>6
  <2>2. CASE j = 1
    BY <1>3, <1>4, <2>1, <2>2
  <2>3. CASE j # 1
    <3>1. j - 1 \in 1..m /\ f[j] = g[j - 1] /\ j - 1 < k - 1
      BY <1>1, <1>4, <1>6, <2>3
    <3> QED BY <1>2, <2>1, <3>1
  <2> QED BY <2>2, <2>3
<1>7. f \in [1..(m + 1) -> S]
  <2>1. ASSUME NEW k \in 1..(m + 1) PROVE f[k] \in S
    <3>1. CASE k = 1
      BY <1>4, <3>1
    <3>2. CASE k # 1
      BY <1>2, <1>4, <3>2
    <3> QED BY <3>1, <3>2
  <2> QED BY <2>1 DEF f
<1>8. ASSUME NEW j \in 1..(m + 1), NEW k \in 1..(m + 1), f[j] = f[k]
      PROVE  j = k
  <2>1. f[j] \in Nat /\ f[k] \in Nat
    BY <1>7
  <2>2. ~(j < k) /\ ~(k < j)
    BY <1>6, <1>8, <2>1
  <2> QED BY <1>1, <2>2
<1>9. ASSUME NEW s \in S PROVE \E k \in 1..(m + 1) : f[k] = s
  <2>1. CASE s = least
    BY <1>4, <1>5, <2>1
  <2>2. CASE s # least
    <3>1. PICK k \in 1..m : g[k] = s
      BY <1>2, <2>2
    <3>2. k + 1 \in 1..(m + 1) /\ k + 1 # 1 /\ (k + 1) - 1 = k
      BY <1>5
    <3>3. f[k + 1] = g[(k + 1) - 1]
      BY <1>4, <3>2
    <3> QED BY <3>1, <3>2, <3>3
  <2> QED BY <2>1, <2>2
<1>10. f \in Bijection(1..(m + 1), S)
  BY <1>7, <1>8, <1>9 DEF Bijection, Injection, Surjection, IsInjective
<1>11. DOMAIN f = 1..(m + 1)
  BY <1>7
<1>12. Ascending(f)
  BY <1>6, <1>11 DEF Ascending
<1> QED BY <1>1, <1>10, <1>12 DEF Enumerations

\* Of the sets without an enumeration none is the smallest.
LEMMA NumbersEnumerate ==
  ASSUME NEW S \in SUBSET Nat, IsFiniteSet(S)
  PROVE  Enumerations(S) # {}
<1> DEFINE Without == {X \in SUBSET Nat : IsFiniteSet(X) /\ Enumerations(X) = {}}
           Sizes == {Cardinality(X) : X \in Without}
<1> SUFFICES ASSUME S \in Without PROVE FALSE
  OBVIOUS
<1>1. Sizes \in SUBSET Nat /\ Sizes # {}
  BY FS_CardinalityType
<1>2. PICK c \in Sizes : \A d \in Sizes : c <= d
  BY <1>1, LeastNumber
<1>3. PICK X \in Without : Cardinality(X) = c
  BY <1>2
<1>4. X \in SUBSET Nat /\ IsFiniteSet(X) /\ Enumerations(X) = {}
  BY <1>3
<1>5. X # {}
  <2> SUFFICES ASSUME X = {} PROVE FALSE
    OBVIOUS
  <2> DEFINE f == [k \in 1..0 |-> 0]
  <2>1. Cardinality(X) = 0 /\ 1..0 = {}
    BY FS_EmptySet
  <2>2. f \in Bijection(1..0, {}) /\ Ascending(f)
    BY <2>1 DEF Bijection, Injection, Surjection, IsInjective, Ascending
  <2> QED BY <1>4, <2>1, <2>2 DEF Enumerations
<1>6. PICK least \in X : \A n \in X : least <= n
  BY <1>4, <1>5, LeastNumber
<1>7. Enumerations(X \ {least}) = {}
  BY <1>4, <1>6, PuttingFirst
<1>8. /\ IsFiniteSet(X \ {least})
      /\ Cardinality(X \ {least}) = Cardinality(X) - 1
  BY <1>4, FS_RemoveElement
<1>9. X \ {least} \in Without
  BY <1>4, <1>7, <1>8
<1>10. c - 1 \in Sizes /\ c \in Nat
  BY <1>1, <1>2, <1>3, <1>8, <1>9
<1> QED BY <1>2, <1>10

\* Where two enumerations first differ, one of them has missed a number.
LEMMA EnumerationsAgree ==
  ASSUME NEW n \in Nat, NEW S \in SUBSET Nat,
         NEW f \in Bijection(1..n, S), NEW g \in Bijection(1..n, S),
         Ascending(f), Ascending(g)
  PROVE  f = g
<1> DEFINE Apart == {k \in 1..n : f[k] # g[k]}
<1>1. /\ f \in [1..n -> S] /\ g \in [1..n -> S]
      /\ \A s \in S : \E k \in 1..n : f[k] = s
      /\ \A s \in S : \E k \in 1..n : g[k] = s
      /\ \A j, k \in 1..n : f[j] = f[k] => j = k
      /\ \A j, k \in 1..n : g[j] = g[k] => j = k
  BY DEF Bijection, Injection, Surjection, IsInjective
<1>2. /\ \A j, k \in 1..n : j < k => f[j] < f[k]
      /\ \A j, k \in 1..n : j < k => g[j] < g[k]
  BY <1>1 DEF Ascending
<1>3. Apart = {}
  <2> SUFFICES ASSUME Apart # {} PROVE FALSE
    OBVIOUS
  <2>1. PICK k \in Apart : \A j \in Apart : k <= j
    <3>1. Apart \in SUBSET Nat
      OBVIOUS
    <3> QED BY <3>1, LeastNumber
  <2>2. k \in 1..n /\ f[k] # g[k]
    BY <2>1
  <2>3. \A j \in 1..n : j < k => f[j] = g[j]
    BY <2>1, <2>2
  <2>4. f[k] \in S /\ g[k] \in S /\ f[k] \in Nat /\ g[k] \in Nat
    BY <1>1, <2>2
  <2>5. CASE f[k] < g[k]
    <3>1. PICK j \in 1..n : g[j] = f[k]
      BY <1>1, <2>4
    <3>2. j < k
      <4>1. j # k /\ ~(k < j)
        BY <1>2, <2>2, <2>4, <2>5, <3>1
      <4> QED BY <2>2, <4>1
    <3>3. f[j] = f[k] /\ j # k
      BY <2>3, <3>1, <3>2
    <3> QED BY <1>1, <2>2, <3>3
  <2>6. CASE g[k] < f[k]
    <3>1. PICK j \in 1..n : f[j] = g[k]
      BY <1>1, <2>4
    <3>2. j < k
      <4>1. j # k /\ ~(k < j)
        BY <1>2, <2>2, <2>4, <2>6, <3>1
      <4> QED BY <2>2, <4>1
    <3>3. g[j] = g[k] /\ j # k
      BY <2>3, <3>1, <3>2
    <3> QED BY <1>1, <2>2, <3>3
  <2> QED BY <2>2, <2>4, <2>5, <2>6
<1>4. \A k \in 1..n : f[k] = g[k]
  BY <1>3
<1> QED BY <1>1, <1>4

LEMMA OrderEnumerates == Order \in Enumerations(Episodes)
<1>1. Enumerations(Episodes) # {}
  BY NumbersEnumerate, AnalysisAssumption
<1>2. \E f \in Bijection(1..Cardinality(Episodes), Episodes) : Ascending(f)
  BY <1>1 DEF Enumerations
<1> QED BY <1>2 DEF Order, Enumerations

\* Sorted, the k-th record of a whole file is the k-th episode's.
LEMMA SortedByEpisode ==
  ASSUME NEW records, NEW run, OneEach(records, run)
  PROVE  Values(records) = [k \in DOMAIN Order |-> Order[k] \in run.won]
<1> DEFINE n == Cardinality(Episodes)
           index(k) == records[k].episode_index
<1>1. n \in Nat /\ Episodes \in SUBSET Nat
  BY AnalysisAssumption, FS_CardinalityType
<1>2. DOMAIN records = 1..n
  BY DEF OneEach
<1>3. Order \in Bijection(1..n, Episodes) /\ Ascending(Order)
  BY OrderEnumerates DEF Enumerations
<1>4. /\ Order \in [1..n -> Episodes]
      /\ \A j, k \in 1..n : Order[j] = Order[k] => j = k
      /\ \A i \in Episodes : \E k \in 1..n : Order[k] = i
  BY <1>3 DEF Bijection, Injection, Surjection, IsInjective
<1>5. \A j, k \in 1..n : j < k => Order[j] < Order[k]
  BY <1>3, <1>4 DEF Ascending
<1>6. /\ \A k \in 1..n : index(k) \in Episodes
      /\ \A i \in Episodes : \E k \in 1..n : index(k) = i
      /\ \A j, k \in 1..n : index(j) = index(k) => j = k
      /\ \A k \in 1..n : records[k].won = (index(k) \in run.won)
  BY <1>2 DEF OneEach
<1> DEFINE sorted(p) == \A j, k \in 1..n : j < k =>
             \/ index(p[j]) < index(p[k])
             \/ index(p[j]) = index(p[k]) /\ p[j] < p[k]
           at == [k \in 1..n |-> CHOOSE r \in 1..n : index(r) = Order[k]]
           p == ByEpisode(records)
<1> HIDE DEF n, index
<1>7. \A k \in 1..n : at[k] \in 1..n /\ index(at[k]) = Order[k]
  <2>1. ASSUME NEW k \in 1..n PROVE at[k] \in 1..n /\ index(at[k]) = Order[k]
    <3>1. \E r \in 1..n : index(r) = Order[k]
      BY <1>4, <1>6
    <3> QED BY <3>1
  <2> QED BY <2>1
<1>8. at \in Bijection(1..n, 1..n)
  <2>1. at \in [1..n -> 1..n]
    BY <1>7
  <2>2. \A j, k \in 1..n : at[j] = at[k] => j = k
    BY <1>4, <1>7
  <2>3. ASSUME NEW r \in 1..n PROVE \E k \in 1..n : at[k] = r
    <3>1. PICK k \in 1..n : Order[k] = index(r)
      BY <1>4, <1>6
    <3>2. at[k] = r
      BY <1>6, <1>7, <3>1
    <3> QED BY <3>2
  <2> HIDE DEF at
  <2> QED BY <2>1, <2>2, <2>3 DEF Bijection, Injection, Surjection, IsInjective
<1>9. sorted(at)
  BY <1>5, <1>7
<1>10. p \in Bijection(1..n, 1..n) /\ sorted(p)
  <2>1. \E q \in Bijection(1..n, 1..n) : sorted(q)
    BY <1>8, <1>9
  <2>2. p = CHOOSE q \in Bijection(1..n, 1..n) : sorted(q)
    BY <1>2 DEF ByEpisode, index
  <2> HIDE DEF sorted, p
  <2> QED BY <2>1, <2>2
<1> HIDE DEF at, p
<1>11. /\ p \in [1..n -> 1..n]
       /\ \A j, k \in 1..n : p[j] = p[k] => j = k
       /\ \A r \in 1..n : \E k \in 1..n : p[k] = r
  BY <1>10 DEF Bijection, Injection, Surjection, IsInjective
<1> DEFINE h == [k \in 1..n |-> index(p[k])]
<1>12. h \in Bijection(1..n, Episodes)
  <2>1. h \in [1..n -> Episodes]
    BY <1>6, <1>11
  <2>2. \A j, k \in 1..n : h[j] = h[k] => j = k
    BY <1>6, <1>11
  <2>3. ASSUME NEW i \in Episodes PROVE \E k \in 1..n : h[k] = i
    <3>1. PICK r \in 1..n : index(r) = i
      BY <1>6
    <3>2. PICK k \in 1..n : p[k] = r
      BY <1>11
    <3> QED BY <3>1, <3>2
  <2> HIDE DEF h
  <2> QED BY <2>1, <2>2, <2>3 DEF Bijection, Injection, Surjection, IsInjective
<1>13. Ascending(h)
  <2>1. ASSUME NEW j \in 1..n, NEW k \in 1..n, j < k PROVE h[j] < h[k]
    <3>1. p[j] # p[k]
      BY <1>1, <1>11, <2>1 DEF n
    <3>2. index(p[j]) # index(p[k])
      BY <1>6, <1>11, <3>1
    <3> QED BY <1>10, <2>1, <3>2
  <2> QED BY <2>1 DEF Ascending
<1>14. h = Order
  <2> HIDE DEF h
  <2> QED BY <1>1, <1>3, <1>12, <1>13, EnumerationsAgree DEF n
<1>15. \A k \in 1..n : records[p[k]].won = (Order[k] \in run.won)
  <2>1. ASSUME NEW k \in 1..n PROVE records[p[k]].won = (Order[k] \in run.won)
    <3>1. p[k] \in 1..n /\ index(p[k]) = Order[k]
      BY <1>11, <1>14
    <3>2. records[p[k]].won = (index(p[k]) \in run.won)
      BY <1>6, <3>1
    <3> QED BY <3>1, <3>2
  <2> QED BY <2>1
<1>16. DOMAIN Order = 1..n
  BY <1>4
<1>17. Values(records) = [k \in 1..n |-> records[p[k]].won]
  BY <1>2 DEF Values, p
<1> QED BY <1>15, <1>16, <1>17

-----------------------------------------------------------------------------
\* The leader is a bounded arm with the highest rate.
LEMMA LeaderLeads ==
  ASSUME \A arm \in Bounded : Rate(arm) \in Nat
  PROVE  /\ Leader \in Bounded
         /\ \A arm \in Bounded : Rate(arm) <= Rate(Leader)
<1> DEFINE first(arm) ==
             /\ \A other \in Bounded : Rate(other) <= Rate(arm)
             /\ \E k \in DOMAIN BOUNDED_ARMS :
                  /\ BOUNDED_ARMS[k] = arm
                  /\ \A j \in 1..(k - 1) : Rate(BOUNDED_ARMS[j]) < Rate(arm)
           a == Rate("A0")
           b == Rate("A1")
           c == Rate("A2-strengthened")
<1>1. a \in Nat /\ b \in Nat /\ c \in Nat
  BY TheArms
<1>2. DOMAIN BOUNDED_ARMS = {1, 2, 3}
  BY DEF BOUNDED_ARMS
<1>3. /\ BOUNDED_ARMS[1] = "A0" /\ BOUNDED_ARMS[2] = "A1"
      /\ BOUNDED_ARMS[3] = "A2-strengthened"
  BY DEF BOUNDED_ARMS
<1>4. 1..(1 - 1) = {} /\ 1..(2 - 1) = {1} /\ 1..(3 - 1) = {1, 2}
  OBVIOUS
<1>5. CASE b <= a /\ c <= a
  <2>1. \A other \in Bounded : Rate(other) <= Rate("A0")
    BY <1>1, <1>5, TheArms
  <2>2. \A j \in 1..(1 - 1) : Rate(BOUNDED_ARMS[j]) < Rate("A0")
    BY <1>4
  <2>3. first("A0")
    BY <1>2, <1>3, <2>1, <2>2
  <2> QED BY <2>3, TheArms DEF Leader
<1>6. CASE a < b /\ c <= b
  <2>1. \A other \in Bounded : Rate(other) <= Rate("A1")
    BY <1>1, <1>6, TheArms
  <2>2. \A j \in 1..(2 - 1) : Rate(BOUNDED_ARMS[j]) < Rate("A1")
    BY <1>3, <1>4, <1>6
  <2>3. first("A1")
    BY <1>2, <1>3, <2>1, <2>2
  <2> QED BY <2>3, TheArms DEF Leader
<1>7. CASE a < c /\ b < c
  <2>1. \A other \in Bounded : Rate(other) <= Rate("A2-strengthened")
    BY <1>1, <1>7, TheArms
  <2>2. \A j \in 1..(3 - 1) : Rate(BOUNDED_ARMS[j]) < Rate("A2-strengthened")
    BY <1>3, <1>4, <1>7
  <2>3. first("A2-strengthened")
    BY <1>2, <1>3, <2>1, <2>2
  <2> QED BY <2>3, TheArms DEF Leader
<1>8. (b <= a /\ c <= a) \/ (a < b /\ c <= b) \/ (a < c /\ b < c)
  <2> HIDE DEF a, b, c
  <2> QED BY <1>1
<1> QED BY <1>5, <1>6, <1>7, <1>8

\* The loop takes one more of the required arms each time.
LEMMA NextArmIsNew ==
  ASSUME NEW n \in 0..3, DOMAIN data = FirstArms(n)
  PROVE  /\ Cardinality(DOMAIN data) = n
         /\ NextArm = REQUIRED_ARMS[n + 1]
         /\ FirstArms(n + 1) = DOMAIN data \cup {NextArm}
<1>1. /\ FirstArms(0) = {}
      /\ FirstArms(1) = {"A0"}
      /\ FirstArms(2) = {"A0", "A1"}
      /\ FirstArms(3) = {"A0", "A1", "A2-strengthened"}
  <2>1. /\ 1..0 = {} /\ 1..1 = {1} /\ 1..2 = {1, 2} /\ 1..3 = {1, 2, 3}
    OBVIOUS
  <2> QED BY <2>1, TheArms DEF FirstArms
<1>2. IsFiniteSet({}) /\ Cardinality({}) = 0
  BY FS_EmptySet
<1>3. IsFiniteSet({"A0"}) /\ Cardinality({"A0"}) = 1
  BY FS_Singleton
<1>4. IsFiniteSet({"A0", "A1"}) /\ Cardinality({"A0", "A1"}) = 2
  <2>1. {"A0", "A1"} = {"A0"} \cup {"A1"} /\ "A1" \notin {"A0"}
    OBVIOUS
  <2> QED BY <1>3, <2>1, FS_AddElement
<1>5. Cardinality({"A0", "A1", "A2-strengthened"}) = 3
  <2>1. /\ {"A0", "A1", "A2-strengthened"} = {"A0", "A1"} \cup {"A2-strengthened"}
        /\ "A2-strengthened" \notin {"A0", "A1"}
    OBVIOUS
  <2> QED BY <1>4, <2>1, FS_AddElement
<1>6. Cardinality(DOMAIN data) = n
  <2>1. n = 0 \/ n = 1 \/ n = 2 \/ n = 3
    OBVIOUS
  <2> QED BY <1>1, <1>2, <1>3, <1>4, <1>5, <2>1
<1>7. NextArm = REQUIRED_ARMS[n + 1]
  BY <1>6 DEF NextArm
<1>8. 1..(n + 1) = 1..n \cup {n + 1}
  OBVIOUS
<1>9. FirstArms(n + 1) = FirstArms(n) \cup {REQUIRED_ARMS[n + 1]}
  BY <1>8 DEF FirstArms
<1> QED BY <1>6, <1>7, <1>9

LEMMA LoadKeepsInv == LoadedInv /\ LoadArm => LoadedInv'
<1> SUFFICES ASSUME LoadedInv, LoadArm PROVE LoadedInv'
  OBVIOUS
<1>1. status = "loading"
  BY DEF LoadArm, Loading
<1>2. PICK n \in 0..3 : DOMAIN data = FirstArms(n)
  <2>1. PICK n \in 0..4 : DOMAIN data = FirstArms(n) /\ n < 4
    BY <1>1 DEF LoadedInv
  <2> QED BY <2>1
<1>3. PICK run \in Runs : \E file \in FilesOf(run) :
        /\ \E other \in Runs : Accepted(file, other)
        /\ truth' = Extended(truth, NextArm, run)
        /\ data' = Extended(data, NextArm, file)
  BY DEF LoadArm
<1>4. PICK file \in FilesOf(run) :
        /\ \E other \in Runs : Accepted(file, other)
        /\ truth' = Extended(truth, NextArm, run)
        /\ data' = Extended(data, NextArm, file)
  BY <1>3
<1>5. /\ Cardinality(DOMAIN data) = n
      /\ FirstArms(n + 1) = DOMAIN data \cup {NextArm}
  BY <1>2, NextArmIsNew
<1>6. DOMAIN truth = DOMAIN data
  BY DEF LoadedInv
<1>7. DOMAIN truth' = FirstArms(n + 1) /\ DOMAIN data' = FirstArms(n + 1)
  BY <1>4, <1>5, <1>6 DEF Extended
<1>8. status' = IF n + 1 = 4 THEN "selecting" ELSE "loading"
  BY <1>5, TheArms DEF LoadArm
<1>9. ASSUME NEW arm \in DOMAIN data'
      PROVE  /\ truth'[arm] \in Runs
             /\ Metrics(data'[arm]).won = Cardinality(truth'[arm].won)
             /\ OneEach(data'[arm], truth'[arm])
  <2>1. CASE arm = NextArm
    <3>1. truth'[arm] = run /\ data'[arm] = file
      BY <1>4, <2>1 DEF Extended
    <3>2. IndicesVerified(file)
      BY <1>4 DEF Accepted
    <3>3. Wins(file) = Cardinality(run.won) /\ OneEach(file, run)
      BY <3>2, AcceptedWins
    <3> QED BY <3>1, <3>3, MetricsWins
  <2>2. CASE arm # NextArm
    <3>1. arm \in DOMAIN data
      BY <1>5, <1>7, <1>9, <2>2
    <3>2. truth'[arm] = truth[arm] /\ data'[arm] = data[arm]
      BY <1>4, <1>6, <2>2, <3>1 DEF Extended
    <3> QED BY <3>1, <3>2 DEF LoadedInv, Rate
  <2> QED BY <2>1, <2>2
<1>10. /\ n + 1 \in 0..4
       /\ status' = "loading" => n + 1 < 4
       /\ status' \in {"loading", "selecting"}
       /\ status' = "selecting" => n + 1 = 4
  BY <1>8
<1> QED BY <1>7, <1>9, <1>10 DEF LoadedInv, Rate, OneEach

LEMMA AnalysisStep == AnalysisInv /\ [Next]_vars => AnalysisInv'
<1> SUFFICES ASSUME AnalysisInv, [Next]_vars PROVE AnalysisInv'
  OBVIOUS
<1>1. LoadedInv /\ JudgedInv
  BY DEF AnalysisInv
<1>2. CASE LoadArm
  <2>1. LoadedInv'
    BY <1>1, <1>2, LoadKeepsInv
  <2>2. /\ status = "loading" /\ status' \in {"loading", "selecting"}
        /\ verdict' = verdict
    BY <1>2 DEF LoadArm, Loading
  <2>3. ~verdict.criterion_2 /\ ~verdict.criterion_3
    BY <1>1, <2>2 DEF JudgedInv
  <2>4. JudgedInv'
    BY <2>2, <2>3 DEF JudgedInv
  <2> QED BY <2>1, <2>4 DEF AnalysisInv
<1>3. CASE Reject
  <2>1. /\ status = "loading" /\ status' = "ArtifactError"
        /\ UNCHANGED <<truth, data, comparator, verdict>>
    BY <1>3 DEF Reject, Loading
  <2>2. LoadedInv'
    BY <1>1, <2>1 DEF LoadedInv, Rate, OneEach
  <2>3. ~verdict.criterion_2 /\ ~verdict.criterion_3
    BY <1>1, <2>1 DEF JudgedInv
  <2>4. JudgedInv'
    BY <2>1, <2>3 DEF JudgedInv
  <2> QED BY <2>2, <2>4 DEF AnalysisInv
<1>4. CASE SelectComparator
  <2>1. /\ status = "selecting" /\ status' = "judging"
        /\ UNCHANGED <<truth, data, verdict>>
    BY <1>4 DEF SelectComparator
  <2>2. PICK clear \in Intervals(Bounded, Leader) :
          comparator' = [leader |-> Leader, tied |-> Tied(clear)]
    BY <1>4 DEF SelectComparator
  <2>3. LoadedInv'
    BY <1>1, <2>1 DEF LoadedInv, Rate, OneEach
  <2>4. ASSUME NEW arm \in Bounded, Rate(arm) = Rate(Leader)
        PROVE  arm \in comparator'.tied
    BY <2>2, <2>4 DEF Intervals, Tied
  <2>5. Leader' = Leader /\ \A arm : Rate(arm)' = Rate(arm)
    BY <2>1 DEF Leader, Rate
  <2>6. ~verdict.criterion_2 /\ ~verdict.criterion_3
    BY <1>1, <2>1 DEF JudgedInv
  <2>7. JudgedInv'
    BY <2>1, <2>4, <2>5, <2>6 DEF JudgedInv
  <2> QED BY <2>3, <2>7 DEF AnalysisInv
<1>5. CASE Judge
  <2>1. /\ status = "judging" /\ status' = "done"
        /\ UNCHANGED <<truth, data, comparator>>
    BY <1>5 DEF Judge
  <2>2. PICK clear \in Intervals(comparator.tied, CANDIDATE_ARM) :
          verdict' = [criterion_2 |-> \A arm \in comparator.tied : Beats(arm, clear),
                      criterion_3 |-> \A arm \in comparator.tied : NoMoreContacts(arm)]
    BY <1>5 DEF Judge
  <2>3. LoadedInv'
    BY <1>1, <2>1 DEF LoadedInv, Rate, OneEach
  <2>4. verdict'.criterion_2 =>
          \A arm \in comparator.tied : Rate(CANDIDATE_ARM) > Rate(arm)
    BY <2>2 DEF Beats
  <2>5. verdict'.criterion_3 => \A arm \in comparator.tied : NoMoreContacts(arm)
    BY <2>2
  <2>6. \A arm \in Bounded : Rate(arm) = Rate(Leader) => arm \in comparator.tied
    BY <1>1, <2>1 DEF JudgedInv
  <2>7. /\ Leader' = Leader
        /\ \A arm : Rate(arm)' = Rate(arm)
        /\ \A arm : NoMoreContacts(arm)' = NoMoreContacts(arm)
    BY <2>1 DEF Leader, Rate, NoMoreContacts
  <2>8. JudgedInv'
    BY <2>1, <2>4, <2>5, <2>6, <2>7 DEF JudgedInv
  <2> QED BY <2>3, <2>8 DEF AnalysisInv
<1>6. CASE UNCHANGED vars
  <2>1. UNCHANGED <<truth, data, comparator, verdict, status>>
    BY <1>6 DEF vars
  <2>2. LoadedInv'
    BY <1>1, <2>1 DEF LoadedInv, Rate, OneEach
  <2>3. JudgedInv'
    BY <1>1, <2>1 DEF JudgedInv, Rate, Leader, NoMoreContacts
  <2> QED BY <2>2, <2>3 DEF AnalysisInv
<1> QED BY <1>2, <1>3, <1>4, <1>5, <1>6 DEF Next, Over

LEMMA AnalysisInvariant == Spec => []AnalysisInv
<1>1. Init => AnalysisInv
  <2> SUFFICES ASSUME Init PROVE AnalysisInv
    OBVIOUS
  <2>1. /\ status = "loading" /\ DOMAIN data = {} /\ DOMAIN truth = {}
        /\ ~verdict.criterion_2 /\ ~verdict.criterion_3
    BY DEF Init, Unjudged
  <2>2. FirstArms(0) = {}
    BY DEF FirstArms
  <2>3. LoadedInv
    BY <2>1, <2>2 DEF LoadedInv
  <2>4. JudgedInv
    BY <2>1 DEF JudgedInv
  <2> QED BY <2>3, <2>4 DEF AnalysisInv
<1> QED BY <1>1, AnalysisStep, PTL DEF Spec

\* What the comparisons are made of, before it is sorted: for every set of
\* episodes and of files, an arm that was accepted has one record for each
\* episode of its run, with that episode's result, and none besides.
THEOREM AcceptedFilesAreWhole == Spec => []LoadedArmsAreWhole
<1>1. AnalysisInv => LoadedArmsAreWhole
  BY DEF AnalysisInv, LoadedInv, LoadedArmsAreWhole
<1> QED BY <1>1, AnalysisInvariant, PTL

\* What the comparisons are made of: for every set of episodes and of files, the
\* values of an accepted arm, sorted, are the results of its run, episode by
\* episode, so that any two arms are paired by position as by episode.
THEOREM ComparedArePaired == Spec => []AcceptedDataIsTheRun
<1>1. LoadedArmsAreWhole => AcceptedDataIsTheRun
  BY SortedByEpisode DEF LoadedArmsAreWhole, AcceptedDataIsTheRun
<1> QED BY <1>1, AcceptedFilesAreWhole, PTL

\* The tie rule can only add obligations: for every set of episodes, of results
\* and of files, a candidate that passes criterion 2 won more episodes than every
\* bounded arm, tied or not, and one that passes criterion 3 keeps to the
\* contacts of every arm with the highest rate, whichever is called the leader.
THEOREM PassingIsEarned == Spec => []PassingBeatsEveryBoundedArm
<1>1. AnalysisInv => PassingBeatsEveryBoundedArm
  <2> SUFFICES ASSUME AnalysisInv PROVE PassingBeatsEveryBoundedArm
    OBVIOUS
  <2>1. LoadedInv /\ JudgedInv
    BY DEF AnalysisInv
  <2>2. ASSUME verdict.criterion_2, NEW arm \in Bounded
        PROVE  Cardinality(truth[arm].won)
                 < Cardinality(truth[CANDIDATE_ARM].won)
    <3>1. status = "done" /\ DOMAIN data = FirstArms(4)
      BY <2>1, <2>2 DEF JudgedInv, LoadedInv
    <3>2. Bounded \cup {CANDIDATE_ARM} \subseteq DOMAIN data
      <4>1. 1..4 = {1, 2, 3, 4}
        OBVIOUS
      <4> QED BY <3>1, <4>1, TheArms DEF FirstArms
    <3>3. \A a \in Bounded \cup {CANDIDATE_ARM} :
            /\ Rate(a) = Cardinality(truth[a].won)
            /\ Rate(a) \in Nat
      <4>1. ASSUME NEW a \in Bounded \cup {CANDIDATE_ARM}
            PROVE  /\ Rate(a) = Cardinality(truth[a].won)
                   /\ Rate(a) \in Nat
        <5>1. truth[a] \in Runs /\ Rate(a) = Cardinality(truth[a].won)
          BY <2>1, <3>2 DEF LoadedInv
        <5>2. truth[a].won \in SUBSET Episodes
          BY <5>1 DEF Runs
        <5>3. Cardinality(truth[a].won) \in Nat
          BY <5>2, AnalysisAssumption, FS_Subset, FS_CardinalityType
        <5> QED BY <5>1, <5>3
      <4> QED BY <4>1
    <3>4. Leader \in Bounded /\ Rate(arm) <= Rate(Leader)
      BY <3>3, LeaderLeads
    <3>5. Rate(CANDIDATE_ARM) > Rate(Leader)
      BY <2>1, <2>2, <3>1, <3>4 DEF JudgedInv
    <3>6. Rate(arm) < Rate(CANDIDATE_ARM)
      BY <3>3, <3>4, <3>5
    <3> QED BY <3>3, <3>6
  <2>3. ASSUME verdict.criterion_3, NEW arm \in Bounded, Rate(arm) = Rate(Leader)
        PROVE  NoMoreContacts(arm)
    BY <2>1, <2>3 DEF JudgedInv
  <2> QED BY <2>2, <2>3 DEF PassingBeatsEveryBoundedArm
<1> QED BY <1>1, AnalysisInvariant, PTL


=============================================================================
