------------------------ MODULE ConfigurationProofs ------------------------
(***************************************************************************)
(* What Configuration's operators return, for any file and flags: routes   *)
(* and health checks that are well-typed, and of those a default where     *)
(* none is given.  With them, the facts about sequences, prefixes and      *)
(* least numbers that HandoffProofs and ProjectsProofs need as well.       *)
(***************************************************************************)
EXTENDS Configuration, FiniteSetTheorems, SequenceTheorems, WellFoundedInduction, TLAPS

USE ConfigurationAssumption
-----------------------------------------------------------------------------
(* Numbers and sequences.                                                  *)

\* A set of numbers that is not empty has a least element.
LEMMA LeastExists ==
  ASSUME NEW T, T \subseteq Nat, T # {}
  PROVE  \E x \in T : \A y \in T : x <= y
  <1>1. PICK x \in T : \A y \in T : ~ (<<y, x>> \in OpToRel(<, Nat))
    BY NatLessThanWellFounded, WFMin
  <1>2. OpToRel(<, Nat) = {ss \in Nat \X Nat : ss[1] < ss[2]}
    BY Zenon DEF OpToRel
  <1>3. ASSUME NEW y \in T PROVE x <= y
    <2>1. x \in Nat /\ y \in Nat
      OBVIOUS
    <2>2. ~(<<y, x>> \in {ss \in Nat \X Nat : ss[1] < ss[2]})
      BY <1>1, <1>2
    <2>3. <<y, x>> \in Nat \X Nat /\ <<y, x>>[1] = y /\ <<y, x>>[2] = x
      BY <2>1
    <2>4. QED
      BY <2>1, <2>2, <2>3
  <1>4. QED
    BY <1>3

\* A set of numbers up to n that is not empty has a greatest element.
LEMMA GreatestExists ==
  ASSUME NEW n \in Nat, NEW T, T \subseteq 0..n, T # {}
  PROVE  \E x \in T : \A y \in T : y <= x
  <1> DEFINE U == {n - x : x \in T}
  <1>1. U \subseteq Nat /\ U # {}
    <2>1. \A x \in T : n - x \in Nat
      OBVIOUS
    <2>2. QED
      BY <2>1
  <1>2. PICK u \in U : \A v \in U : u <= v
    BY <1>1, LeastExists
  <1>3. PICK x \in T : u = n - x
    BY <1>2
  <1>4. ASSUME NEW y \in T PROVE y <= x
    <2>1. n - y \in U
      OBVIOUS
    <2>2. n - x <= n - y /\ x \in 0..n /\ y \in 0..n
      BY <1>2, <1>3, <2>1
    <2>3. QED
      BY <2>2
  <1>5. QED
    BY <1>4

\* A function on the indices of a sequence is a sequence of the same length.
LEMMA AsLongAs ==
  ASSUME NEW S, NEW s \in Seq(S), NEW f, NEW T, f \in [DOMAIN s -> T]
  PROVE  f \in Seq(T) /\ Len(f) = Len(s) /\ (f = <<>> <=> s = <<>>)
  <1>1. Len(s) \in Nat /\ DOMAIN s = 1..Len(s)
    BY LenProperties
  <1>2. f \in [1..Len(s) -> T]
    BY <1>1
  <1>3. f \in Seq(T)
    BY <1>1, <1>2, SeqDef
  <1>4. Len(f) = Len(s)
    BY <1>1, <1>2, <1>3, LenProperties
  <1>5. QED
    BY <1>1, <1>3, <1>4, EmptySeq

\* SetToSeq makes a sequence of a finite set.
LEMMA SetToSeqType ==
  ASSUME NEW S, IsFiniteSet(S)
  PROVE  SetToSeq(S) \in Seq(S) /\ (SetToSeq(S) = <<>> <=> S = {})
  <1> DEFINE n == Cardinality(S)
  <1>1. n \in Nat /\ (n = 0 <=> S = {}) /\ ExistsBijection(1..n, S)
    BY FS_CardinalityType, FS_EmptySet
  <1>2. \E f \in [1..n -> S] : IsInjective(f)
    BY <1>1 DEF ExistsBijection, Bijection, Injection
  <1>3. SetToSeq(S) \in [1..n -> S]
    BY <1>2 DEF SetToSeq
  <1>4. SetToSeq(S) \in Seq(S)
    BY <1>1, <1>3, SeqDef
  <1>5. Len(SetToSeq(S)) = n
    BY <1>1, <1>3, <1>4, LenProperties
  <1>6. QED
    BY <1>1, <1>4, <1>5, EmptySeq

\* A prefix is as long at most, and the same as far as it goes.
LEMMA PrefixIs ==
  ASSUME NEW S, NEW s \in Seq(S), NEW t \in Seq(S)
  PROVE  IsPrefix(s, t) <=> Len(s) <= Len(t) /\ \A i \in 1..Len(s) : s[i] = t[i]
  <1>1. Len(s) \in Nat /\ Len(t) \in Nat
    BY LenProperties
  <1>2. SubSeq(s, 1, Len(s)) = s
    BY SubSeqFull
  <1>3. ASSUME Len(s) <= Len(t)
        PROVE  s = SubSeq(t, 1, Len(s)) <=> \A i \in 1..Len(s) : s[i] = t[i]
    <2> DEFINE p == SubSeq(t, 1, Len(s))
    <2>1. \A i \in 1..Len(s) : t[i] \in S
      BY <1>1, <1>3, ElementOfSeq
    <2>2. /\ p \in Seq(S) /\ Len(p) = IF 1 <= Len(s) THEN Len(s) - 1 + 1 ELSE 0
          /\ \A i \in 1..(Len(s) - 1 + 1) : p[i] = t[1 + i - 1]
      BY <1>1, <2>1, SubSeqProperties
    <2>3. Len(p) = Len(s) /\ \A i \in 1..Len(s) : p[i] = t[i]
      BY <1>1, <2>2
    <2> HIDE DEF p
    <2>4. QED
      BY <2>2, <2>3, SeqEqual
  <1>4. QED
    BY <1>2, <1>3 DEF IsPrefix
-----------------------------------------------------------------------------
(* Routes and health checks.                                               *)

\* A sequence of changed elements is a sequence of those, as long as it was.
LEMMA RoutesType ==
  ASSUME NEW file \in File, NEW flags \in Flags
  PROVE  Routes(file, flags) \in Seq(Route)
  <1> DEFINE given == GivenRoutes(file, flags)
  <1>1. given \in Seq(Route)
    BY DEF GivenRoutes, File, Flags
  <1>2. ASSUME NEW r \in Route, NEW insecure \in BOOLEAN, NEW strip \in BOOLEAN
        PROVE  [r EXCEPT !.insecure = insecure, !.strip = strip] \in Route
    BY DEF Route
  <1>3. ASSUME NEW i \in DOMAIN given
        PROVE  [given[i] EXCEPT !.insecure = @ \/ given[i].path \in flags.insecure,
                                !.strip    = @ \/ given[i].path \in flags.strip] \in Route
    <2> DEFINE insecure == given[i].insecure \/ given[i].path \in flags.insecure
               strip == given[i].strip \/ given[i].path \in flags.strip
    <2>1. given[i] \in Route
      BY <1>1, ElementOfSeq, LenProperties
    <2>2. insecure \in BOOLEAN /\ strip \in BOOLEAN
      OBVIOUS
    <2> HIDE DEF insecure, strip
    <2>3. [given[i] EXCEPT !.insecure = insecure, !.strip = strip] \in Route
      BY <1>2, <2>1, <2>2
    <2>4. QED
      BY <2>3 DEF insecure, strip
  <1>4. Routes(file, flags) \in [DOMAIN given -> Route]
    BY <1>3 DEF Routes, Mark
  <1>5. QED
    BY <1>1, <1>4, AsLongAs

\* The checks of the file, in either form.
LEMMA FileHealthType ==
  ASSUME NEW file \in File
  PROVE  FileHealth(file) \in Seq(HealthCheck)
  <1>1. file.health \in Seq(Entry)
    BY DEF File
  <1>2. ASSUME NEW e \in Entry PROVE UnmarshalYAML(e) \in HealthCheck
    <2>1. (e.required = "yes") \in BOOLEAN /\ e.scalar \in BOOLEAN
      BY DEF Entry
    <2>2. CASE e.scalar
      BY <2>2 DEF Entry, HealthCheck, UnmarshalYAML
    <2>3. CASE ~e.scalar
      <3> DEFINE required == e.required = "yes"
      <3>1. required \in BOOLEAN
        OBVIOUS
      <3> HIDE DEF required
      <3>2. [url |-> e.url, required |-> required, min |-> e.min, max |-> e.max, insecure |-> e.insecure]
            \in HealthCheck
        BY <3>1 DEF Entry, HealthCheck
      <3>3. QED
        BY <2>3, <3>2 DEF UnmarshalYAML, required
    <2>4. QED
      BY <2>1, <2>2, <2>3
  <1>3. FileHealth(file) \in [DOMAIN file.health -> HealthCheck]
    <2>1. \A i \in DOMAIN file.health : file.health[i] \in Entry
      BY <1>1, ElementOfSeq, LenProperties
    <2>2. QED
      BY <1>2, <2>1 DEF FileHealth
  <1>4. QED
    BY <1>1, <1>3, AsLongAs

\* A range changes two numbers of a check.
LEMMA WithRangesType ==
  ASSUME NEW health \in Seq(HealthCheck), NEW flags \in Flags
  PROVE  WithRanges(health, flags.ranges) \in Seq(HealthCheck)
  <1> DEFINE ranges == flags.ranges
             Span == [url : URLs, min : Nat, max : Nat]
             For(i) == {k \in DOMAIN ranges : ranges[k].url = health[i].url /\ findHealth(health, i)}
             Set(c, range) == [c EXCEPT !.min = range.min, !.max = range.max]
  <1>1. ranges \in Seq(Span)
    BY DEF Flags
  <1>2. ASSUME NEW i \in DOMAIN health, For(i) # {}
        PROVE  Max(For(i)) \in DOMAIN ranges
    <2>1. Len(ranges) \in Nat /\ DOMAIN ranges = 1..Len(ranges)
      BY <1>1, LenProperties
    <2>2. For(i) \subseteq 0..Len(ranges) /\ For(i) \subseteq DOMAIN ranges
      BY <2>1
    <2> HIDE DEF For
    <2>3. \E x \in For(i) : \A y \in For(i) : x >= y
      BY <1>2, <2>1, <2>2, GreatestExists
    <2>4. QED
      BY <2>2, <2>3 DEF Max
  <1>3. ASSUME NEW c \in HealthCheck, NEW range \in Span PROVE Set(c, range) \in HealthCheck
    BY DEF HealthCheck
  <1>4. ASSUME NEW i \in DOMAIN health
        PROVE  (IF For(i) = {} THEN health[i] ELSE Set(health[i], ranges[Max(For(i))])) \in HealthCheck
    <2>1. health[i] \in HealthCheck
      BY ElementOfSeq, LenProperties
    <2>2. For(i) # {} => ranges[Max(For(i))] \in Span
      BY <1>1, <1>2, ElementOfSeq, LenProperties
    <2> HIDE DEF For, Set, Span
    <2>3. QED
      BY <1>3, <2>1, <2>2
  <1>5. WithRanges(health, ranges) \in [DOMAIN health -> HealthCheck]
    BY <1>4 DEF WithRanges
  <1>6. QED
    BY <1>5, AsLongAs

\* Every route has a first route with its upstream, so routes have default checks.
LEMMA DefaultsType ==
  ASSUME NEW routes \in Seq(Route)
  PROVE  /\ defaultHealthChecks(routes) \in Seq(HealthCheck)
         /\ routes # <<>> => defaultHealthChecks(routes) # <<>>
  <1> DEFINE firsts == {i \in DOMAIN routes : \A j \in 1..(i - 1) : routes[j].upstream # routes[i].upstream}
             Default(i) == [url |-> routes[i].upstream, required |-> TRUE, min |-> 100, max |-> 499,
                            insecure |-> routes[i].insecure]
             one == [i \in firsts |-> Default(i)]
             all == {one[i] : i \in firsts}
  <1>1. Len(routes) \in Nat /\ DOMAIN routes = 1..Len(routes) /\ (routes # <<>> => Len(routes) # 0)
    BY LenProperties, EmptySeq
  <1>2. routes # <<>> => 1 \in firsts
    BY <1>1
  <1>3. IsFiniteSet(firsts)
    <2>1. firsts \subseteq 1..Len(routes)
      BY <1>1
    <2>2. IsFiniteSet(1..Len(routes))
      BY <1>1, FS_Interval
    <2> HIDE DEF firsts
    <2>3. QED
      BY <2>1, <2>2, FS_Subset
  <1>4. all = {Default(i) : i \in firsts}
    <2> HIDE DEF firsts, Default
    <2>1. QED
      OBVIOUS
  <1>5. defaultHealthChecks(routes) = SetToSeq(all)
    BY <1>4 DEF defaultHealthChecks
  <1>6. all \subseteq HealthCheck
    <2>1. ASSUME NEW i \in firsts PROVE one[i] \in HealthCheck
      <3>1. routes[i] \in Route
        BY <1>1, ElementOfSeq
      <3>2. QED
        BY <3>1 DEF Route, HealthCheck
    <2> HIDE DEF firsts, one
    <2>2. QED
      BY <2>1
  <1>7. one = [i \in firsts |-> one[i]]
    OBVIOUS
  <1> HIDE DEF firsts, one, Default
  <1>8. one \in Surjection(firsts, all)
    BY <1>7, SMT DEF Surjection
  <1>9. routes # <<>> => all # {}
    BY <1>2
  <1> HIDE DEF all
  <1>10. IsFiniteSet(all)
    BY <1>3, <1>8, FS_Surjection
  <1>11. SetToSeq(all) \in Seq(all) /\ (SetToSeq(all) = <<>> <=> all = {})
    BY <1>10, SetToSeqType
  <1>12. SetToSeq(all) \in Seq(HealthCheck)
    BY <1>6, <1>11
  <1>13. QED
    BY <1>5, <1>9, <1>11, <1>12

\* The checks of an up; where up accepts it, there is one at least.
LEMMA HealthType ==
  ASSUME NEW file \in File, NEW flags \in Flags
  PROVE  /\ Health(file, flags) \in Seq(HealthCheck)
         /\ Accepts(file, flags) => Health(file, flags) # <<>>
  <1> DEFINE health == WithRanges(BaseHealth(file, flags), flags.ranges)
             routes == Routes(file, flags)
  <1>1. BaseHealth(file, flags) \in Seq(HealthCheck)
    BY FileHealthType DEF BaseHealth, Flags
  <1>2. health \in Seq(HealthCheck)
    BY <1>1, WithRangesType
  <1>3. routes \in Seq(Route)
    BY RoutesType
  <1>4. defaultHealthChecks(routes) \in Seq(HealthCheck) /\ (routes # <<>> => defaultHealthChecks(routes) # <<>>)
    BY <1>3, DefaultsType
  <1>5. Accepts(file, flags) => routes # <<>>
    BY DEF Accepts, Validate
  <1> HIDE DEF routes
  <1>6. Health(file, flags) = IF health = <<>> THEN defaultHealthChecks(routes) ELSE health
    BY DEF Health, routes
  <1> HIDE DEF health
  <1>7. QED
    BY <1>2, <1>4, <1>5, <1>6
=============================================================================
