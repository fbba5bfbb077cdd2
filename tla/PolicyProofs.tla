---------------------------- MODULE PolicyProofs ----------------------------
(***************************************************************************)
(* The verdicts of the policy engine follow from the history, for every    *)
(* profile in which a field is judged by one rule, every telemetry, and    *)
(* runs of every length.                                                   *)
(*                                                                         *)
(* The counters of a rule's field are its run length and the number of     *)
(* its violations in the history; Evaluate's loop moves them once, at the  *)
(* rule.  A field that two rules judge has one pair of counters for both,  *)
(* which is why the hypothesis is needed.                                  *)
(***************************************************************************)
EXTENDS Policy, DataLemmas, FiniteSetTheorems

\* The profiles judge each field by one rule.  A rule of an unknown type judges
\* nothing.
OneRuleJudges ==
    \A p \in Profiles : \A j, k \in DOMAIN p :
        j # k /\ p[j].rule_type # "unknown" /\ p[k].rule_type # "unknown" =>
            p[j].field # p[k].field

\* The types of the state.
PolicyType ==
    /\ profile \in Seq(Rules) /\ (profile = <<>> \/ profile \in Profiles)
    /\ consecutive \in [Fields -> Nat] /\ total \in [Fields -> Nat]
    /\ history \in Seq(Telemetry)

\* The counters of a field are those of the rule that judges it.
CountersFollow ==
    \A k \in DOMAIN profile :
        profile[k].rule_type # "unknown" =>
            /\ consecutive[profile[k].field] = RunLength(profile[k])
            /\ total[profile[k].field] = Cardinality(Broken(profile[k]))

PolicyInv == PolicyType /\ CountersFollow /\ VerdictFollowsHistory

-----------------------------------------------------------------------------
\* The epochs that broke the rule in a row, up to now.
InRow(rule) == {n \in Judged(rule) : \A m \in Judged(rule) : m >= n => m \in Broken(rule)}

\* The sets of epochs that the counters count are finite.
LEMMA EpochsFinite ==
    ASSUME NEW rule, history \in Seq(Telemetry)
    PROVE  /\ IsFiniteSet(Judged(rule)) /\ IsFiniteSet(Broken(rule))
           /\ IsFiniteSet(InRow(rule))
           /\ Judged(rule) \subseteq 1 .. Len(history)
<1>1. DOMAIN history = 1 .. Len(history) /\ Len(history) \in Nat
  OBVIOUS
<1>2. IsFiniteSet(1 .. Len(history))
  BY <1>1, FS_Interval
<1>3. Judged(rule) \subseteq 1 .. Len(history)
  BY <1>1 DEF Judged
<1>4. IsFiniteSet(Judged(rule))
  BY <1>2, <1>3, FS_Subset
<1>5. Broken(rule) \subseteq Judged(rule) /\ InRow(rule) \subseteq Judged(rule)
  BY DEF Broken, InRow
<1> QED BY <1>3, <1>4, <1>5, FS_Subset

\* How a snapshot moves the two numbers of a rule.
LEMMA HistoryGrows ==
    ASSUME NEW rule, NEW t \in Telemetry, history \in Seq(Telemetry),
           history' = Append(history, t)
    PROVE  /\ Skipped(rule, t) =>
                /\ RunLength(rule)' = RunLength(rule)
                /\ Cardinality(Broken(rule))' = Cardinality(Broken(rule))
                /\ Len(history') \notin Broken(rule)'
           /\ ~Skipped(rule, t) /\ ~Violated(rule, t) =>
                /\ RunLength(rule)' = 0
                /\ Cardinality(Broken(rule))' = Cardinality(Broken(rule))
                /\ Len(history') \notin Broken(rule)'
           /\ ~Skipped(rule, t) /\ Violated(rule, t) =>
                /\ RunLength(rule)' = RunLength(rule) + 1
                /\ Cardinality(Broken(rule))' = Cardinality(Broken(rule)) + 1
                /\ Len(history') \in Broken(rule)'
<1> DEFINE new == Len(history) + 1
           J == Judged(rule)
           B == Broken(rule)
           R == InRow(rule)
<1>1. /\ Len(history) \in Nat /\ new \in Nat /\ Len(history') = new
      /\ DOMAIN history' = DOMAIN history \cup {new} /\ new \notin DOMAIN history
      /\ history'[new] = t /\ \A n \in DOMAIN history : history'[n] = history[n]
  OBVIOUS
<1>2. /\ IsFiniteSet(J) /\ IsFiniteSet(B) /\ IsFiniteSet(R)
      /\ J \subseteq 1 .. Len(history) /\ B \subseteq J /\ R \subseteq J
  BY EpochsFinite DEF Broken, InRow
<1>3. \A n \in J : n \in Nat /\ n < new
  BY <1>1, <1>2
<1>4. new \notin J /\ new \notin B /\ new \notin R
  BY <1>2, <1>3
<1>5. J' = IF Skipped(rule, t) THEN J ELSE J \cup {new}
  BY <1>1 DEF Judged
<1>6. B' = IF ~Skipped(rule, t) /\ Violated(rule, t) THEN B \cup {new} ELSE B
  <2>1. B' = {n \in J' : Violated(rule, history'[n])}
    BY DEF Broken
  <2>2. B = {n \in J : Violated(rule, history[n])}
    BY DEF Broken
  <2>3. \A n \in J : history'[n] = history[n]
    BY <1>1 DEF Judged
  <2> HIDE DEF J, B
  <2>4. CASE Skipped(rule, t)
    BY <1>5, <2>1, <2>2, <2>3, <2>4
  <2>5. CASE ~Skipped(rule, t)
    BY <1>1, <1>5, <2>1, <2>2, <2>3, <2>5
  <2> QED BY <2>4, <2>5
<1>7. R' = {n \in J' : \A m \in J' : m >= n => m \in B'}
  BY DEF InRow
<1>8. R = {n \in J : \A m \in J : m >= n => m \in B}
  BY DEF InRow
<1>9. /\ RunLength(rule) = Cardinality(R) /\ RunLength(rule)' = Cardinality(R')
      /\ Cardinality(Broken(rule))' = Cardinality(B')
  BY DEF RunLength, InRow
<1> HIDE DEF J, B, R
<1>10. CASE Skipped(rule, t)
  <2>1. J' = J /\ B' = B
    BY <1>5, <1>6, <1>10
  <2>2. R' = R
    BY <1>7, <1>8, <2>1
  <2> QED BY <1>1, <1>4, <1>9, <1>10, <2>1, <2>2 DEF B
<1>11. CASE ~Skipped(rule, t) /\ ~Violated(rule, t)
  <2>1. J' = J \cup {new} /\ B' = B
    BY <1>5, <1>6, <1>11
  <2>2. \A n \in J' : n <= new
    BY <1>1, <1>3, <2>1
  <2>3. R' = {}
    BY <1>1, <1>4, <1>7, <2>1, <2>2
  <2>4. Cardinality({}) = 0
    BY FS_EmptySet
  <2> QED BY <1>1, <1>4, <1>9, <1>11, <2>1, <2>3, <2>4 DEF B
<1>12. CASE ~Skipped(rule, t) /\ Violated(rule, t)
  <2>1. J' = J \cup {new} /\ B' = B \cup {new}
    BY <1>5, <1>6, <1>12
  <2>2. ASSUME NEW n \in J PROVE n \in R' <=> n \in R
    <3>1. n \in R' <=> \A m \in J' : m >= n => m \in B'
      BY <1>7, <2>1
    <3>2. n \in R <=> \A m \in J : m >= n => m \in B
      BY <1>8
    <3>3. \A m \in J : m # new
      BY <1>4
    <3> QED BY <2>1, <3>1, <3>2, <3>3
  <2>3. new \in R'
    <3>1. \A m \in J' : m >= new => m = new
      BY <1>1, <1>3, <2>1
    <3> QED BY <1>7, <2>1, <3>1
  <2>4. R' \subseteq J' /\ R \subseteq J
    BY <1>7, <1>2
  <2>5. R' = R \cup {new}
    BY <2>1, <2>2, <2>3, <2>4
  <2>6. Cardinality(R') = Cardinality(R) + 1 /\ Cardinality(B') = Cardinality(B) + 1
    BY <1>2, <1>4, <2>1, <2>5, FS_AddElement
  <2>7. new \in B'
    BY <2>1
  <2> QED BY <1>1, <1>9, <1>12, <2>6, <2>7 DEF B
<1> QED BY <1>10, <1>11, <1>12

-----------------------------------------------------------------------------
\* Evaluate's loop, from the counters and a snapshot, up to round m.
Loop(t, m, f) ==
    f = [k \in 0 .. m |->
            IF k = 0 THEN [consecutive |-> consecutive, total |-> total, violations |-> {}]
            ELSE EvaluateRule(k, t, f[k - 1])]

\* The loop is well defined.
LEMMA LoopExists == ASSUME NEW t PROVE \A m \in Nat : \E f : Loop(t, m, f)
<1> DEFINE first == [consecutive |-> consecutive, total |-> total, violations |-> {}]
           IsLoop(m, f) == f = [k \in 0 .. m |->
                                  IF k = 0 THEN first ELSE EvaluateRule(k, t, f[k - 1])]
           S == {m \in Nat : \E f : IsLoop(m, f)}
<1> HIDE DEF first
<1>1. 0 \in S
  <2> DEFINE f == [k \in 0 .. 0 |-> first]
  <2>1. f = [k \in 0 .. 0 |-> IF k = 0 THEN first ELSE EvaluateRule(k, t, f[k - 1])]
    OBVIOUS
  <2> QED BY <2>1
<1>2. ASSUME NEW m \in Nat, m \in S PROVE m + 1 \in S
  <2>1. PICK f : f = [k \in 0 .. m |-> IF k = 0 THEN first ELSE EvaluateRule(k, t, f[k - 1])]
    BY <1>2
  <2> DEFINE g == [k \in 0 .. m + 1 |-> IF k \in 0 .. m THEN f[k] ELSE EvaluateRule(k, t, f[m])]
  <2>2. ASSUME NEW k \in 0 .. m + 1
        PROVE  g[k] = IF k = 0 THEN first ELSE EvaluateRule(k, t, g[k - 1])
    <3>1. CASE k = 0
      BY <2>1, <3>1
    <3>2. CASE k \in 1 .. m
      <4>1. f[k] = EvaluateRule(k, t, f[k - 1])
        BY <2>1, <3>2
      <4>2. g[k] = f[k] /\ g[k - 1] = f[k - 1]
        BY <3>2
      <4> QED BY <3>2, <4>1, <4>2
    <3>3. CASE k = m + 1
      <4>1. g[k] = EvaluateRule(k, t, f[m]) /\ g[k - 1] = f[m] /\ k # 0
        BY <3>3
      <4> QED BY <4>1
    <3> QED BY <3>1, <3>2, <3>3
  <2>3. g = [k \in 0 .. m + 1 |-> IF k = 0 THEN first ELSE EvaluateRule(k, t, g[k - 1])]
    BY <2>2
  <2> HIDE DEF g
  <2>4. IsLoop(m + 1, g)
    BY <2>3
  <2> HIDE DEF IsLoop
  <2> QED BY <2>4
<1> HIDE DEF S
<1>3. \A m \in Nat : m \in S
  BY <1>1, <1>2, SetInduction
<1> QED BY <1>3 DEF S, first, Loop

\* AfterRules is the last round of the loop.
LEMMA AfterRulesIsLoop ==
    ASSUME NEW t, Len(profile) \in Nat
    PROVE  \E f : Loop(t, Len(profile), f) /\ AfterRules(t) = f[Len(profile)]
<1> DEFINE f == CHOOSE f : f = [k \in 0 .. Len(profile) |->
                    IF k = 0
                    THEN [consecutive |-> consecutive, total |-> total, violations |-> {}]
                    ELSE EvaluateRule(k, t, f[k - 1])]
<1>0. \E g : Loop(t, Len(profile), g)
  BY LoopExists
<1>1. Loop(t, Len(profile), f)
  BY <1>0 DEF Loop
<1>2. AfterRules(t) = f[Len(profile)]
  BY DEF AfterRules
<1> QED BY <1>1, <1>2

\* What a snapshot makes of the counters of a rule, from those before it.
NewRun(rule, t) ==
    IF Skipped(rule, t) THEN consecutive[rule.field]
    ELSE IF Violated(rule, t) THEN consecutive[rule.field] + 1 ELSE 0

NewSum(rule, t) ==
    IF ~Skipped(rule, t) /\ Violated(rule, t) THEN total[rule.field] + 1
    ELSE total[rule.field]

Reported(rule, t) ==
    /\ ~Skipped(rule, t) /\ Violated(rule, t)
    /\ Escalates(rule, consecutive[rule.field] + 1, total[rule.field] + 1)

\* After k rounds the counters of the first k rules have moved, and no other's.
RoundState(k, t, e) ==
    /\ e = [consecutive |-> e.consecutive, total |-> e.total, violations |-> e.violations]
    /\ e.consecutive \in [Fields -> Nat] /\ e.total \in [Fields -> Nat]
    /\ e.violations = {j \in 1 .. k : Reported(profile[j], t)}
    /\ \A j \in DOMAIN profile : profile[j].rule_type # "unknown" =>
          /\ e.consecutive[profile[j].field] =
                IF j <= k THEN NewRun(profile[j], t) ELSE consecutive[profile[j].field]
          /\ e.total[profile[j].field] =
                IF j <= k THEN NewSum(profile[j], t) ELSE total[profile[j].field]

\* A round of the loop moves the counters of its rule.
LEMMA OneRound ==
    ASSUME PolicyType, OneRuleJudges, NEW t, NEW k \in Nat, k + 1 \in DOMAIN profile,
           NEW e, RoundState(k, t, e)
    PROVE  RoundState(k + 1, t, EvaluateRule(k + 1, t, e))
<1> DEFINE n == k + 1
           rule == profile[n]
           f == rule.field
           d == EvaluateRule(n, t, e)
<1>1. /\ profile \in Seq(Rules) /\ n \in Nat /\ n \in 1 .. Len(profile)
      /\ DOMAIN profile = 1 .. Len(profile)
  BY DEF PolicyType
<1>2. f \in Fields /\ \A j \in DOMAIN profile : profile[j].field \in Fields
  <2>1. \A r \in Rules : r.field \in Fields
    BY DEF Rules
  <2>2. \A j \in DOMAIN profile : profile[j] \in Rules
    BY <1>1
  <2> QED BY <1>1, <2>1, <2>2
<1>3. /\ e = [consecutive |-> e.consecutive, total |-> e.total, violations |-> e.violations]
      /\ e.consecutive \in [Fields -> Nat] /\ e.total \in [Fields -> Nat]
      /\ e.violations = {j \in 1 .. k : Reported(profile[j], t)}
  BY DEF RoundState
<1>4. \A j \in DOMAIN profile : profile[j].rule_type # "unknown" =>
          /\ e.consecutive[profile[j].field] =
                IF j <= k THEN NewRun(profile[j], t) ELSE consecutive[profile[j].field]
          /\ e.total[profile[j].field] =
                IF j <= k THEN NewSum(profile[j], t) ELSE total[profile[j].field]
  BY DEF RoundState
<1>5. ASSUME rule.rule_type # "unknown", NEW j \in DOMAIN profile, j # n,
             profile[j].rule_type # "unknown"
      PROVE  profile[j].field # f
  <2>1. profile \in Profiles
    <3>1. profile # <<>>
      BY <1>1
    <3> QED BY <3>1 DEF PolicyType
  <2>2. n \in DOMAIN profile
    BY <1>1
  <2> QED BY <1>5, <2>1, <2>2 DEF OneRuleJudges
<1>6. ~Skipped(rule, t) => rule.rule_type # "unknown"
  BY DEF Skipped
<1>7. rule.rule_type # "unknown" =>
         e.consecutive[f] = consecutive[f] /\ e.total[f] = total[f]
  <2>1. n \in DOMAIN profile /\ ~(n <= k)
    BY <1>1
  <2> QED BY <1>4, <2>1
<1>8. \A j \in DOMAIN profile : (j <= n <=> j <= k \/ j = n)
  BY <1>1
<1>9. 1 .. n = (1 .. k) \cup {n} /\ ~(n <= k)
  OBVIOUS
<1>10. /\ Skipped(rule, t) => d = e
       /\ ~Skipped(rule, t) /\ ~Violated(rule, t) => d = [e EXCEPT !.consecutive[f] = 0]
       /\ ~Skipped(rule, t) /\ Violated(rule, t) =>
             d = [consecutive |-> [e.consecutive EXCEPT ![f] = e.consecutive[f] + 1],
                  total |-> [e.total EXCEPT ![f] = e.total[f] + 1],
                  violations |-> IF Escalates(rule, e.consecutive[f] + 1, e.total[f] + 1)
                                 THEN e.violations \cup {n} ELSE e.violations]
  BY DEF EvaluateRule
<1> HIDE DEF d, n
<1>11. CASE Skipped(rule, t)
  <2>1. ~Reported(rule, t)
    BY <1>11 DEF Reported
  <2>2. {j \in 1 .. n : Reported(profile[j], t)} = {j \in 1 .. k : Reported(profile[j], t)}
    BY <1>9, <2>1
  <2>3. NewRun(rule, t) = consecutive[f] /\ NewSum(rule, t) = total[f]
    BY <1>11 DEF NewRun, NewSum
  <2>4. d = e
    BY <1>10, <1>11
  <2>5. ASSUME NEW j \in DOMAIN profile, profile[j].rule_type # "unknown"
        PROVE  /\ e.consecutive[profile[j].field] =
                     IF j <= n THEN NewRun(profile[j], t) ELSE consecutive[profile[j].field]
               /\ e.total[profile[j].field] =
                     IF j <= n THEN NewSum(profile[j], t) ELSE total[profile[j].field]
    <3>1. CASE j = n
      <4>1. j <= n
        BY <1>1, <3>1
      <4> QED BY <1>7, <2>3, <2>5, <3>1, <4>1
    <3>2. CASE j # n
      BY <1>4, <1>8, <2>5, <3>2
    <3> QED BY <3>1, <3>2
  <2> QED BY <1>3, <2>2, <2>4, <2>5 DEF RoundState, n, d
<1>12. CASE ~Skipped(rule, t) /\ ~Violated(rule, t)
  <2>1. ~Reported(rule, t)
    BY <1>12 DEF Reported
  <2>2. {j \in 1 .. n : Reported(profile[j], t)} = {j \in 1 .. k : Reported(profile[j], t)}
    BY <1>9, <2>1
  <2>3. NewRun(rule, t) = 0 /\ NewSum(rule, t) = total[f]
    BY <1>12 DEF NewRun, NewSum
  <2>7. d = [consecutive |-> [e.consecutive EXCEPT ![f] = 0], total |-> e.total,
             violations |-> e.violations]
    <3> DEFINE c == e.consecutive
               s == e.total
               v == e.violations
    <3>1. e = [consecutive |-> c, total |-> s, violations |-> v]
      BY <1>3
    <3>2. d = [e EXCEPT !.consecutive[f] = 0]
      BY <1>10, <1>12
    <3> HIDE DEF c, s, v
    <3>3. d = [consecutive |-> [c EXCEPT ![f] = 0], total |-> s, violations |-> v]
      BY <3>1, <3>2
    <3> QED BY <3>3 DEF c, s, v
  <2>4. /\ d.consecutive = [e.consecutive EXCEPT ![f] = 0]
        /\ d.total = e.total /\ d.violations = e.violations
    BY <2>7
  <2>5. ASSUME NEW j \in DOMAIN profile, profile[j].rule_type # "unknown"
        PROVE  /\ d.consecutive[profile[j].field] =
                     IF j <= n THEN NewRun(profile[j], t) ELSE consecutive[profile[j].field]
               /\ d.total[profile[j].field] =
                     IF j <= n THEN NewSum(profile[j], t) ELSE total[profile[j].field]
    <3>1. CASE j = n
      <4>1. j <= n
        BY <1>1, <3>1
      <4> QED BY <1>2, <1>3, <1>7, <2>3, <2>4, <2>5, <3>1, <4>1
    <3>2. CASE j # n
      <4>1. profile[j].field # f
        BY <1>5, <1>6, <1>12, <2>5, <3>2
      <4>2. d.consecutive[profile[j].field] = e.consecutive[profile[j].field]
        BY <1>2, <1>3, <2>4, <4>1
      <4> QED BY <1>4, <1>8, <2>4, <2>5, <3>2, <4>2
    <3> QED BY <3>1, <3>2
  <2>6. d.consecutive \in [Fields -> Nat]
    BY <1>2, <1>3, <2>4
  <2>8. d = [consecutive |-> d.consecutive, total |-> d.total, violations |-> d.violations]
    BY <2>7
  <2> QED BY <1>3, <2>2, <2>4, <2>5, <2>6, <2>8 DEF RoundState, n, d
<1>13. CASE ~Skipped(rule, t) /\ Violated(rule, t)
  <2>0. e.consecutive[f] = consecutive[f] /\ e.total[f] = total[f]
    BY <1>6, <1>7, <1>13
  <2>1. Reported(rule, t) <=> Escalates(rule, e.consecutive[f] + 1, e.total[f] + 1)
    BY <1>13, <2>0 DEF Reported
  <2>3. NewRun(rule, t) = e.consecutive[f] + 1 /\ NewSum(rule, t) = e.total[f] + 1
    BY <1>13, <2>0 DEF NewRun, NewSum
  <2>4. /\ d.consecutive = [e.consecutive EXCEPT ![f] = e.consecutive[f] + 1]
        /\ d.total = [e.total EXCEPT ![f] = e.total[f] + 1]
        /\ d.violations = IF Escalates(rule, e.consecutive[f] + 1, e.total[f] + 1)
                          THEN e.violations \cup {n} ELSE e.violations
    BY <1>10, <1>13
  <2>2. {j \in 1 .. n : Reported(profile[j], t)} = d.violations
    <3>1. CASE Reported(rule, t)
      <4>1. d.violations = e.violations \cup {n}
        BY <2>1, <2>4, <3>1
      <4> QED BY <1>3, <1>9, <3>1, <4>1
    <3>2. CASE ~Reported(rule, t)
      <4>1. d.violations = e.violations
        BY <2>1, <2>4, <3>2
      <4> QED BY <1>3, <1>9, <3>2, <4>1
    <3> QED BY <3>1, <3>2
  <2>5. ASSUME NEW j \in DOMAIN profile, profile[j].rule_type # "unknown"
        PROVE  /\ d.consecutive[profile[j].field] =
                     IF j <= n THEN NewRun(profile[j], t) ELSE consecutive[profile[j].field]
               /\ d.total[profile[j].field] =
                     IF j <= n THEN NewSum(profile[j], t) ELSE total[profile[j].field]
    <3>1. CASE j = n
      <4>1. j <= n
        BY <1>1, <3>1
      <4>2. d.consecutive[f] = e.consecutive[f] + 1 /\ d.total[f] = e.total[f] + 1
        BY <1>2, <1>3, <2>4
      <4> QED BY <2>3, <3>1, <4>1, <4>2
    <3>2. CASE j # n
      <4>1. profile[j].field # f
        BY <1>5, <1>6, <1>13, <2>5, <3>2
      <4>2. /\ d.consecutive[profile[j].field] = e.consecutive[profile[j].field]
            /\ d.total[profile[j].field] = e.total[profile[j].field]
        BY <1>2, <1>3, <2>4, <4>1
      <4> QED BY <1>4, <1>8, <2>5, <3>2, <4>2
    <3> QED BY <3>1, <3>2
  <2>6. d.consecutive \in [Fields -> Nat] /\ d.total \in [Fields -> Nat]
    <3>1. e.consecutive[f] + 1 \in Nat /\ e.total[f] + 1 \in Nat
      BY <1>2, <1>3
    <3> QED BY <1>2, <1>3, <2>4, <3>1
  <2>8. d = [consecutive |-> d.consecutive, total |-> d.total, violations |-> d.violations]
    BY <1>10, <1>13
  <2> QED BY <2>2, <2>5, <2>6, <2>8 DEF RoundState, n, d
<1> QED BY <1>11, <1>12, <1>13

\* What Evaluate's loop returns: the moved counters and the reported rules.
LEMMA AllRounds ==
    ASSUME PolicyType, OneRuleJudges, NEW t
    PROVE  RoundState(Len(profile), t, AfterRules(t))
<1> DEFINE m == Len(profile)
<1>1. m \in Nat /\ DOMAIN profile = 1 .. m
  BY DEF PolicyType
<1>2. PICK f : Loop(t, m, f) /\ AfterRules(t) = f[m]
  BY <1>1, AfterRulesIsLoop
<1> DEFINE S == {k \in Nat : k <= m => RoundState(k, t, f[k])}
<1> HIDE DEF m
<1>3. 0 \in S
  <2>1. f[0] = [consecutive |-> consecutive, total |-> total, violations |-> {}]
    BY <1>1, <1>2 DEF Loop
  <2>2. \A j \in DOMAIN profile : ~(j <= 0)
    BY <1>1
  <2>3. 1 .. 0 = {}
    OBVIOUS
  <2>4. consecutive \in [Fields -> Nat] /\ total \in [Fields -> Nat]
    BY DEF PolicyType
  <2>5. RoundState(0, t, f[0])
    BY <2>1, <2>2, <2>3, <2>4 DEF RoundState
  <2> QED BY <2>5
<1>4. ASSUME NEW k \in Nat, k \in S PROVE k + 1 \in S
  <2> SUFFICES ASSUME k + 1 <= m PROVE RoundState(k + 1, t, f[k + 1])
    OBVIOUS
  <2>1. f[k + 1] = EvaluateRule(k + 1, t, f[k])
    <3>1. k + 1 \in 0 .. m /\ k + 1 # 0 /\ (k + 1) - 1 = k
      BY <1>1
    <3> QED BY <1>2, <3>1 DEF Loop
  <2>2. RoundState(k, t, f[k])
    BY <1>1, <1>4
  <2>3. k + 1 \in DOMAIN profile
    BY <1>1
  <2> QED BY <2>1, <2>2, <2>3, OneRound
<1> HIDE DEF S
<1>5. \A k \in Nat : k \in S
  BY <1>3, <1>4, SetInduction
<1>6. RoundState(m, t, f[m])
  BY <1>1, <1>5 DEF S
<1> QED BY <1>2, <1>6 DEF m

\* Loading a profile restarts the counters with the history.
LEMMA StepLoad ==
    ASSUME NEW p, p = <<>> \/ p \in Profiles, LoadProfile(p)
    PROVE  PolicyInv'
<1>1. PolicyType'
  <2>1. p \in Seq(Rules)
    <3>1. CASE p = <<>>
      BY <3>1
    <3>2. CASE p \in Profiles
      BY <3>2, ProfilesAssumption
    <3> QED BY <3>1, <3>2
  <2>2. NoCounts \in [Fields -> Nat]
    BY DEF NoCounts
  <2> QED BY <2>1, <2>2 DEF PolicyType, LoadProfile
<1>2. CountersFollow'
  <2> SUFFICES ASSUME NEW k \in DOMAIN profile'
               PROVE  /\ consecutive'[profile'[k].field] = RunLength(profile[k])'
                      /\ total'[profile'[k].field] = Cardinality(Broken(profile[k]))'
    BY DEF CountersFollow
  <2>1. profile'[k].field \in Fields
    <3>1. profile'[k] \in Rules
      BY <1>1 DEF PolicyType
    <3> QED BY <3>1 DEF Rules
  <2>2. history' = <<>>
    BY DEF LoadProfile
  <2>3. RunLength(profile[k])' = 0 /\ Cardinality(Broken(profile[k]))' = 0
    <3>1. Judged(profile[k])' = {} /\ Broken(profile[k])' = {}
      BY <2>2 DEF Judged, Broken
    <3> QED BY <3>1, FS_EmptySet DEF RunLength
  <2> QED BY <2>1, <2>3 DEF LoadProfile, NoCounts
<1>3. VerdictFollowsHistory'
  BY DEF VerdictFollowsHistory, LoadProfile
<1> QED BY <1>1, <1>2, <1>3 DEF PolicyInv

\* An evaluation keeps the counters and the verdict with the history.
LEMMA StepEvaluate ==
    ASSUME OneRuleJudges, PolicyInv, NEW t \in Telemetry, Evaluate(t)
    PROVE  PolicyInv'
<1> DEFINE e == AfterRules(t)
           m == Len(profile)
<1>1. PolicyType /\ CountersFollow
  BY DEF PolicyInv
<1>2. /\ consecutive' = e.consecutive /\ total' = e.total /\ violations' = e.violations
      /\ history' = Append(history, t) /\ profile' = profile
  BY DEF Evaluate
<1>3. RoundState(m, t, e)
  BY <1>1, AllRounds
<1>4. m \in Nat /\ DOMAIN profile = 1 .. m /\ history \in Seq(Telemetry)
  BY <1>1 DEF PolicyType
<1> HIDE DEF e, m
<1>5. PolicyType'
  <2>1. e.consecutive \in [Fields -> Nat] /\ e.total \in [Fields -> Nat]
    BY <1>3 DEF RoundState
  <2>2. Append(history, t) \in Seq(Telemetry)
    BY <1>4
  <2> QED BY <1>1, <1>2, <2>1, <2>2 DEF PolicyType
<1>6. ASSUME NEW k \in DOMAIN profile, profile[k].rule_type # "unknown"
      PROVE  /\ consecutive'[profile[k].field] = NewRun(profile[k], t)
             /\ total'[profile[k].field] = NewSum(profile[k], t)
             /\ consecutive[profile[k].field] = RunLength(profile[k])
             /\ total[profile[k].field] = Cardinality(Broken(profile[k]))
  <2>1. k <= m
    BY <1>4
  <2>2. /\ e.consecutive[profile[k].field] = NewRun(profile[k], t)
        /\ e.total[profile[k].field] = NewSum(profile[k], t)
    BY <1>3, <1>6, <2>1 DEF RoundState
  <2> QED BY <1>1, <1>2, <1>6, <2>2 DEF CountersFollow
<1>7. ASSUME NEW rule
      PROVE  /\ Skipped(rule, t) =>
                  /\ RunLength(rule)' = RunLength(rule)
                  /\ Cardinality(Broken(rule))' = Cardinality(Broken(rule))
                  /\ Len(history') \notin Broken(rule)'
             /\ ~Skipped(rule, t) /\ ~Violated(rule, t) =>
                  /\ RunLength(rule)' = 0
                  /\ Cardinality(Broken(rule))' = Cardinality(Broken(rule))
                  /\ Len(history') \notin Broken(rule)'
             /\ ~Skipped(rule, t) /\ Violated(rule, t) =>
                  /\ RunLength(rule)' = RunLength(rule) + 1
                  /\ Cardinality(Broken(rule))' = Cardinality(Broken(rule)) + 1
                  /\ Len(history') \in Broken(rule)'
  BY <1>2, <1>4, HistoryGrows
<1>8. ASSUME NEW k \in DOMAIN profile, NEW rule, rule = profile[k]
      PROVE  /\ RunLength(profile[k])' = RunLength(rule)'
             /\ Broken(profile[k])' = Broken(rule)'
  BY <1>2, <1>8 DEF RunLength, Broken, Judged
<1>9. CountersFollow'
  <2> SUFFICES ASSUME NEW k \in DOMAIN profile, profile[k].rule_type # "unknown"
               PROVE  /\ consecutive'[profile[k].field] = RunLength(profile[k])'
                      /\ total'[profile[k].field] = Cardinality(Broken(profile[k]))'
    BY <1>2 DEF CountersFollow
  <2>1. PICK rule : rule = profile[k]
    OBVIOUS
  <2>2. /\ RunLength(profile[k])' = RunLength(rule)'
        /\ Cardinality(Broken(profile[k]))' = Cardinality(Broken(rule))'
    BY <1>8, <2>1
  <2>3. /\ consecutive'[rule.field] = NewRun(rule, t)
        /\ total'[rule.field] = NewSum(rule, t)
        /\ consecutive[rule.field] = RunLength(rule)
        /\ total[rule.field] = Cardinality(Broken(rule))
    BY <1>6, <2>1
  <2>4. NewRun(rule, t) = RunLength(rule)' /\ NewSum(rule, t) = Cardinality(Broken(rule))'
    <3>1. CASE Skipped(rule, t)
      BY <1>7, <2>3, <3>1 DEF NewRun, NewSum
    <3>2. CASE ~Skipped(rule, t) /\ ~Violated(rule, t)
      BY <1>7, <2>3, <3>2 DEF NewRun, NewSum
    <3>3. CASE ~Skipped(rule, t) /\ Violated(rule, t)
      BY <1>7, <2>3, <3>3 DEF NewRun, NewSum
    <3> QED BY <3>1, <3>2, <3>3
  <2> QED BY <2>1, <2>2, <2>3, <2>4
<1>10. ASSUME NEW k \in DOMAIN profile
       PROVE  Reported(profile[k], t) <=>
                 /\ Len(history') \in Broken(profile[k])'
                 /\ Escalates(profile[k], RunLength(profile[k]), Cardinality(Broken(profile[k])))'
  <2>1. PICK rule : rule = profile[k]
    OBVIOUS
  <2>2. /\ RunLength(profile[k])' = RunLength(rule)'
        /\ Broken(profile[k])' = Broken(rule)'
    BY <1>8, <2>1
  <2>3. Escalates(profile[k], RunLength(profile[k]), Cardinality(Broken(profile[k])))' <=>
           Escalates(rule, RunLength(rule)', Cardinality(Broken(rule))')
    <3>1. Cardinality(Broken(profile[k]))' = Cardinality(Broken(rule))'
      BY <2>2
    <3>2. profile'[k] = rule
      BY <1>2, <2>1
    <3> QED BY <2>2, <3>1, <3>2 DEF Escalates
  <2>4. CASE Skipped(rule, t) \/ ~Violated(rule, t)
    <3>1. ~Reported(rule, t)
      BY <2>4 DEF Reported
    <3>2. Len(history') \notin Broken(rule)'
      BY <1>7, <2>4
    <3> QED BY <2>1, <2>2, <3>1, <3>2
  <2>5. CASE ~Skipped(rule, t) /\ Violated(rule, t)
    <3>1. rule.rule_type # "unknown"
      BY <2>5 DEF Skipped
    <3>2. consecutive[rule.field] = RunLength(rule) /\ total[rule.field] = Cardinality(Broken(rule))
      BY <1>6, <2>1, <3>1
    <3>3. /\ RunLength(rule)' = RunLength(rule) + 1
          /\ Cardinality(Broken(rule))' = Cardinality(Broken(rule)) + 1
          /\ Len(history') \in Broken(rule)'
      BY <1>7, <2>5
    <3>4. Reported(rule, t) <=> Escalates(rule, RunLength(rule)', Cardinality(Broken(rule))')
      BY <2>5, <3>2, <3>3 DEF Reported
    <3> QED BY <2>1, <2>2, <2>3, <3>3, <3>4
  <2> QED BY <2>4, <2>5
<1>11. VerdictFollowsHistory'
  <2>1. e.violations = {j \in 1 .. m : Reported(profile[j], t)}
    BY <1>3 DEF RoundState
  <2>2. violations' = {j \in DOMAIN profile' : Reported(profile[j], t)}
    BY <1>2, <1>4, <2>1
  <2>3. DOMAIN profile' = DOMAIN profile
    BY <1>2
  <2>4. violations' = {k \in DOMAIN profile' :
                 /\ Len(history') \in Broken(profile[k])'
                 /\ Escalates(profile[k], RunLength(profile[k]), Cardinality(Broken(profile[k])))'}
    BY <1>10, <2>2, <2>3
  <2> QED BY <2>4 DEF VerdictFollowsHistory
<1> QED BY <1>5, <1>9, <1>11 DEF PolicyInv

\* For every profile in which one rule judges a field, the rules that a decision
\* reports are exactly those that the history since the profile was loaded
\* convicts, after any number of evaluations and profile changes.
THEOREM VerdictsFollowHistory ==
    ASSUME OneRuleJudges
    PROVE  PolicySpec => []VerdictFollowsHistory
<1>1. PolicyInit => PolicyInv
  <2> SUFFICES ASSUME PolicyInit PROVE PolicyInv
    OBVIOUS
  <2>1. profile = <<>> /\ history = <<>> /\ consecutive = NoCounts /\ total = NoCounts
    BY DEF PolicyInit
  <2>2. NoCounts \in [Fields -> Nat]
    BY DEF NoCounts
  <2>3. PolicyType
    BY <2>1, <2>2 DEF PolicyType
  <2>4. CountersFollow /\ VerdictFollowsHistory
    BY <2>1 DEF CountersFollow, VerdictFollowsHistory
  <2> QED BY <2>3, <2>4 DEF PolicyInv
<1>2. PolicyInv /\ [PolicyNext]_policyVars => PolicyInv'
  <2> SUFFICES ASSUME PolicyInv, [PolicyNext]_policyVars PROVE PolicyInv'
    OBVIOUS
  <2>1. CASE \E t \in Telemetry : Evaluate(t)
    BY <2>1, StepEvaluate
  <2>2. CASE \E p \in Profiles : LoadProfile(p)
    BY <2>2, StepLoad
  <2>3. CASE ClearProfile
    BY <2>3, StepLoad DEF ClearProfile
  <2>4. CASE UNCHANGED policyVars
    <3>1. PolicyType'
      BY <2>4 DEF policyVars, PolicyInv, PolicyType
    <3>2. CountersFollow'
      <4>1. profile' = profile /\ history' = history
        BY <2>4 DEF policyVars
      <4>2. consecutive' = consecutive /\ total' = total
        BY <2>4 DEF policyVars
      <4>3. ASSUME NEW rule
            PROVE  RunLength(rule)' = RunLength(rule) /\ Broken(rule)' = Broken(rule)
        BY <4>1 DEF RunLength, Broken, Judged
      <4>4. CountersFollow
        BY DEF PolicyInv
      <4> QED BY <4>1, <4>2, <4>3, <4>4 DEF CountersFollow
    <3>3. VerdictFollowsHistory'
      BY <2>4 DEF policyVars, PolicyInv, VerdictFollowsHistory, RunLength, Broken, Judged
    <3> QED BY <3>1, <3>2, <3>3 DEF PolicyInv
  <2> QED BY <2>1, <2>2, <2>3, <2>4 DEF PolicyNext
<1>3. PolicyInv => VerdictFollowsHistory
  BY DEF PolicyInv
<1> QED BY <1>1, <1>2, <1>3, PTL DEF PolicySpec
=============================================================================
