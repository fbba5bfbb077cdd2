------------------------------- MODULE Policy -------------------------------
(***************************************************************************)
(* The policy engine (internal/policy/engine.go): the packetizer calls     *)
(* Evaluate once per active tick with the telemetry of that tick, and the  *)
(* evaluator decides, from counters it keeps between ticks, which rules of *)
(* the loaded profile are broken for longer than their grace allows.       *)
(*                                                                         *)
(* A telemetry snapshot maps field names to integers (readings in steps of *)
(* whatever the envelopes tell apart); a field a printer does not have is  *)
(* not in its domain.  A profile is the sequence of its rules.             *)
(***************************************************************************)
EXTENDS Integers, Sequences, FiniteSets

CONSTANTS
    Profiles,   \* the profiles that may be loaded
    Telemetry,  \* the snapshots that ticks may bring
    Fields,     \* every field a rule may name
    MaxEpochs   \* bound: evaluations in a run

RuleTypes == {"absolute_minimum", "absolute_maximum", "dynamic_offset", "unknown"}

Rules == [field : Fields, target_field : Fields, rule_type : RuleTypes,
          low : Int, high : Int, allowed_consecutive : Nat, allowed_total : Nat]

ASSUME ProfilesAssumption == Profiles \subseteq Seq(Rules)
ASSUME EpochsAssumption == MaxEpochs \in Nat

VARIABLES
    profile,       \* the loaded rules; <<>> when e.profile is nil
    consecutive,   \* e.consecutive and e.total, by field; absent keys read 0
    total,
    violations,    \* the rules, by index, that the last decision reported
    history,       \* history: the snapshots since the profile was loaded
    epochs         \* evaluations so far

policyVars == <<profile, consecutive, total, violations, history, epochs>>

NoCounts == [f \in Fields |-> 0]

-----------------------------------------------------------------------------
\* The rule cannot be judged on this snapshot: Evaluate skips it.
Skipped(rule, t) ==
    \/ rule.field \notin DOMAIN t
    \/ rule.rule_type = "dynamic_offset" /\ rule.target_field \notin DOMAIN t
    \/ rule.rule_type = "unknown"

\* low and high are min_value, max_value or the deviations from the target.
Violated(rule, t) ==
    CASE rule.rule_type = "absolute_minimum" -> t[rule.field] < rule.low
      [] rule.rule_type = "absolute_maximum" -> t[rule.field] > rule.high
      [] rule.rule_type = "dynamic_offset" ->
            LET delta == t[rule.field] - t[rule.target_field]
            IN  delta < -rule.low \/ delta > rule.high

\* The grace epochs are exhausted, at these counts; an allowance of 0 is none.
Escalates(rule, run, sum) ==
    /\ rule.allowed_consecutive = 0 \/ run > rule.allowed_consecutive
    /\ rule.allowed_total = 0 \/ sum > rule.allowed_total

\* Bug: a pass does not end a run of violations.
Bug_NoResetOnPass(k, t, e) ==
    LET rule == profile[k]
        f == rule.field
        run == e.consecutive[f] + 1
        sum == e.total[f] + 1
    IN  IF Skipped(rule, t) \/ ~Violated(rule, t) THEN e
        ELSE [consecutive |-> [e.consecutive EXCEPT ![f] = run],
              total |-> [e.total EXCEPT ![f] = sum],
              violations |-> IF Escalates(rule, run, sum)
                             THEN e.violations \cup {k} ELSE e.violations]

\* One round of Evaluate's loop: what rule k makes of the counters in e.
EvaluateRule(k, t, e) ==
    LET rule == profile[k]
        f == rule.field
        run == e.consecutive[f] + 1
        sum == e.total[f] + 1
    IN  IF Skipped(rule, t) THEN e
        ELSE IF ~Violated(rule, t) THEN [e EXCEPT !.consecutive[f] = 0]
        ELSE [consecutive |-> [e.consecutive EXCEPT ![f] = run],
              total |-> [e.total EXCEPT ![f] = sum],
              violations |-> IF Escalates(rule, run, sum)
                             THEN e.violations \cup {k} ELSE e.violations]

\* The rules are evaluated in order and share the counters of their field.
AfterRules(t) ==
    LET after[k \in 0 .. Len(profile)] ==
            IF k = 0
            THEN [consecutive |-> consecutive, total |-> total, violations |-> {}]
            ELSE EvaluateRule(k, t, after[k - 1])
    IN  after[Len(profile)]

\* With no profile every snapshot passes and no counter moves.
Evaluate(t) ==
    LET e == AfterRules(t)
    IN  /\ epochs < MaxEpochs
        /\ epochs' = epochs + 1
        /\ consecutive' = e.consecutive
        /\ total' = e.total
        /\ violations' = e.violations
        /\ history' = Append(history, t)
        /\ UNCHANGED profile

\* LoadProfile of a valid document, or ClearProfile (the empty profile): the
\* counters restart.  An invalid document is refused and changes nothing.
LoadProfile(p) ==
    /\ profile' = p
    /\ consecutive' = NoCounts
    /\ total' = NoCounts
    /\ violations' = {}
    /\ history' = <<>>
    /\ UNCHANGED epochs

ClearProfile == LoadProfile(<<>>)

PolicyInit ==
    /\ profile = <<>>
    /\ consecutive = NoCounts /\ total = NoCounts
    /\ violations = {} /\ history = <<>> /\ epochs = 0

PolicyNext ==
    \/ \E t \in Telemetry : Evaluate(t)
    \/ \E p \in Profiles : LoadProfile(p)
    \/ ClearProfile

PolicySpec == PolicyInit /\ [][PolicyNext]_policyVars

-----------------------------------------------------------------------------
\* Properties.

\* The epochs at which the rule was judged, and those at which it was broken.
Judged(rule) == {n \in DOMAIN history : ~Skipped(rule, history[n])}
Broken(rule) == {n \in Judged(rule) : Violated(rule, history[n])}

\* How many judged epochs in a row, up to now, broke the rule.
RunLength(rule) ==
    Cardinality({n \in Judged(rule) : \A m \in Judged(rule) : m >= n => m \in Broken(rule)})

\* The decision follows from the whole history since the profile was loaded: a
\* rule is reported exactly when this snapshot breaks it, it was broken more
\* often in a row than its consecutive allowance and more often in total than
\* its total allowance (Evaluate: "Only escalate to a verdict violation if grace
\* epochs exhausted").  Epochs at which a sensor was absent neither count nor
\* end a run.
VerdictFollowsHistory ==
    history # <<>> =>
        violations = {k \in DOMAIN profile :
                        /\ Len(history) \in Broken(profile[k])
                        /\ Escalates(profile[k], RunLength(profile[k]),
                                     Cardinality(Broken(profile[k])))}

=============================================================================
