------------------------------ MODULE MCPolicy ------------------------------
(***************************************************************************)
(* Small instances of Policy: an extruder with its target and a chamber    *)
(* sensor that may be absent.                                              *)
(***************************************************************************)
EXTENDS Policy

MCFields == {"extruder", "target", "chamber", "door"}

Rule(f, t, type, min, max, runs, sums) ==
    [field |-> f, target_field |-> t, rule_type |-> type, low |-> min,
     high |-> max, allowed_consecutive |-> runs, allowed_total |-> sums]

\* Below, inside and above the envelopes; without a chamber reading too.
MCTelemetry ==
    {[extruder |-> e, target |-> 5, chamber |-> c] : e \in {3, 5}, c \in {2, 9}}
        \cup {[extruder |-> e, target |-> 5] : e \in {5, 8}}

\* At most one rule for each field; "door" is a sensor no printer has.
OneRulePerField ==
    {<<Rule("extruder", "target", "dynamic_offset", 1, 2, 1, 0),
       Rule("chamber", "chamber", "absolute_minimum", 4, 0, 1, 2)>>,
     <<Rule("chamber", "chamber", "absolute_maximum", 0, 5, 0, 2),
       Rule("extruder", "door", "dynamic_offset", 1, 1, 0, 0),
       Rule("target", "target", "unknown", 0, 0, 0, 0)>>}

\* An envelope written as a minimum and a maximum of the same field.
MinAndMax ==
    {<<Rule("chamber", "chamber", "absolute_minimum", 4, 0, 1, 0),
       Rule("chamber", "chamber", "absolute_maximum", 0, 8, 1, 0)>>}
=============================================================================
