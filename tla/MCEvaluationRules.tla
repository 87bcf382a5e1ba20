---------------------------- MODULE MCEvaluationRules ----------------------------
(* One platform, three versions, two targets, five rules. *)
EXTENDS EvaluationRules

Rule(id, applies_to, kind, args, severity) ==
    [id |-> id, applies_to |-> applies_to, predicate_kind |-> kind, args |-> args,
     severity |-> severity]

OnIsr == [platform_family |-> "isr"]

\* One rule of each way to judge: a number, a set, the lifecycle that evaluation writes,
\* tags, advice; the last is for devices of one region, whose version must be known.
FiveRules ==
    {Rule(1, OnIsr, "min_ram_mb", 2, "required"),
     Rule(2, OnIsr, "tagged_with", {"prod"}, "required"),
     Rule(3, OnIsr, "not_in_state", {"ready_for_uplift"}, "required"),
     Rule(4, OnIsr, "intermediate_version_required", 2, "required"),
     Rule(5, [region_in |-> {"eu"}], "min_current_version", 2, "recommended")}

\* The second is older and more specific; a third, newer, tests the lifecycle.
ThreeTargets ==
    {[selector |-> OnIsr, version |-> 3, loaded_at |-> 2],
     [selector |-> [platform_family |-> "isr", region_in |-> {"eu"}], version |-> 1, loaded_at |-> 1],
     [selector |-> [not_in_state |-> {"compliant"}], version |-> 1, loaded_at |-> 3]}

Edge(from, to, weight) ==
    [platform_family |-> "isr", from_version |-> from, to_version |-> to, weight |-> weight]

\* From 1 to 3 by way of 2 weighs more than the cap, or not; the direct edge always does.
FourEdges == {Edge(1, 2, 2), Edge(2, 3, 2), Edge(2, 3, 1), Edge(1, 3, 4)}

FactsToLearn == {<<"vendor_normalized", "cisco">>, <<"platform_family", "isr">>, <<"region", "eu">>,
                 <<"ram_mb", 1>>, <<"ram_mb", 2>>, <<"tags", {}>>, <<"tags", {"prod"}>>}

\* A deployment that is set up: the platform is known and targets are loaded; with all the
\* rules, none, or the first, and with or without edges.
MCInit ==
    /\ device = [NothingKnown EXCEPT !["platform_family"] = "isr"]
    /\ obs \in {[newest |-> v, latest |-> v] : v \in {1, None}}
    /\ rules \in {FiveRules, {}, {r \in FiveRules : r.id = 1}}
    /\ \E newest \in BOOLEAN : targets = {t \in ThreeTargets : t.loaded_at # 3 \/ newest}
    /\ edges \in {{}, {Edge(1, 2, 2), Edge(2, 3, 1)}} /\ packages = {}
    /\ ev = [life |-> "imported", f3 |-> NoRow, f4 |-> NoRow]
    /\ changes = 0

MCSpec == MCInit /\ [][Next]_vars
=================================================================================
