------------------------------ MODULE EvaluationRules ------------------------------
(***************************************************************************)
(* What DeviceEvaluation takes as given: how the facts of a device, its    *)
(* observations and the rows of the catalogue make a verdict.  Scope       *)
(* selectors choose the target and the prerequisite rules of a device,     *)
(* predicates and the graph of upgrade paths make the blockers, drift      *)
(* rules the reasons, and both the recommended actions.                    *)
(*                                                                         *)
(* One device; an evaluation is one step.  The races of evaluations, the   *)
(* age of observations and the exceptions of F5 are in other modules.      *)
(* Versions are numbered as their strings are ordered.                     *)
(***************************************************************************)
EXTENDS Integers, SequencesExt

CONSTANTS
    Versions,
    RuleBook,   \* prerequisite rules that the catalogue files can hold
    TargetBook, \* firmware targets, of different loaded_at
    EdgeBook,   \* edges of the upgrade graphs
    Learnable,  \* pairs of a fact and a value that imports and syncs can bring
    Reported,   \* the firmware an import row can report, None for an empty column
    ReadinessUpgradeWeightCap, \* the setting of that name
    MaxChanges, \* bound of the changes between evaluations
    None

VARIABLES
    device,   \* the facts of the row, None where nothing is known
    obs,      \* firmware of the observations: newest non-null, and of the latest observed_at
    rules, targets, edges, packages, \* live rows; versions whose package has its bytes
    ev,       \* what the evaluations leave: lifecycle_state and the latest rows of F3 and F4
    changes

catalogue == <<rules, targets, edges, packages>>
vars == <<device, obs, catalogue, ev, changes>>

DeviceFacts == {"vendor_normalized", "platform_family", "region", "site", "role",
                "hardware_revision", "tags", "ram_mb", "disk_mb", "licenses"}

\* What selectors and predicates can ask about.
Facts(state) ==
    [f \in DeviceFacts \cup {"lifecycle_state", "observed_firmware"} |->
        CASE f = "lifecycle_state"   -> state
          [] f = "observed_firmware" -> obs.latest
          [] OTHER                   -> device[f]]

---------------------------------------------------------------------------
(* Scope selectors: functions from some of the keys to what they ask for *)

ExactKeys == {"vendor_normalized", "platform_family"}
SetMembershipKeys == {"region_in", "site_in", "role_in", "hardware_revision_in"}

FactOfKey ==
    [vendor_normalized |-> "vendor_normalized", platform_family |-> "platform_family",
     region_in |-> "region", site_in |-> "site", role_in |-> "role",
     hardware_revision_in |-> "hardware_revision",
     not_in_state |-> "lifecycle_state", tagged_with |-> "tags"]

LeafMatches(key, value, fact) ==
    /\ key \in ExactKeys => fact = value
    /\ key \in SetMembershipKeys => fact # None /\ fact \in value
    /\ key = "not_in_state" => fact \notin value
    /\ key = "tagged_with" => fact # None /\ value \subseteq fact

Matches(selector, facts) ==
    \A key \in DOMAIN selector : LeafMatches(key, selector[key], facts[FactOfKey[key]])

\* What the loader lets through: keys of the vocabulary here, predicates that can be
\* dispatched and weights of at least 1 below.
IsSelector(selector) == DOMAIN selector \subseteq DOMAIN FactOfKey

Specificity(selector) ==
    Cardinality({key \in DOMAIN selector : key \in ExactKeys \/ selector[key] # {}})

\* The elements of a finite set in an order: each has its predecessors before it.
Sorted(S, Before(_, _)) ==
    [i \in 1..Cardinality(S) |-> CHOOSE b \in S : Cardinality({a \in S : Before(a, b)}) = i - 1]

ActiveTargets == Sorted(targets, LAMBDA t, u : t.loaded_at > u.loaded_at)

\* Mutant: the newest target that matches.
ResolveNewest(facts) ==
    LET active == ActiveTargets
        matched == {i \in DOMAIN active : Matches(active[i].selector, facts)}
    IN IF matched = {} THEN None ELSE active[CHOOSE i \in matched : \A j \in matched : i <= j]

\* A stable sort by descending specificity: the first of the most specific.
Resolve(facts) ==
    LET active == ActiveTargets
        matched == {i \in DOMAIN active : Matches(active[i].selector, facts)}
        rank(i) == Specificity(active[i].selector)
    IN IF matched = {} THEN None
       ELSE active[CHOOSE i \in matched :
              \A j \in matched : rank(i) > rank(j) \/ (rank(i) = rank(j) /\ i <= j)]

---------------------------------------------------------------------------
(* Prerequisites *)

BLOCKER_PREDICATE_ORDER ==
    <<"min_ram_mb", "min_disk_mb", "hardware_revision_in", "min_current_version",
      "intermediate_version_required", "missing_upgrade_path", "license_present",
      "not_in_state", "region_in", "missing_observation_field", "tagged_with">>

FactOfPredicate ==
    [min_ram_mb |-> "ram_mb", min_disk_mb |-> "disk_mb",
     hardware_revision_in |-> "hardware_revision", min_current_version |-> "observed_firmware",
     intermediate_version_required |-> "observed_firmware", license_present |-> "licenses",
     not_in_state |-> "lifecycle_state", region_in |-> "region", tagged_with |-> "tags"]

Holds(kind, args, fact) ==
    CASE kind \in {"min_ram_mb", "min_disk_mb", "min_current_version"} -> fact >= args
      [] kind \in {"hardware_revision_in", "region_in"} -> fact \in args
      [] kind = "license_present" -> args \in fact
      [] kind = "not_in_state" -> fact \notin args
      [] kind = "tagged_with" -> args \subseteq fact

BlockerOf(rule, kind, severity) ==
    {[rule_id |-> rule.id, predicate_kind |-> kind, severity |-> severity]}

\* Mutant: a fact that is not known satisfies the predicate.
EvaluateRuleTrusting(rule, facts) ==
    LET fact == facts[FactOfPredicate[rule.predicate_kind]]
    IN IF fact = None \/ rule.predicate_kind = "intermediate_version_required" THEN {}
       ELSE IF Holds(rule.predicate_kind, rule.args, fact) THEN {}
       ELSE BlockerOf(rule, rule.predicate_kind, rule.severity)

\* The blocker a rule fires, if any.  An intermediate version is advice, and so are tags
\* as long as none were ever synced; any other fact that is missing blocks.
EvaluateRule(rule, facts) ==
    LET kind == rule.predicate_kind
        fact == facts[FactOfPredicate[kind]]
    IN CASE kind = "intermediate_version_required" -> BlockerOf(rule, kind, "recommended")
         [] kind = "tagged_with" /\ fact = None ->
              IF rule.args = {} THEN {} ELSE BlockerOf(rule, kind, "recommended")
         [] kind \notin {"intermediate_version_required", "tagged_with"} /\ fact = None ->
              BlockerOf(rule, "missing_observation_field", "required")
         [] OTHER ->
              IF Holds(kind, rule.args, fact) THEN {} ELSE BlockerOf(rule, kind, rule.severity)

Index(kind) == CHOOSE i \in DOMAIN BLOCKER_PREDICATE_ORDER : BLOCKER_PREDICATE_ORDER[i] = kind

\* Severity, then kind, then rule; the blocker without a rule has the id 0.
SortsBefore(a, b) ==
    IF a.severity # b.severity THEN a.severity = "required"
    ELSE IF a.predicate_kind # b.predicate_kind
    THEN Index(a.predicate_kind) < Index(b.predicate_kind)
    ELSE a.rule_id < b.rule_id

SortBlockers(blockers) == Sorted(blockers, SortsBefore)

IsRule(rule) ==
    /\ rule.id \in Nat \ {0} /\ IsSelector(rule.applies_to)
    /\ rule.predicate_kind \in DOMAIN FactOfPredicate
    /\ rule.severity \in {"required", "recommended"}

---------------------------------------------------------------------------
(* The graph of upgrade paths of a platform family *)

IsEdge(edge) ==
    /\ edge.platform_family # None /\ edge.weight \in Nat \ {0}
    /\ {edge.from_version, edge.to_version} \subseteq Versions

PlatformEdges(platform) == {e \in edges : e.platform_family = platform}

Nodes(graph) == {e.from_version : e \in graph} \cup {e.to_version : e \in graph}

Least(S) == CHOOSE x \in S : \A y \in S : x <= y

\* The weights at a node with one more hop: those it had, and those along its edges.
Reaching(graph, weights, v) ==
    weights[v] \cup UNION {{w + e.weight : w \in weights[e.from_version]} :
                             e \in {x \in graph : x.to_version = v}}

Relax(graph, weights) ==
    [v \in Nodes(graph) |->
       LET found == Reaching(graph, weights, v) IN IF found = {} THEN {} ELSE {Least(found)}]

\* At each node the least weight of the chains to it of at most so many hops, if any.
Within(graph, from, hops) ==
    LET within[n \in 0..hops] ==
          IF n = 0 THEN [v \in Nodes(graph) |-> IF v = from THEN {0} ELSE {}]
          ELSE Relax(graph, within[n - 1])
    IN within[hops]

\* The weight of a shortest chain, None where there is no chain.
ShortestWeight(graph, from, to) ==
    LET nodes == Nodes(graph)
        weights == Within(graph, from, Cardinality(nodes))
    IN CASE from = to -> 0
         [] from # to /\ {from, to} \subseteq nodes /\ weights[to] # {} -> Least(weights[to])
         [] OTHER -> None

UpgradePathExists(row) ==
    /\ None \notin {device["platform_family"], row.target, row.observed}
    /\ LET weight == ShortestWeight(PlatformEdges(device["platform_family"]), row.observed, row.target)
       IN weight # None /\ weight <= ReadinessUpgradeWeightCap

---------------------------------------------------------------------------
(* F2 and F3 *)

\* The state and what it was found from.
Compliance(state) ==
    LET winner == Resolve(Facts(state))
        verdict == CASE winner = None -> "classified"
                     [] winner # None /\ obs.newest = None -> "unknown"
                     [] OTHER -> IF obs.newest = winner.version THEN "compliant"
                                 ELSE "outside_target"
    IN [state |-> verdict, target |-> IF winner = None THEN None ELSE winner.version,
        observed |-> obs.newest]

F2(e) == [e EXCEPT !.life = Compliance(e.life).state]

DRIFT_PRECEDENCE == <<"catalog_drift", "rule_drift", "package_drift", "target_drift",
                      "discovery_drift", "evidence_drift", "exception_drift">>
SoftDrift == {"evidence_drift", "discovery_drift"}

\* An edge to the target on this platform is enough for F3.
EdgeReaches(c) == \E e \in PlatformEdges(device["platform_family"]) : e.to_version = c.target
PackageBuilt(c) ==
    None \notin {device["vendor_normalized"], device["platform_family"]} /\ c.target \in packages

\* Pairs of a drift and its reason.  Nothing writes the evidence that would keep a
\* compliant device from evidence drift, and no rule fires exception drift.
DriftReasons(c) ==
    {pair \in
        {<<"catalog_drift", IF targets = {} THEN "empty_catalog" ELSE "no_target_matched">>,
         <<"rule_drift", "missing_upgrade_path">>, <<"package_drift", "package_not_built">>,
         <<"target_drift", "version_mismatch">>, <<"discovery_drift", "missing_observation">>,
         <<"evidence_drift", "stale_observation">>} :
      \/ pair[1] = "catalog_drift" /\ c.state = "classified"
      \/ pair[1] = "rule_drift" /\ c.state = "outside_target" /\ ~EdgeReaches(c)
      \/ pair[1] = "package_drift" /\ c.state = "outside_target" /\ ~PackageBuilt(c)
      \/ pair[1] = "target_drift" /\ c.state = "outside_target"
      \/ pair[1] = "discovery_drift" /\ c.observed = None
      \/ pair[1] = "evidence_drift" /\ c.state = "compliant"}

\* Of what the builders of actions put together only the kind is kept, here and for F4.
ComplianceActions == {"define_target", "define_upgrade_path", "upload_firmware_package",
                      "upgrade_path_query", "trigger_discovery", "request_observation_refresh"}

ActionsFor(drifts) ==
    {action \in ComplianceActions :
      CASE action = "define_target"           -> "catalog_drift" \in drifts
        [] action = "define_upgrade_path"     -> "rule_drift" \in drifts
        [] action = "upload_firmware_package" -> "package_drift" \in drifts
        [] action = "upgrade_path_query"      -> "target_drift" \in drifts /\ "rule_drift" \notin drifts
        [] action = "trigger_discovery"       -> "discovery_drift" \in drifts
        [] action = "request_observation_refresh" -> "evidence_drift" \in drifts}

\* The drifts are the primary one and then the secondary ones.
ComplianceRow(c) ==
    LET fired == {pair[1] : pair \in DriftReasons(c)}
        kept == IF c.state = "compliant" THEN fired \cap SoftDrift ELSE fired
    IN [state |-> c.state, target |-> c.target, observed |-> c.observed,
        drifts |-> SelectSeq(DRIFT_PRECEDENCE, LAMBDA d : d \in kept),
        reasons |-> {pair[2] : pair \in DriftReasons(c)}, actions |-> ActionsFor(fired)]

F3(e) == LET c == Compliance(e.life) IN [e EXCEPT !.life = c.state, !.f3 = ComplianceRow(c)]

---------------------------------------------------------------------------
(* F4 *)

MatchingRules(state) == {r \in rules : Matches(r.applies_to, Facts(state))}

PathBlockers(row) ==
    IF UpgradePathExists(row) \/ row.target = None THEN {}
    ELSE {[rule_id |-> 0, predicate_kind |-> "missing_upgrade_path", severity |-> "required"]}

HasRequired(blockers) == \E i \in DOMAIN blockers : blockers[i].severity = "required"

\* The action for a primary blocker of a kind.
ReadinessActions ==
    [kind \in Range(BLOCKER_PREDICATE_ORDER) |->
       CASE kind \in {"min_ram_mb", "min_disk_mb", "hardware_revision_in"} -> "hardware_refresh"
         [] kind = "license_present" -> "license_acquire"
         [] kind \in {"min_current_version", "intermediate_version_required",
                      "missing_upgrade_path"} -> "firmware_intermediate_step"
         [] kind = "missing_observation_field" -> "import_observation"
         [] OTHER -> "escalate_to_catalog_owner"]

BuildActions(state, blockers) ==
    IF state = "ready_for_uplift" THEN {"schedule_uplift_wave"}
    ELSE {ReadinessActions[blockers[1].predicate_kind]}

\* In place of the latest row where there is none.
NoRow == [state |-> "none", target |-> None, observed |-> None]

\* Its versions are left out: they are copied from the F3 row and never compared.
NotApplicable(reason) ==
    [state |-> "not_applicable", because |-> reason, path |-> FALSE, applicable |-> 0,
     blockers |-> <<>>, actions |-> {}, target |-> None, observed |-> None]

\* What F4 finds at a lifecycle state, from an F3 row.
Judge(state, row) ==
    IF row = NoRow THEN NotApplicable("no_compliance_evaluation")
    ELSE IF row.state # "outside_target" THEN NotApplicable(row.state)
    ELSE LET fired == UNION {EvaluateRule(r, Facts(state)) : r \in MatchingRules(state)}
             blockers == SortBlockers(fired \cup PathBlockers(row))
             verdict == IF HasRequired(blockers) THEN "blocked" ELSE "ready_for_uplift"
         IN [state |-> verdict, because |-> "", path |-> UpgradePathExists(row),
             applicable |-> Cardinality(MatchingRules(state)), blockers |-> blockers,
             actions |-> BuildActions(verdict, blockers),
             target |-> row.target, observed |-> row.observed]

\* A verdict like the latest row's writes nothing, the lifecycle included.
F4(e) ==
    LET row == Judge(e.life, e.f3)
    IN [e EXCEPT !.f4 = row,
                 !.life = IF row # e.f4 /\ row.state # "not_applicable" THEN row.state ELSE @]

---------------------------------------------------------------------------
(* The steps *)

ASSUME ConstantsAssumption ==
    /\ Versions \subseteq Nat /\ Reported \subseteq Versions \cup {None}
    /\ None \notin Nat \cup TargetBook
    /\ IsFiniteSet(RuleBook) /\ IsFiniteSet(TargetBook) /\ IsFiniteSet(EdgeBook)
    /\ \A rule \in RuleBook : IsRule(rule)
    /\ \A edge \in EdgeBook : IsEdge(edge)
    /\ \A t, u \in TargetBook :
         /\ IsSelector(t.selector) /\ t.version \in Versions /\ t.loaded_at \in Nat
         /\ t.loaded_at = u.loaded_at => t = u
    /\ {pair[1] : pair \in Learnable} \subseteq DeviceFacts
    /\ ReadinessUpgradeWeightCap \in Nat /\ MaxChanges \in Nat

Changing == changes < MaxChanges /\ changes' = changes + 1 /\ UNCHANGED ev

\* An import or a sync: a column it brings no value for keeps its own.
Learn(fact, value) ==
    /\ Changing /\ device[fact] # value
    /\ device' = [device EXCEPT ![fact] = value]
    /\ UNCHANGED <<obs, catalogue>>

\* An observation always has the latest created_at, but may have been made before another.
Observe(firmware, late) ==
    /\ Changing
    /\ obs' = [newest |-> IF firmware = None THEN obs.newest ELSE firmware,
               latest |-> IF late THEN obs.latest ELSE firmware]
    /\ UNCHANGED <<device, catalogue>>

\* A reload, one change of the files at a time.  What it evaluates again is an Evaluate.
LoadRule(rule) ==
    /\ Changing
    /\ rules' = {r \in rules : r.id # rule.id} \cup {rule}
    /\ UNCHANGED <<device, obs, targets, edges, packages>>

RemoveRule(rule) ==
    /\ Changing /\ rule \in rules
    /\ rules' = rules \ {rule}
    /\ UNCHANGED <<device, obs, targets, edges, packages>>

FlipTarget(target) ==
    /\ Changing
    /\ targets' = IF target \in targets THEN targets \ {target} ELSE targets \cup {target}
    /\ UNCHANGED <<device, obs, rules, edges, packages>>

SameEdge(e, f) ==
    <<e.platform_family, e.from_version, e.to_version>>
      = <<f.platform_family, f.from_version, f.to_version>>

LoadEdge(edge) ==
    /\ Changing
    /\ edges' = {e \in edges : ~SameEdge(e, edge)} \cup {edge}
    /\ UNCHANGED <<device, obs, rules, targets, packages>>

RemoveEdge(edge) ==
    /\ Changing /\ edge \in edges
    /\ edges' = edges \ {edge}
    /\ UNCHANGED <<device, obs, rules, targets, packages>>

Upload(version) ==
    /\ Changing
    /\ packages' = packages \cup {version}
    /\ UNCHANGED <<device, obs, rules, targets, edges>>

\* A compliance status, a compliance evaluation, a readiness evaluation, and what a reload
\* does to an affected device.
FullPass(e) == F4(F3(F2(e)))

Evaluate(outcome) == UNCHANGED <<device, obs, catalogue, changes>> /\ ev' = outcome
ReloadPass == Evaluate(FullPass(ev))

Next ==
    \/ \E pair \in Learnable : Learn(pair[1], pair[2])
    \/ \E firmware \in Reported, late \in BOOLEAN : Observe(firmware, late)
    \/ \E rule \in RuleBook : LoadRule(rule) \/ RemoveRule(rule)
    \/ \E target \in TargetBook : FlipTarget(target)
    \/ \E edge \in EdgeBook : LoadEdge(edge) \/ RemoveEdge(edge)
    \/ \E version \in Versions : Upload(version)
    \/ Evaluate(F2(ev)) \/ Evaluate(F3(ev)) \/ Evaluate(F4(ev)) \/ ReloadPass

NothingKnown == [f \in DeviceFacts |-> None]

\* A device just imported.
Init ==
    /\ device = NothingKnown
    /\ obs \in {[newest |-> v, latest |-> v] : v \in Reported}
    /\ rules \in {RuleBook, {}} /\ targets = {} /\ edges = {} /\ packages = {}
    /\ ev = [life |-> "imported", f3 |-> NoRow, f4 |-> NoRow]
    /\ changes = 0

Spec == Init /\ [][Next]_vars

---------------------------------------------------------------------------
(* Definitions for the properties, made without those above *)

\* W[w]: the pairs of versions joined by a walk of weight at most w.
WalksWithin(graph, cap) ==
    LET W[w \in 0..cap] ==
          {<<v, v>> : v \in Versions} \cup
          UNION {{<<e.from_version, pair[2]>> :
                    pair \in {p \in W[w - e.weight] : p[1] = e.to_version}} :
                 e \in {x \in graph : x.weight <= w}}
    IN W[cap]

Beaten(t, by) == LET s == Specificity(t.selector)
                     z == Specificity(by.selector)
                 IN z > s \/ (z = s /\ by.loaded_at > t.loaded_at)

BestTargets(facts) ==
    LET matching == {t \in targets : Matches(t.selector, facts)}
    IN {t \in matching : ~ \E u \in matching : Beaten(t, u)}

\* What the rules amount to for this device at a lifecycle state: DeviceEvaluation's view
\* of the catalogue.
Summary(state) ==
    LET best == BestTargets(Facts(state))
        applicable == MatchingRules(state)
    IN [live |-> targets # {}, covers |-> best # {},
        version |-> IF best = {} THEN None ELSE (CHOOSE t \in best : TRUE).version,
        applicable |-> Cardinality(applicable),
        failing |-> {ToString(r.id) : r \in {x \in applicable :
                       \E b \in EvaluateRule(x, Facts(state)) : b.severity = "required"}},
        reached |-> {e.to_version : e \in PlatformEdges(device["platform_family"])},
        paths |-> WalksWithin(PlatformEdges(device["platform_family"]), ReadinessUpgradeWeightCap)
                    \ {<<v, v>> : v \in Versions}]

Pipeline == INSTANCE DeviceEvaluation WITH
    Rules <- {ToString(r.id) : r \in RuleBook}, Catalogues <- {}, Requests <- {}, Lags <- {0}, MaxDay <- 0,
    Pauses <- {}, DiscoveryStaleDays <- 1, ReadinessStaleDays <- 1,
    day <- 0, cat <- Summary("outside_target"), obs <- [firmware |-> obs.newest, on |-> 0],
    life <- ev.life, f3 <- None, f4 <- None, changes <- 0, tx <- <<>>, serial <- TRUE

\* For Pipeline, which tells a missing row by None.
ASSUME NoneIsNoRow == None \notin Pipeline!Row3

TestsLifecycle(selector) == "not_in_state" \in DOMAIN selector

---------------------------------------------------------------------------
(* Properties *)

RequiredBlockers(row) ==
    {row.blockers[i] : i \in {j \in DOMAIN row.blockers : row.blockers[j].severity = "required"}}

\* What a reload's evaluation of a device leaves is what DeviceEvaluation computes from the
\* Summary of the catalogue, whatever was evaluated before and although rules may test the
\* lifecycle, which evaluation itself writes: F2 has just set it to outside_target.  (A
\* target that tests the lifecycle can alternate.)  The reasons, the state and the required
\* blockers agree, a blocked device has its first blocker, which chooses the recommended
\* action, among them, and no drift had to be kept from a compliant row.
PassAgreesWithPipeline ==
    [][(ReloadPass /\ ~ \E t \in targets : TestsLifecycle(t.selector)) =>
         LET view == Summary("outside_target")
             o == [firmware |-> obs.newest, on |-> 0]
             row3 == Pipeline!ComplianceRow(view, o, 0)
             row4 == Pipeline!ReadinessRow(row3, view)
             required == RequiredBlockers(ev'.f4)
         IN /\ <<ev'.f3.state, ev'.f3.target, ev'.f3.observed>>
                 = <<row3.state, row3.target, row3.observed>>
            /\ ev'.f3.reasons \cap Pipeline!DriftReasons = row3.drift
            /\ ev'.f3.state = "compliant" => DriftReasons(ev'.f3) \subseteq SoftDrift \X ev'.f3.reasons
            /\ <<ev'.f4.state, ev'.f4.applicable>> = <<row4.state, row4.applicable>>
            /\ {IF b.rule_id = 0 THEN Pipeline!PathBlocker ELSE ToString(b.rule_id) : b \in required}
                 = row4.blockers
            /\ required # {} => ev'.f4.blockers[1] \in required]_vars

ReadyNow == Judge(ev.life, ev.f3).state = "ready_for_uplift"

Asks(selector, fact) == \E key \in DOMAIN selector : FactOfKey[key] = fact

\* Missing data never lets a device through: to learn a fact that was not known, except
\* one that decides which rules apply, and except tags, which are advice while unknown,
\* cannot turn a device that would be found ready into a blocked one.  Neither can another
\* upgrade edge, a lighter one, or the removal of a rule.
ReadyKept ==
    [][/\ \/ \E pair \in Learnable :
               /\ Learn(pair[1], pair[2]) /\ device[pair[1]] = None /\ pair[1] # "tags"
               /\ ~ \E r \in rules : Asks(r.applies_to, pair[1])
          \/ \E firmware \in Reported : Observe(firmware, FALSE) /\ obs.latest = None
          \/ \E rule \in RuleBook : RemoveRule(rule)
          \/ \E edge \in EdgeBook : /\ LoadEdge(edge)
                                    /\ \A e \in edges : SameEdge(e, edge) => edge.weight <= e.weight
       /\ ReadyNow
       => ReadyNow']_vars
====================================================================================
