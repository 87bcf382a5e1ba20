--------------------------- MODULE NetworkAlignment ---------------------------
(***************************************************************************)
(* The IPAM alignment of one NetBox-linked device                           *)
(* (src/gard/core/ipam_alignment_controller.py and the alignment manifest): *)
(* which address NetBox calls the management address, which findings a      *)
(* network snapshot gives against the policy manifest, and which status the *)
(* findings give the device and the run.  No state: NetBoxSync applies      *)
(* these operators inside a synchronisation.                                *)
(*                                                                         *)
(* An address is its host part with a family and a VRF; an interface        *)
(* pattern is the set of interface names it matches; "*" and "none" are the   *)
(* source's wildcard and absent value.                                      *)
(***************************************************************************)
EXTENDS Integers, FiniteSets

None == "none"
Wildcard == "*"

-----------------------------------------------------------------------------
(* The manifest.                                                           *)

\* The semantic rules that reject a manifest: policies, VRF and VLAN
\* expectations may only name what the manifest declares, ids do not repeat,
\* severities are overridden for known kinds only.
ManifestAccepted(m, kinds) ==
  /\ \A p, q \in m.policies : p.id = q.id => p = q
  /\ \A p \in m.policies : p.site \in m.sites \cup {Wildcard} /\ p.role \in m.roles \cup {Wildcard}
  /\ \A e \in m.vrfs : /\ e.site \in m.sites
                       /\ e.role \in m.roles \cup {Wildcard}
                       /\ e.vrf \in m.vrfNames
  /\ \A e \in m.vlans : e.site \in m.sites /\ <<e.site, e.group>> \in m.vlanGroups
  /\ DOMAIN m.severity \subseteq kinds

\* load_alignment_manifest: the file is there and satisfies its schema (m.wellFormed), and
\* the semantic rules accept what it says.
ManifestLoads(m, kinds) == m.wellFormed /\ ManifestAccepted(m, kinds)

Kinds == {"mgmt_ip_match", "mgmt_ip_mismatch", "mgmt_ip_missing_in_netbox",
          "mgmt_ip_missing_in_gard", "mgmt_ip_ambiguous", "mgmt_ip_fallback_used",
          "interface_ip_bound", "interface_missing_address", "prefix_vrf_scope_mismatch",
          "cross_device_address_conflict", "shared_address", "vrf_mismatch",
          "access_vlan_missing", "vlan_out_of_scope", "vlan_aligned",
          "l2vpn_module_unavailable"}

InfoKinds == {"mgmt_ip_match", "mgmt_ip_fallback_used", "interface_ip_bound",
              "shared_address", "vlan_aligned", "l2vpn_module_unavailable"}

\* The severity of a finding: the manifest's override, else the default.
SeverityFor(kind, m) ==
  IF kind \in DOMAIN m.severity THEN m.severity[kind]
  ELSE IF kind \in InfoKinds THEN "info"
  ELSE IF kind = "mgmt_ip_missing_in_gard" THEN "warning"
  ELSE "error"

-----------------------------------------------------------------------------
(* The management address.                                                 *)

EnabledIfaces(snap) == {i \in snap.ifaces : i.enabled}

\* The hosts of an interface, IPv4 only when preferred and there is one.
IfaceHosts(iface, m) ==
  LET v4 == {a \in iface.addrs : a.v4}
  IN {a.host : a \in IF m.preferV4 /\ v4 # {} THEN v4 ELSE iface.addrs}

\* Candidates with their priority: primary, out-of-band, management-only
\* interfaces, interfaces named like one; any enabled interface when none.
\* A primary IPv4 address counts only when IPv4 is preferred.
MgmtCandidates(snap, m) ==
  LET primary == IF m.preferV4 /\ snap.ip4 # None THEN {<<1, snap.ip4>>}
                 ELSE {<<1, h>> : h \in {snap.ip6} \ {None}}
      oob     == {<<2, h>> : h \in {snap.oob} \ {None}}
      of(prio, ifaces) == UNION {{<<prio, h>> : h \in IfaceHosts(i, m)} : i \in ifaces}
      ranked  == primary \cup oob
                   \cup of(3, {i \in EnabledIfaces(snap) : i.mgmtOnly})
                   \cup of(4, {i \in EnabledIfaces(snap) : i.name \in m.mgmtNames})
  IN IF ranked # {} THEN ranked ELSE of(5, EnabledIfaces(snap))

\* The best-ranked address; none and ambiguous when the best rank holds two.
ResolveMgmtIp(snap, m) ==
  LET cands == MgmtCandidates(snap, m)
      best  == {c \in cands : \A d \in cands : c[1] <= d[1]}
      hosts == {c[2] : c \in best}
  IN [ip |-> IF Cardinality(hosts) = 1 THEN CHOOSE h \in hosts : TRUE ELSE None,
      ambiguous |-> Cardinality(hosts) > 1,
      fallback |-> \E c \in best : c[1] = 5]

Open(kind, iface)   == [kind |-> kind, iface |-> iface, open |-> TRUE]
Passed(kind, iface) == [kind |-> kind, iface |-> iface, open |-> FALSE]

MgmtFindings(gardIp, snap, m) ==
  LET res == ResolveMgmtIp(snap, m)
      ip  == res.ip
      compared ==
        CASE ip # None /\ gardIp # None /\ ip = gardIp -> {Passed("mgmt_ip_match", None)}
          [] ip # None /\ gardIp # None /\ ip # gardIp -> {Open("mgmt_ip_mismatch", None)}
          [] ip = None /\ gardIp # None -> {Open("mgmt_ip_missing_in_netbox", None)}
          [] ip # None /\ gardIp = None -> {Open("mgmt_ip_missing_in_gard", None)}
          [] OTHER -> IF m.requireAssignment
                      THEN {Open("mgmt_ip_missing_in_netbox", None)} ELSE {}
  IN IF res.ambiguous THEN {Open("mgmt_ip_ambiguous", None)}
     ELSE compared \cup IF res.fallback THEN {Passed("mgmt_ip_fallback_used", None)} ELSE {}

-----------------------------------------------------------------------------
(* Interfaces, VRFs and VLANs.  snaps maps each device of the run to its    *)
(* snapshot; site and role fall back to the GARD row's in NetBoxSync.       *)

PolicyMatches(p, snap, iface) ==
  p.site \in {Wildcard, snap.site} /\ p.role \in {Wildcard, snap.role} /\ iface.name \in p.names

\* Where an address is assigned, over every device of the run, interfaces
\* that are disabled included.
AddressRefs(host, snaps) ==
  UNION {{<<i, f.name>> : f \in {g \in snaps[i].ifaces : \E a \in g.addrs : a.host = host}}
         : i \in DOMAIN snaps}

AddressFindings(i, iface, addr, snaps) ==
  LET refs == AddressRefs(addr.host, snaps)
      clash == IF \E r \in refs : r[1] # i
               THEN {Open("cross_device_address_conflict", iface.name)}
               ELSE IF Cardinality(refs) > 1
                    THEN {Passed("shared_address", iface.name)} ELSE {}
      scope == IF iface.vrf # None /\ addr.vrf # None /\ iface.vrf # addr.vrf
               THEN {Open("prefix_vrf_scope_mismatch", iface.name)} ELSE {}
  IN clash \cup scope

\* Only the interfaces some policy matches are looked at, their shared
\* addresses included.
InterfaceFindings(i, m, snaps) ==
  LET covered == {f \in EnabledIfaces(snaps[i]) :
                    \E p \in m.policies : PolicyMatches(p, snaps[i], f)}
      bound(f) == IF ~ \E p \in m.policies : PolicyMatches(p, snaps[i], f) /\ p.requireIp THEN {}
                  ELSE IF f.addrs # {} THEN {Passed("interface_ip_bound", f.name)}
                  ELSE {Open("interface_missing_address", f.name)}
  IN UNION {bound(f) \cup UNION {AddressFindings(i, f, a, snaps) : a \in f.addrs}
            : f \in covered}

VrfFindings(snap, m) ==
  {Open("vrf_mismatch", f.name) :
     f \in {g \in EnabledIfaces(snap) :
              \E e \in m.vrfs : /\ e.site = snap.site /\ e.role \in {Wildcard, snap.role}
                                /\ g.name \in e.names /\ g.vrf # e.vrf}}

\* allowed[group]: the VLANs NetBox has in a group of the device's site.
VlanFindings(snap, m, allowed) ==
  LET access(e) == {f \in EnabledIfaces(snap) : f.mode = "access" /\ f.name \in e.names}
      verdict(f, e) ==
        IF f.vlan = None THEN Open("access_vlan_missing", f.name)
        ELSE IF allowed[e.group] # {} /\ f.vlan \notin allowed[e.group]
             THEN Open("vlan_out_of_scope", f.name)
        ELSE Passed("vlan_aligned", f.name)
  IN UNION {{verdict(f, e) : f \in access(e)} : e \in {x \in m.vlans : x.site = snap.site}}

-----------------------------------------------------------------------------
(* What the findings decide.                                               *)

DeviceFindings(i, gardIp, m, snaps, allowed) ==
  MgmtFindings(gardIp, snaps[i], m) \cup InterfaceFindings(i, m, snaps)
    \cup VrfFindings(snaps[i], m) \cup VlanFindings(snaps[i], m, allowed)

\* Mutant: one passed check makes a device aligned.
LenientStatus(drafts) ==
  IF \E f \in drafts : ~ f.open THEN "aligned"
  ELSE IF drafts # {} THEN "mismatch" ELSE "unknown"

AlignmentStatus(drafts) ==
  IF \E f \in drafts : f.open THEN "mismatch"
  ELSE IF drafts # {} THEN "aligned" ELSE "unknown"

RunStatus(drafts, m) ==
  IF \E f \in drafts : f.open /\ SeverityFor(f.kind, m) = "error" THEN "partial" ELSE "completed"
=============================================================================
