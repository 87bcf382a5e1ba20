----------------------------- MODULE MCNetBoxSync -----------------------------
(* Values for model checking NetBoxSync: two NetBox devices, a row imported  *)
(* from CSV, three kinds of network facts.                                   *)
EXTENDS NetBoxSync, TLC

MCSnap(n) ==
  LET mgmt(h) == [name |-> "mgmt0", enabled |-> TRUE, mgmtOnly |-> TRUE, mode |-> None,
                  vrf |-> "mgmt", vlan |-> None, addrs |-> {[host |-> h, v4 |-> TRUE, vrf |-> None]}]
      edge(v, h) == [name |-> "ge1", enabled |-> TRUE, mgmtOnly |-> FALSE, mode |-> "access",
                     vrf |-> None, vlan |-> v,
                     addrs |-> {[host |-> x, v4 |-> TRUE, vrf |-> None] : x \in h}]
      facts(ip4, ifaces) == [ip4 |-> ip4, ip6 |-> None, oob |-> None, site |-> "oslo",
                             role |-> "edge", ifaces |-> ifaces]
  IN CASE n = "sound"  -> facts("h1", {mgmt("h1"), edge("v10", {"h2"})})
       [] n = "broken" -> facts(None, {mgmt("h2"), edge("v20", {})})
       [] n = "bare"   -> facts(None, {})

MCPolicy ==
  [wellFormed |-> TRUE, sites |-> {"oslo"}, roles |-> {"edge"}, vlanGroups |-> {<<"oslo", "access">>},
   vrfNames |-> {"mgmt"}, mgmtNames |-> {"mgmt0"}, preferV4 |-> TRUE,
   requireAssignment |-> FALSE,
   policies |-> {[id |-> "edge-ip", site |-> Wildcard, role |-> "edge",
                  names |-> {"ge1"}, requireIp |-> TRUE]},
   vrfs |-> {[site |-> "oslo", role |-> "edge", names |-> {"mgmt0"}, vrf |-> "mgmt"]},
   vlans |-> {[site |-> "oslo", group |-> "access", names |-> {"ge1"}]},
   severity |-> [k \in {"shared_address"} |-> "info"]]

\* The second manifest names a VRF it does not declare, the third is not a manifest.
MCManifests == {MCPolicy, [MCPolicy EXCEPT !.vrfNames = {}],
                [MCPolicy EXCEPT !.wellFormed = FALSE]}
MCSiteVlans == [g \in {"access"} |-> {"v10"}]
MCMgmtIp == [r \in Rows |-> IF r = 1 THEN "h1" ELSE None]

NbDevice(serial, place, net) ==
  [present |-> TRUE, serial |-> serial, place |-> place, net |-> net,
   cf |-> [f \in Fields |-> Empty], tags |-> {}]
Row(serial, place) ==
  [exists |-> TRUE, serial |-> serial, place |-> place, nbid |-> 0, align |-> Unknown]

Bound(row, i, align) == [row EXCEPT !.nbid = i, !.align = align]
Table(rows) == [r \in Rows |-> IF r \in DOMAIN rows THEN rows[r] ELSE NoRow]

\* A first synchronisation with one device imported before; an estate without
\* serials; one with two imported devices whose serials change; one already
\* linked, whose device is registered again under another id.
MCStarts ==
  LET gone == [NbDevice("S1", "P1", "sound") EXCEPT !.present = FALSE]
      nbs(a, b) == 1 :> a @@ 2 :> b @@ 3 :> gone
  IN {[nb |-> nbs(NbDevice("S1", "P1", "sound"), NbDevice("S2", "P2", "broken")),
       dev |-> Table(1 :> Row("S1", "P1")), edits |-> {"mirror"}],
      [nb |-> nbs(NbDevice(None, "P1", "sound"), NbDevice(None, "P2", "bare")),
       dev |-> Table(1 :> Row(None, "P1") @@ 2 :> Row(None, "P2")), edits |-> {"place"}],
      [nb |-> nbs(NbDevice("S1", "P1", "sound"), NbDevice("S2", "P2", "broken")),
       dev |-> Table(1 :> Row("S1", "P1") @@ 2 :> Row("S2", "P2")), edits |-> {"serial"}],
      [nb |-> nbs(NbDevice("S1", "P1", "sound"), NbDevice("S2", "P2", "bare")),
       dev |-> Table(1 :> Bound(Row("S1", "P1"), 1, "mismatch") @@ 2 :> Bound(Row("S2", "P2"), 2, Unknown)),
       edits |-> {"presence", "network"}]}
MCSettings == {[align |-> TRUE, writeback |-> TRUE], [align |-> FALSE, writeback |-> FALSE]}
=============================================================================
