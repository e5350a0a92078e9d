------------------------------ MODULE MCTenant ------------------------------
(* The databases and pairs of requests of the run: a team T linked to the  *)
(* portal of W, both in one workspace, both apart, or the team alone.      *)
EXTENDS Tenant

Row(id, ws, prov, n, link) == [id |-> <<"row", id>>, ws |-> ws, prov |-> prov, n |-> n, link |-> link]
Team == Row("slack", "T", "slack", 1, "")
Portal(link) == Row("hub", "W", "hubspot", 1, link)
Linked == [rows |-> {Team, Row("shell", "W", "slack", 0, "T"), Portal("T")}, homes |-> {"T", "W"}, portal |-> "W"]
Together == [rows |-> {Row("slack", "W", "slack", 1, ""), Portal("")}, homes |-> {"W"}, portal |-> "W"]
Apart == [rows |-> {Team, Portal("")}, homes |-> {"T"}, portal |-> "W"]
TeamOnly == [rows |-> {Team}, homes |-> {"T"}, portal |-> ""]

Req(kind, p, ws, prov, state, hc) == [kind |-> kind, p |-> p, ws |-> ws, prov |-> prov, state |-> state, hc |-> hc]
With(base, due, m, a, b) == [due |-> due, may |-> m, rows |-> base.rows, homes |-> base.homes, portal |-> base.portal,
                     work |-> [j \in {"a", "b"} |-> IF j = "a" THEN a ELSE b]]
S1 == With(Linked, 1, {"idle"}, Req("slackcall", "p1", "W", "hubspot", "", "a"), Req("slackcall", "p1", "T", "slack", "", "b"))
S2 == With(Linked, 1, {"idle"}, Req("slackcall", "p1", "W", "hubspot", "", "a"), Req("slackcall", "p2", "T", "slack", "", "b"))
S3 == With(Linked, 1, {}, Req("slackcall", "p1", "W", "hubspot", "", "a"), Req("uninstall", "p1", "W", "", "", "b"))
S4 == With(Together, 1, {"calls","die"}, Req("hubcall", "p1", "W", "", "", "a"), Req("hubcall", "p1", "W", "", "", "a"))
S5 == With(Together, 1, {"calls"}, Req("hubcall", "p1", "W", "", "", "a"), Req("unhub", "p2", "W", "", "", "b"))
S6 == With(Together, 0, {"remove","calls"}, Req("unhub", "p1", "W", "", "", "a"), Req("unslack", "p1", "W", "", "", "b"))
S7 == With(Linked, 1, {}, Req("install", "p1", "T", "slack", "", "a"), Req("slackcall", "p1", "W", "hubspot", "", "b"))
S8 == With(TeamOnly, 0, {}, Req("installhub", "p1", "W", "", "T", "a"), Req("slackcall", "p1", "W", "hubspot", "", "b"))
S9 == With(Apart, 0, {"evict"}, Req("install", "p1", "T", "slack", "W", "a"), Req("hubcall", "p1", "T", "", "", "b"))
S10 == With(Linked, 0, {}, Req("install", "p1", "T", "slack", "W", "a"), Req("installhub", "p1", "W", "", "T", "b"))
S11 == With(Linked, 0, {}, Req("uninstall", "p1", "W", "", "", "a"), Req("installhub", "p1", "W", "", "T", "b"))
S12 == With(Linked, 1, {"answer", "write", "die"}, Req("slackcall", "p1", "W", "hubspot", "", "a"), Req("slackcall", "p1", "T", "slack", "", "b"))
S13 == With(Linked, 1, {"crash", "due"}, Req("slackcall", "p1", "T", "slack", "", "a"), Req("slackcall", "p2", "T", "slack", "", "b"))
S14 == With(Together, 0, {"write"}, Req("uninstall", "p1", "W", "", "", "a"), Req("hubcall", "p2", "W", "", "", "b"))
S15 == With(Together, 0, {"due", "die"}, Req("hubcall", "p1", "W", "", "", "a"), Req("hubcall", "p1", "W", "", "", "a"))
S16 == With(Apart, 0, {}, Req("install", "p1", "T", "slack", "W", "a"), Req("installhub", "p2", "W", "", "T", "b"))
S17 == With(TeamOnly, 0, {}, Req("install", "p1", "T", "slack", "W", "a"), Req("installhub", "p2", "W", "", "", "b"))
S18 == With(Linked, 1, {"remove", "write"}, Req("uninstall", "p1", "T", "", "", "a"), Req("unslack", "p2", "T", "", "", "b"))
Removed == {S6}
All == {S1, S2, S3, S4, S5, S6, S7, S8, S9, S10, S11, S12, S13, S14, S15, S16, S17, S18}
=============================================================================
