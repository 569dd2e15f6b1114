----------------------------- MODULE MCSiteBuild -----------------------------
(***************************************************************************)
(* An instance of SiteBuild for TLC.  Every registry of one or two rows    *)
(* over two hosts, names and ports in two environments of one monitoring   *)
(* host, prod (dual) and eu-staging (single); some with RDQM groups; some  *)
(* with a third environment, prod-eu (dual), whose name goes on from that  *)
(* of prod and whose queue manager shares a floating address with one of   *)
(* prod; and every choice of receivers and secrets.                        *)
(***************************************************************************)
EXTENDS SiteBuild

E == {"prod", "eu-staging", "prod-eu"}
Words(e) ==
  CASE e = "prod" -> <<"prod">> [] e = "prod-eu" -> <<"prod", "eu">> [] OTHER -> <<"eu", "staging">>

Row(h, q, e, shape, ip, c, n) ==
  [host |-> h, qmgr |-> q, env |-> e, shape |-> shape, ip |-> ip, exporter |-> None,
   client |-> c, native |-> n]
HostRows ==
  {Row(h, q, e, "host", None, c, n) :
     h \in {"h1", "h2"}, q \in {"A", "B"}, e \in E \ {"prod-eu"}, c \in {1, 2}, n \in {None, 9157}}
Rdqm(h) == Row(h, "R", "prod", "rdqm-ha", "vip", 3, 9157)
Single(h, n) == Row(h, "A", "prod", "host", None, 1, n)
Group3 == <<Rdqm("h1"), Rdqm("h2"), Rdqm("h3")>>
Registries ==
  {<<a>> : a \in HostRows} \cup {<<a, b>> : a, b \in HostRows}
    \cup {<< >>, <<Rdqm("h1"), Rdqm("h2")>>, Group3}
    \cup {Append(Group3, Single(h, n)) : h \in {"h3", "h4"}, n \in {9157, 9158}}

PagerDuty == "pagerduty://mq"
OnCall == "#mq-oncall"
EuOnCall == "#eu-mq-oncall"
Clash == "webhook://pagerduty-mq"
AllRefs == {PagerDuty, OnCall, EuOnCall, Clash}
Name(ref) ==
  CASE ref = OnCall -> <<"mq", "oncall">>
    [] ref = EuOnCall -> <<"eu", "mq", "oncall">>
    [] OTHER -> <<"pagerduty", "mq">>

Wire(vantage, receivers, secrets) ==
  [vantage |-> vantage, profile |-> "non-container", monitoring_host |-> "mon",
   receivers |-> receivers, secrets |-> secrets]
Receivers == [{"SEV1", "SEV2", "SEV3"} -> AllRefs \ {EuOnCall}]
Always(ref) == [s \in {"SEV1", "SEV2", "SEV3"} |-> ref]
Usual == [s \in {"SEV1", "SEV2", "SEV3"} |-> IF s = "SEV1" THEN PagerDuty ELSE OnCall]
Wired(p, s, secrets) ==
  [e \in E |-> IF e = "prod" THEN Wire("dual", p, secrets)
               ELSE Wire(IF e = "prod-eu" THEN "dual" ELSE "single", s, AllRefs)]

\* Containers share a host and leave their native port out.
Contained == [Wired(Usual, Usual, AllRefs) EXCEPT !["prod"].profile = "container"]
Containers ==
  {<<a, b>> : a, b \in {r \in HostRows : r.env = "prod"}}
    \cap {s \in Registries : Len(s) = 2 /\ s[1].qmgr # s[2].qmgr /\ s[1].client # s[2].client}

Fleet2 == <<Row("h1", "A", "prod", "host", None, 1, 9157), Row("h2", "A", "eu-staging", "host", None, 2, None)>>

\* A queue manager of prod and one of prod-eu at one floating address.
Shared == <<Row("h1", "A", "prod", "host", "vip", 1, 9157), Row("h2", "B", "prod-eu", "host", "vip", 2, 9157)>>
Fleet3 == Append(Shared, Row("h3", "A", "eu-staging", "host", None, 3, None))
AllInputs ==
  {<<r, Wired(Usual, Usual, AllRefs)>> : r \in Registries}
    \cup {<<r, Contained>> : r \in Containers}
    \cup {<<Fleet2, Wired(p, s, secrets)>> :
            p \in Receivers, s \in {Usual, Always(OnCall)}, secrets \in {AllRefs, {OnCall}}}
    \cup {<<Fleet3, Wired(Always(p), s, AllRefs)>> : p \in {EuOnCall, OnCall}, s \in {Usual, Always(OnCall)}}
=============================================================================
