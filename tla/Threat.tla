------------------------------- MODULE Threat -------------------------------
(***************************************************************************)
(* The risk score of an EDR report: compute_risk of                        *)
(* app/services/threat.py.                                                 *)
(*                                                                         *)
(* The score is a sum over the entries of the report, so a report is its   *)
(* counts of entries of each kind and the set of its permissions in lower  *)
(* case.  The behaviours of the module are reports that grow entry by      *)
(* entry: compute_risk sees every report on the way.                       *)
(***************************************************************************)
EXTENDS Integers, FiniteSets

CONSTANTS
    Permissions,   \* permission names, in lower case
    MaxApps,       \* bounds on the entries of a report
    MaxLogs

ASSUME ThreatAssumption ==
    /\ {"sms", "accessibility", "device_admin"} \subseteq Permissions
    /\ MaxApps \in Nat /\ MaxLogs \in Nat

VARIABLES
    apps,    \* apps[k]: how many suspicious apps are of kind k
    perms,   \* dangerous_permissions
    rats     \* how many dns_logs name a RAT domain or address

report == <<apps, perms, rats>>

Capped(n, cap) == IF n > cap THEN cap ELSE n
AtLeast(n, floor) == IF n < floor THEN floor ELSE n
When(condition, points) == IF condition THEN points ELSE 0

\* blacklisted, sideloaded, both or neither
Kinds == {"black", "side", "both", "plain"}

BlackApps == apps["black"] + apps["both"]
SideApps == apps["side"] + apps["both"]

AppScore == 50 * BlackApps + 15 * SideApps
PermissionScore ==
    When("sms" \in perms, 10) + When("accessibility" \in perms, 15) + When("device_admin" \in perms, 10)

Combo == When(SideApps > 0 /\ {"sms", "accessibility"} \subseteq perms, 30)

RawScore == AppScore + PermissionScore + Combo + 40 * rats

\* Mutant: any contact with a RAT overrides the rest of the score.
RiskScoreFlat == IF rats > 0 THEN 80 ELSE Capped(RawScore, 100)

\* Mutant: the floor of a RAT contact is left out.
RiskScoreUnfloored == Capped(RawScore, 100)

RiskScore == IF rats > 0 THEN Capped(AtLeast(RawScore, 80), 100) ELSE Capped(RawScore, 100)

RiskLevel ==
    IF rats > 0 \/ RawScore >= 80 THEN "critical"
    ELSE IF RawScore >= 50 THEN "high"
    ELSE IF RawScore >= 25 THEN "medium"
    ELSE "low"

-----------------------------------------------------------------------------
ReportOK ==
    /\ apps \in [Kinds -> 0..MaxApps]
    /\ perms \subseteq Permissions
    /\ rats \in 0..MaxLogs

NoReport == apps = [k \in Kinds |-> 0] /\ perms = {} /\ rats = 0

AddApp(k) ==
    /\ apps[k] < MaxApps
    /\ apps' = [apps EXCEPT ![k] = @ + 1]
    /\ UNCHANGED <<perms, rats>>

AddPermission(p) ==
    /\ p \notin perms
    /\ perms' = perms \cup {p}
    /\ UNCHANGED <<apps, rats>>

AddRat ==
    /\ rats < MaxLogs
    /\ rats' = rats + 1
    /\ UNCHANGED <<apps, perms>>

ReportGrows ==
    \/ \E k \in Kinds : AddApp(k)
    \/ \E p \in Permissions : AddPermission(p)
    \/ AddRat

ReportSpec == NoReport /\ [][ReportGrows]_report

-----------------------------------------------------------------------------
(* Properties                                                              *)

Rank(level) == CASE level = "low" -> 0 [] level = "medium" -> 1
                 [] level = "high" -> 2 [] level = "critical" -> 3

\* The level that decides about audit and quarantine agrees with the score that
\* is answered, clamped and floored as it is: 25, 50 and 80 are the borders.
LevelAgrees ==
    /\ RiskScore \in 0..100
    /\ RiskLevel = "critical" <=> RiskScore >= 80
    /\ RiskLevel \in {"critical", "high"} <=> RiskScore >= 50
    /\ RiskLevel = "low" <=> RiskScore < 25

\* More evidence never lowers the score or the level.
EvidenceOnlyAdds == [][RiskScore' >= RiskScore /\ Rank(RiskLevel') >= Rank(RiskLevel)]_report
=============================================================================
