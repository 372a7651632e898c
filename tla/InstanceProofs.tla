--------------------------- MODULE InstanceProofs ---------------------------
(***************************************************************************)
(* Proofs about Instance, for any features switched, any lagging, drifting *)
(* and failing objects, any initial spec and any number of edits and       *)
(* faults.                                                                 *)
(***************************************************************************)
EXTENDS Instance, SequenceTheorems, TLAPS

-----------------------------------------------------------------------------
(***************************************************************************)
(* The walk: which call each step makes for which spec.                    *)
(***************************************************************************)

\* The steps by number.
LEMMA OrderIs ==
    /\ Order[1] = "Secret" /\ Order[2] = "PVC" /\ Order[3] = "ConfigMap"
    /\ Order[4] = "WorkspaceConfigMap" /\ Order[5] = "NetworkPolicy"
    /\ Order[6] = "RBAC" /\ Order[7] = "Service" /\ Order[8] = "PDB"
    /\ Order[9] = "HPA" /\ Order[10] = "Ingress" /\ Order[11] = "HTTPRoute"
    /\ Order[12] = "ServiceMonitor" /\ Order[13] = "PrometheusRule"
    /\ Order[14] = "GrafanaDashboard" /\ Order[15] = "StatefulSet"
    /\ Order[16] = "Honcho" /\ Order[17] = "Tailscale"
    /\ Order[18] = "Semaphore" /\ Order[19] = "BackupCronJob"
    /\ CronJobStep = 19 /\ StatusStep = 20
BY DEF Order, CronJobStep, StatusStep

\* The calls of each step.
LEMMA CallsAre ==
    ASSUME NEW on
    PROVE  /\ CallsOf("Secret", on) = ReconcileSecret(on)
           /\ CallsOf("PVC", on) = ReconcilePVC(on)
           /\ CallsOf("ConfigMap", on) = ReconcileConfigMap(on)
           /\ CallsOf("WorkspaceConfigMap", on) = ReconcileWorkspaceConfigMap(on)
           /\ CallsOf("NetworkPolicy", on) = ReconcileNetworkPolicy(on)
           /\ CallsOf("RBAC", on) = ReconcileRBAC(on)
           /\ CallsOf("Service", on) = ReconcileService(on)
           /\ CallsOf("PDB", on) = ReconcilePDB(on)
           /\ CallsOf("HPA", on) = ReconcileHPA(on)
           /\ CallsOf("Ingress", on) = ReconcileIngress(on)
           /\ CallsOf("HTTPRoute", on) = ReconcileHTTPRoute(on)
           /\ CallsOf("ServiceMonitor", on) = ReconcileServiceMonitor(on)
           /\ CallsOf("PrometheusRule", on) = ReconcilePrometheusRule(on)
           /\ CallsOf("GrafanaDashboard", on) = ReconcileGrafanaDashboards(on)
           /\ CallsOf("StatefulSet", on) = ReconcileStatefulSet(on)
           /\ CallsOf("Honcho", on) = ReconcileHoncho(on)
           /\ CallsOf("Tailscale", on) = ReconcileTailscale(on)
           /\ CallsOf("Semaphore", on) = ReconcileSemaphore(on)
           /\ CallsOf("BackupCronJob", on) = ReconcileCronJob(on)
BY DEF CallsOf

\* What each object is there for.
LEMMA NeedsAre ==
    /\ Needs("NetworkPolicy") = {"networkPolicy"}
    /\ Needs("ServiceAccount") = {"serviceAccount"}
    /\ Needs("Role") = {"serviceAccount"}
    /\ Needs("RoleBinding") = {"serviceAccount"}
    /\ Needs("PDB") = {"pdb"}
    /\ Needs("HPA") = {"hpa"}
    /\ Needs("Ingress") = {"ingress"}
    /\ Needs("HTTPRoute") = {"httpRoute"}
    /\ Needs("ServiceMonitor") = {"serviceMonitor"}
    /\ Needs("PrometheusRule") = {"prometheusRule"}
    /\ Needs("OperatorDashboard") = {"grafana"}
    /\ Needs("InstanceDashboard") = {"grafana"}
    /\ Needs("HonchoPVC") = {"honcho", "honchoPersistence"}
    /\ Needs("HonchoNetworkPolicy") = {"honcho", "networkPolicy"}
    /\ Needs("HonchoService") = {"honcho"}
    /\ Needs("HonchoDeployment") = {"honcho"}
    /\ Needs("BackupCronJob") = {"schedule"}
    /\ Needs("PruneCronJob") = {"schedule"}
    /\ \A o \in {"Secret", "PVC", "ConfigMap", "WorkspaceConfigMap", "Service",
                 "StatefulSet"} : Needs(o) = {}
<1>1. /\ Needs("NetworkPolicy") = {"networkPolicy"}
      /\ Needs("ServiceAccount") = {"serviceAccount"}
      /\ Needs("Role") = {"serviceAccount"}
      /\ Needs("RoleBinding") = {"serviceAccount"}
      /\ Needs("PDB") = {"pdb"}
      /\ Needs("HPA") = {"hpa"}
      /\ Needs("Ingress") = {"ingress"}
      /\ Needs("HTTPRoute") = {"httpRoute"}
  BY DEF Needs, RBAC, Dashboards, CronJobs
<1>2. /\ Needs("ServiceMonitor") = {"serviceMonitor"}
      /\ Needs("PrometheusRule") = {"prometheusRule"}
      /\ Needs("OperatorDashboard") = {"grafana"}
      /\ Needs("InstanceDashboard") = {"grafana"}
      /\ Needs("HonchoPVC") = {"honcho", "honchoPersistence"}
  BY DEF Needs, RBAC, Dashboards, CronJobs
<1>3. /\ Needs("HonchoNetworkPolicy") = {"honcho", "networkPolicy"}
      /\ Needs("HonchoService") = {"honcho"}
      /\ Needs("HonchoDeployment") = {"honcho"}
  BY DEF Needs, RBAC, Dashboards, CronJobs
<1>4. /\ Needs("BackupCronJob") = {"schedule"}
      /\ Needs("PruneCronJob") = {"schedule"}
  BY DEF Needs, RBAC, Dashboards, CronJobs
<1>5. ASSUME NEW o \in {"Secret", "PVC", "ConfigMap", "WorkspaceConfigMap",
                        "Service", "StatefulSet"}
      PROVE  Needs(o) = {}
  BY DEF Needs, RBAC, Dashboards, CronJobs
<1>6. QED
  BY <1>1, <1>2, <1>3, <1>4, <1>5

\* What a call may be: it writes what the spec wants and removes what it does
\* not want and nothing that is retained; the StatefulSet, Semaphore and the
\* CronJobs have a step each.
Legal(k, on, n) ==
    /\ k.op \in {"apply", "ensure", "remove", "resolve", "provision", "patch"}
    /\ k.op \in {"apply", "ensure", "remove"} =>
         k.obj \in Objects /\ (k.obj \in CronJobs <=> n = 19)
    /\ k.op = "apply" => Wanted(k.obj, on) /\ k.obj \notin CreateOnly
    /\ k.op = "ensure" => Wanted(k.obj, on) /\ k.obj \in CreateOnly
    /\ k.op = "remove" => ~Wanted(k.obj, on) /\ k.obj \notin Retained
    /\ k.obj = "StatefulSet" => n = 15
    /\ n = 18 <=> k.op \in {"provision", "patch"}

LegalSeq(s, on, n) ==
    /\ Len(s) \in 0..4
    /\ \A c \in 1..Len(s) : Legal(s[c], on, n)

\* What may be removed and is written as a whole.
Plain == Objects \ (Retained \cup CreateOnly)

\* The groups of objects, name by name.
LEMMA ObjectFacts ==
    /\ "NetworkPolicy" \in Plain /\ "PDB" \in Plain /\ "HPA" \in Plain
    /\ "Ingress" \in Plain /\ "HTTPRoute" \in Plain
    /\ "ServiceMonitor" \in Plain /\ "PrometheusRule" \in Plain
    /\ "OperatorDashboard" \in Plain /\ "InstanceDashboard" \in Plain
    /\ "HonchoService" \in Plain /\ "HonchoDeployment" \in Plain
    /\ "HonchoNetworkPolicy" \in Plain /\ "BackupCronJob" \in Plain
    /\ "ConfigMap" \in Plain /\ "WorkspaceConfigMap" \in Plain
    /\ "Service" \in Plain /\ "StatefulSet" \in Plain
    /\ \A o \in {"Secret", "ServiceAccount", "Role", "RoleBinding",
                 "PruneCronJob"} : o \in Objects \ CreateOnly
    /\ "PVC" \in CreateOnly /\ "HonchoPVC" \in CreateOnly
    /\ CreateOnly \subseteq Objects /\ Plain \subseteq Objects
BY DEF Plain, Objects, RBAC, Unwatched, Monitoring, Dashboards, Honcho,
       CronJobs, Retained, CreateOnly

\* Each kind of call is legal under its condition.
LEMMA LegalCalls ==
    ASSUME NEW on, NEW n, NEW o \in Objects, o = "StatefulSet" => n = 15,
           n # 18, o \in CronJobs <=> n = 19
    PROVE  /\ o \notin CreateOnly /\ Wanted(o, on) => Legal(Apply(o), on, n)
           /\ o \in Plain /\ Wanted(o, on) => Legal(Apply(o), on, n)
           /\ o \in Plain /\ ~Wanted(o, on) => Legal(Remove(o), on, n)
           /\ o \in CreateOnly /\ Wanted(o, on) => Legal(Ensure(o), on, n)
BY ObjectFacts DEF Legal, Apply, Ensure, Remove, Plain

\* Sequences of up to four legal calls.
LEMMA LegalNone == ASSUME NEW on, NEW n PROVE LegalSeq(<<>>, on, n)
BY DEF LegalSeq

\* A single call.
LEMMA LegalOne ==
    ASSUME NEW on, NEW n, NEW a, Legal(a, on, n) PROVE LegalSeq(<<a>>, on, n)
BY DEF LegalSeq

\* Two calls.
LEMMA LegalTwo ==
    ASSUME NEW on, NEW n, NEW a, NEW b, Legal(a, on, n), Legal(b, on, n)
    PROVE  LegalSeq(<<a, b>>, on, n)
<1>1. Len(<<a, b>>) = 2 /\ \A i \in 1..2 : i = 1 \/ i = 2
  OBVIOUS
<1>2. QED
  BY <1>1 DEF LegalSeq

\* Three calls.
LEMMA LegalThree ==
    ASSUME NEW on, NEW n, NEW a, NEW b, NEW c, Legal(a, on, n), Legal(b, on, n), Legal(c, on, n)
    PROVE  LegalSeq(<<a, b, c>>, on, n)
<1>1. Len(<<a, b, c>>) = 3 /\ \A i \in 1..3 : i = 1 \/ i = 2 \/ i = 3
  OBVIOUS
<1>2. QED
  BY <1>1 DEF LegalSeq

\* One call before three others.
LEMMA Concatenated ==
    ASSUME NEW v, NEW a, NEW b, NEW c
    PROVE  LET s == <<v>> \o <<a, b, c>>
           IN  Len(s) = 4 /\ s[1] = v /\ s[2] = a /\ s[3] = b /\ s[4] = c
<1> DEFINE s == <<v>>  t == <<a, b, c>>  S == {v, a, b, c}  u == s \o t
<1>1. /\ s \in Seq(S) /\ Len(s) = 1 /\ s[1] = v
      /\ t \in Seq(S) /\ Len(t) = 3 /\ t[1] = a /\ t[2] = b /\ t[3] = c
  OBVIOUS
<1> HIDE DEF s, t, S
<1>2. /\ Len(s \o t) = Len(s) + Len(t)
      /\ \A i \in 1..(Len(s) + Len(t)) :
           (s \o t)[i] = IF i <= Len(s) THEN s[i] ELSE t[i - Len(s)]
  BY <1>1, ConcatProperties, Zenon
<1>3. Len(u) = 4 /\ \A i \in 1..4 : u[i] = IF i <= 1 THEN s[i] ELSE t[i - 1]
  BY <1>1, <1>2
<1> HIDE DEF u
<1>4. u[1] = v /\ u[2] = a /\ u[3] = b /\ u[4] = c
  BY <1>1, <1>3
<1>5. QED
  BY <1>3, <1>4 DEF u, s, t

\* Four calls.
LEMMA LegalFour ==
    ASSUME NEW on, NEW n, NEW v, NEW a, NEW b, NEW c,
           Legal(v, on, n), Legal(a, on, n), Legal(b, on, n), Legal(c, on, n)
    PROVE  LegalSeq(<<v>> \o <<a, b, c>>, on, n)
<1> DEFINE s == <<v>> \o <<a, b, c>>
<1>1. Len(s) = 4 /\ s[1] = v /\ s[2] = a /\ s[3] = b /\ s[4] = c
  BY Concatenated
<1>2. \A i \in 1..4 : i = 1 \/ i = 2 \/ i = 3 \/ i = 4
  OBVIOUS
<1> HIDE DEF s
<1>3. LegalSeq(s, on, n)
  BY <1>1, <1>2 DEF LegalSeq
<1>4. QED
  BY <1>3 DEF s

\* One call before none or one.
LEMMA Joined ==
    ASSUME NEW a, NEW b
    PROVE  /\ Len(<<a>> \o <<>>) = 1 /\ (<<a>> \o <<>>)[1] = a
           /\ Len(<<a>> \o <<b>>) = 2 /\ (<<a>> \o <<b>>)[1] = a
           /\ (<<a>> \o <<b>>)[2] = b
<1> DEFINE s == <<a>>  t == <<b>>  e == <<>>  S == {a, b}
<1>1. /\ s \in Seq(S) /\ Len(s) = 1 /\ s[1] = a
      /\ t \in Seq(S) /\ Len(t) = 1 /\ t[1] = b
      /\ e \in Seq(S) /\ Len(e) = 0
  OBVIOUS
<1> HIDE DEF s, t, e, S
<1>2. /\ Len(s \o t) = Len(s) + Len(t)
      /\ \A i \in 1..(Len(s) + Len(t)) :
           (s \o t)[i] = IF i <= Len(s) THEN s[i] ELSE t[i - Len(s)]
  BY <1>1, ConcatProperties, Zenon
<1>3. /\ Len(s \o e) = Len(s) + Len(e)
      /\ \A i \in 1..(Len(s) + Len(e)) :
           (s \o e)[i] = IF i <= Len(s) THEN s[i] ELSE e[i - Len(s)]
  BY <1>1, ConcatProperties, Zenon
<1>4. /\ Len(s \o t) = 2 /\ (s \o t)[1] = a /\ (s \o t)[2] = b
      /\ Len(s \o e) = 1 /\ (s \o e)[1] = a
  BY <1>1, <1>2, <1>3
<1>5. QED
  BY <1>4 DEF s, t, e

\* A call after none or one.
LEMMA Appended ==
    ASSUME NEW r, NEW a
    PROVE  /\ Len(Append(<<r>>, a)) = 2 /\ Append(<<r>>, a)[1] = r
           /\ Append(<<r>>, a)[2] = a
           /\ Len(Append(<<>>, a)) = 1 /\ Append(<<>>, a)[1] = a
<1>1. /\ <<r>> \in Seq({r, a}) /\ <<>> \in Seq({r, a})
      /\ Len(<<r>>) = 1 /\ <<r>>[1] = r /\ Len(<<>>) = 0
  OBVIOUS
<1>2. QED
  BY <1>1

\* When each object is wanted.
LEMMA WantedIs ==
    ASSUME NEW on
    PROVE  /\ \A o \in {"Secret", "PVC", "ConfigMap", "WorkspaceConfigMap",
                        "Service", "StatefulSet"} : Wanted(o, on)
           /\ Wanted("NetworkPolicy", on) <=> "networkPolicy" \in on
           /\ \A o \in RBAC : Wanted(o, on) <=> "serviceAccount" \in on
           /\ Wanted("PDB", on) <=> "pdb" \in on
           /\ Wanted("HPA", on) <=> "hpa" \in on
           /\ Wanted("Ingress", on) <=> "ingress" \in on
           /\ Wanted("HTTPRoute", on) <=> "httpRoute" \in on
           /\ Wanted("ServiceMonitor", on) <=>
                "serviceMonitor" \in on /\ "prometheus" \in crds
           /\ Wanted("PrometheusRule", on) <=>
                "prometheusRule" \in on /\ "prometheus" \in crds
           /\ \A o \in Dashboards : Wanted(o, on) <=> "grafana" \in on
           /\ Wanted("HonchoPVC", on) <=> {"honcho", "honchoPersistence"} \subseteq on
           /\ Wanted("HonchoNetworkPolicy", on) <=>
                {"honcho", "networkPolicy"} \subseteq on
           /\ Wanted("HonchoService", on) <=> "honcho" \in on
           /\ Wanted("HonchoDeployment", on) <=> "honcho" \in on
           /\ \A o \in CronJobs : Wanted(o, on) <=> "schedule" \in on
<1>1. ASSUME NEW o \in {"Secret", "PVC", "ConfigMap", "WorkspaceConfigMap",
                        "Service", "StatefulSet"}
      PROVE  Wanted(o, on)
  BY NeedsAre DEF Wanted, Monitoring
<1>2. /\ Wanted("NetworkPolicy", on) <=> "networkPolicy" \in on
      /\ Wanted("PDB", on) <=> "pdb" \in on
      /\ Wanted("HPA", on) <=> "hpa" \in on
      /\ Wanted("Ingress", on) <=> "ingress" \in on
      /\ Wanted("HTTPRoute", on) <=> "httpRoute" \in on
  BY NeedsAre DEF Wanted, Monitoring
<1>3. \A o \in RBAC : Wanted(o, on) <=> "serviceAccount" \in on
  BY NeedsAre DEF Wanted, Monitoring, RBAC
<1>4. /\ Wanted("ServiceMonitor", on) <=>
           "serviceMonitor" \in on /\ "prometheus" \in crds
      /\ Wanted("PrometheusRule", on) <=>
           "prometheusRule" \in on /\ "prometheus" \in crds
  BY NeedsAre DEF Wanted, Monitoring
<1>5. \A o \in Dashboards : Wanted(o, on) <=> "grafana" \in on
  BY NeedsAre DEF Wanted, Monitoring, Dashboards
<1>6. /\ Wanted("HonchoPVC", on) <=> {"honcho", "honchoPersistence"} \subseteq on
      /\ Wanted("HonchoNetworkPolicy", on) <=>
           {"honcho", "networkPolicy"} \subseteq on
      /\ Wanted("HonchoService", on) <=> "honcho" \in on
      /\ Wanted("HonchoDeployment", on) <=> "honcho" \in on
  BY NeedsAre DEF Wanted, Monitoring
<1>7. \A o \in CronJobs : Wanted(o, on) <=> "schedule" \in on
  BY NeedsAre DEF Wanted, Monitoring, CronJobs
<1>8. QED
  BY <1>1, <1>2, <1>3, <1>4, <1>5, <1>6, <1>7

\* Every call of every step is legal.
LEMMA WalkIsLegal ==
    ASSUME NEW n \in 1..CronJobStep, NEW on
    PROVE  LegalSeq(CallsOf(Order[n], on), on, n)
<1>1. LegalSeq(ReconcileSecret(on), on, 1)
  <2>1. Legal(Apply("Secret"), on, 1)
    BY LegalCalls, WantedIs, ObjectFacts DEF CronJobs
  <2>2. QED
    BY <2>1, LegalOne DEF ReconcileSecret
<1>2. LegalSeq(ReconcilePVC(on), on, 2)
  <2>1. Legal(Ensure("PVC"), on, 2)
    BY LegalCalls, WantedIs, ObjectFacts DEF CronJobs
  <2>2. QED
    BY <2>1, LegalOne DEF ReconcilePVC
<1>3. LegalSeq(ReconcileConfigMap(on), on, 3)
  <2> DEFINE r == [op |-> "resolve", obj |-> "ConfigMap"]
             a == Apply("ConfigMap")
  <2>1. Legal(r, on, 3)
    BY DEF Legal
  <2>2. Legal(a, on, 3)
    BY LegalCalls, WantedIs, ObjectFacts DEF CronJobs
  <2>3. ReconcileConfigMap(on) =
          Append(IF "configMapRef" \in on THEN <<r>> ELSE <<>>, a)
    BY DEF ReconcileConfigMap, ResolveConfigBody
  <2> HIDE DEF r, a
  <2>4. /\ Len(Append(<<r>>, a)) = 2 /\ Append(<<r>>, a)[1] = r
        /\ Append(<<r>>, a)[2] = a
        /\ Len(Append(<<>>, a)) = 1 /\ Append(<<>>, a)[1] = a
    BY Appended
  <2>5. LegalSeq(Append(<<r>>, a), on, 3)
    <3> DEFINE s == Append(<<r>>, a)
    <3>1. Len(s) = 2 /\ s[1] = r /\ s[2] = a /\ \A i \in 1..2 : i = 1 \/ i = 2
      BY <2>4
    <3> HIDE DEF s
    <3>2. LegalSeq(s, on, 3)
      BY <2>1, <2>2, <3>1 DEF LegalSeq
    <3>3. QED
      BY <3>2 DEF s
  <2>6. LegalSeq(Append(<<>>, a), on, 3)
    BY <2>2, <2>4 DEF LegalSeq
  <2>7. QED
    BY <2>3, <2>5, <2>6
<1>4. LegalSeq(ReconcileWorkspaceConfigMap(on), on, 4)
  <2>1. Legal(Apply("WorkspaceConfigMap"), on, 4)
    BY LegalCalls, WantedIs, ObjectFacts DEF CronJobs
  <2>2. QED
    BY <2>1, LegalOne DEF ReconcileWorkspaceConfigMap
<1>5. LegalSeq(ReconcileNetworkPolicy(on), on, 5)
  <2>1. Legal(Switch("NetworkPolicy", "networkPolicy" \in on), on, 5)
    BY LegalCalls, WantedIs, ObjectFacts DEF CronJobs, Switch
  <2>2. QED
    BY <2>1, LegalOne, Zenon DEF ReconcileNetworkPolicy
<1>6. LegalSeq(ReconcileRBAC(on), on, 6)
  <2>1. CASE "serviceAccount" \in on
    <3>1. /\ Legal(Apply("ServiceAccount"), on, 6)
          /\ Legal(Apply("Role"), on, 6)
          /\ Legal(Apply("RoleBinding"), on, 6)
      BY <2>1, LegalCalls, WantedIs, ObjectFacts DEF CronJobs, RBAC
    <3>2. QED
      BY <2>1, <3>1, LegalThree DEF ReconcileRBAC
  <2>2. CASE "serviceAccount" \notin on
    BY <2>2, LegalNone DEF ReconcileRBAC
  <2>3. QED
    BY <2>1, <2>2
<1>7. LegalSeq(ReconcileService(on), on, 7)
  <2>1. Legal(Apply("Service"), on, 7)
    BY LegalCalls, WantedIs, ObjectFacts DEF CronJobs
  <2>2. QED
    BY <2>1, LegalOne DEF ReconcileService
<1>8. LegalSeq(ReconcilePDB(on), on, 8)
  <2>1. Legal(Switch("PDB", "pdb" \in on), on, 8)
    BY LegalCalls, WantedIs, ObjectFacts DEF CronJobs, Switch
  <2>2. QED
    BY <2>1, LegalOne, Zenon DEF ReconcilePDB
<1>9. LegalSeq(ReconcileHPA(on), on, 9)
  <2>1. Legal(Switch("HPA", "hpa" \in on), on, 9)
    BY LegalCalls, WantedIs, ObjectFacts DEF CronJobs, Switch
  <2>2. QED
    BY <2>1, LegalOne, Zenon DEF ReconcileHPA
<1>10. LegalSeq(ReconcileIngress(on), on, 10)
  <2>1. Legal(Switch("Ingress", "ingress" \in on), on, 10)
    BY LegalCalls, WantedIs, ObjectFacts DEF CronJobs, Switch
  <2>2. QED
    BY <2>1, LegalOne, Zenon DEF ReconcileIngress
<1>11. LegalSeq(ReconcileHTTPRoute(on), on, 11)
  <2>1. Legal(Switch("HTTPRoute", "httpRoute" \in on), on, 11)
    BY LegalCalls, WantedIs, ObjectFacts DEF CronJobs, Switch
  <2>2. QED
    BY <2>1, LegalOne, Zenon DEF ReconcileHTTPRoute
<1>12. LegalSeq(ReconcileServiceMonitor(on), on, 12)
  <2>1. CASE "prometheus" \in crds
    <3>1. Legal(Switch("ServiceMonitor", "serviceMonitor" \in on), on, 12)
      BY <2>1, LegalCalls, WantedIs, ObjectFacts DEF CronJobs, Switch
    <3>2. QED
      BY <2>1, <3>1, LegalOne, Zenon DEF ReconcileServiceMonitor
  <2>2. CASE "prometheus" \notin crds
    BY <2>2, LegalNone, Zenon DEF ReconcileServiceMonitor
  <2>3. QED
    BY <2>1, <2>2
<1>13. LegalSeq(ReconcilePrometheusRule(on), on, 13)
  <2>1. CASE "prometheus" \in crds
    <3>1. Legal(Switch("PrometheusRule", "prometheusRule" \in on), on, 13)
      BY <2>1, LegalCalls, WantedIs, ObjectFacts DEF CronJobs, Switch
    <3>2. QED
      BY <2>1, <3>1, LegalOne, Zenon DEF ReconcilePrometheusRule
  <2>2. CASE "prometheus" \notin crds
    BY <2>2, LegalNone, Zenon DEF ReconcilePrometheusRule
  <2>3. QED
    BY <2>1, <2>2
<1>14. LegalSeq(ReconcileGrafanaDashboards(on), on, 14)
  <2>1. /\ Legal(Switch("OperatorDashboard", "grafana" \in on), on, 14)
        /\ Legal(Switch("InstanceDashboard", "grafana" \in on), on, 14)
    BY LegalCalls, WantedIs, ObjectFacts DEF CronJobs, Switch, Dashboards
  <2>2. QED
    BY <2>1, LegalTwo, Zenon DEF ReconcileGrafanaDashboards
<1>15. LegalSeq(ReconcileStatefulSet(on), on, 15)
  <2>1. Legal(Apply("StatefulSet"), on, 15)
    BY LegalCalls, WantedIs, ObjectFacts DEF CronJobs
  <2>2. QED
    BY <2>1, LegalOne DEF ReconcileStatefulSet
<1>16. LegalSeq(ReconcileHoncho(on), on, 16)
  <2> DEFINE v == Ensure("HonchoPVC")
             a == Switch("HonchoService", "honcho" \in on)
             b == Switch("HonchoDeployment", "honcho" \in on)
             c == Switch("HonchoNetworkPolicy",
                         {"honcho", "networkPolicy"} \subseteq on)
             full == {"honcho", "honchoPersistence"} \subseteq on
  <2>1. Legal(a, on, 16) /\ Legal(b, on, 16) /\ Legal(c, on, 16)
    BY LegalCalls, WantedIs, ObjectFacts DEF CronJobs, Switch
  <2>2. full => Legal(v, on, 16)
    BY LegalCalls, WantedIs, ObjectFacts DEF CronJobs
  <2>3. ReconcileHoncho(on) = (IF full THEN <<v>> ELSE <<>>) \o <<a, b, c>>
    BY Zenon DEF ReconcileHoncho
  <2> HIDE DEF v, a, b, c, full
  <2>4. <<>> \o <<a, b, c>> = <<a, b, c>>
    OBVIOUS
  <2>5. CASE full
    BY <2>1, <2>2, <2>3, <2>5, LegalFour
  <2>6. CASE ~full
    BY <2>1, <2>3, <2>4, <2>6, LegalThree
  <2>7. QED
    BY <2>5, <2>6
<1>17. LegalSeq(ReconcileTailscale(on), on, 17)
  BY LegalNone DEF ReconcileTailscale
<1>18. LegalSeq(ReconcileSemaphore(on), on, 18)
  <2> DEFINE p == [op |-> "provision", obj |-> "Semaphore"]
             q == [op |-> "patch", obj |-> "Semaphore"]
  <2>1. Legal(p, on, 18) /\ Legal(q, on, 18)
    BY DEF Legal
  <2>2. ReconcileSemaphore(on) =
          IF "semaphore" \in on
          THEN <<p>> \o (IF "skill" \in on THEN <<>> ELSE <<q>>) ELSE <<>>
    BY Zenon DEF ReconcileSemaphore
  <2> HIDE DEF p, q
  <2> DEFINE s == <<p>> \o <<>>  t == <<p>> \o <<q>>
  <2>3. /\ Len(s) = 1 /\ s[1] = p /\ Len(t) = 2 /\ t[1] = p /\ t[2] = q
        /\ \A i \in 1..2 : i = 1 \/ i = 2
    BY Joined
  <2>4. ReconcileSemaphore(on) \in {s, t, <<>>}
    BY <2>2
  <2> HIDE DEF s, t
  <2>5. LegalSeq(s, on, 18) /\ LegalSeq(t, on, 18)
    BY <2>1, <2>3 DEF LegalSeq
  <2>6. QED
    BY <2>4, <2>5, LegalNone
<1>19. LegalSeq(ReconcileCronJob(on), on, 19)
  <2>1. CASE "schedule" \in on
    <3>1. Legal(Apply("BackupCronJob"), on, 19) /\ Legal(Apply("PruneCronJob"), on, 19)
      BY <2>1, LegalCalls, WantedIs, ObjectFacts DEF CronJobs
    <3>2. QED
      BY <2>1, <3>1, LegalTwo DEF ReconcileCronJob
  <2>2. CASE "schedule" \notin on
    <3>1. Legal(Remove("BackupCronJob"), on, 19)
      BY <2>2, LegalCalls, WantedIs, ObjectFacts DEF CronJobs
    <3>2. QED
      BY <2>2, <3>1, LegalOne DEF ReconcileCronJob
  <2>3. QED
    BY <2>1, <2>2
<1>20. /\ n \in 1..19
       /\ \A i \in 1..19 :
            \/ i = 1 \/ i = 2 \/ i = 3 \/ i = 4 \/ i = 5 \/ i = 6 \/ i = 7
            \/ i = 8 \/ i = 9 \/ i = 10 \/ i = 11 \/ i = 12 \/ i = 13
            \/ i = 14 \/ i = 15 \/ i = 16 \/ i = 17 \/ i = 18 \/ i = 19
  BY OrderIs
<1>21. QED
  BY <1>1, <1>2, <1>3, <1>4, <1>5, <1>6, <1>7, <1>8, <1>9, <1>10, <1>11, <1>12,
     <1>13, <1>14, <1>15, <1>16, <1>17, <1>18, <1>19, <1>20, OrderIs, CallsAre

\* Some call of the first m steps writes the object.
Covered(o, on, m) ==
    \E n \in 1..m, c \in 1..4 :
        /\ c <= Len(CallsOf(Order[n], on))
        /\ CallsOf(Order[n], on)[c] \in {Apply(o), Ensure(o)}

\* What a spec wants is written by some step, and what is neither the pod, nor
\* Honcho's, nor a CronJob by a step before the pod's.
LEMMA WalkIsComplete ==
    ASSUME NEW o \in Objects \ CronJobs, NEW on, Wanted(o, on)
    PROVE  /\ Covered(o, on, 18)
           /\ o \notin Honcho \cup {"StatefulSet"} => Covered(o, on, 14)
<1>1. ASSUME NEW n \in 1..18, NEW c \in 1..4,
             c <= Len(CallsOf(Order[n], on)),
             CallsOf(Order[n], on)[c] \in {Apply(o), Ensure(o)},
             n <= 14 \/ o \in Honcho \cup {"StatefulSet"}
      PROVE  /\ Covered(o, on, 18)
             /\ o \notin Honcho \cup {"StatefulSet"} => Covered(o, on, 14)
  <2>1. Covered(o, on, 18)
    BY <1>1 DEF Covered
  <2>2. CASE n <= 14
    <3>1. n \in 1..14
      BY <2>2
    <3>2. QED
      BY <1>1, <2>1, <3>1 DEF Covered
  <2>3. QED
    BY <1>1, <2>1, <2>2
<1>2. CASE o = "Secret"
  <2>1. /\ Len(CallsOf(Order[1], on)) = 1
        /\ CallsOf(Order[1], on)[1] = Apply(o)
    BY <1>2, OrderIs, CallsAre DEF ReconcileSecret
  <2>2. 1 \in 1..18 /\ 1 <= 14 /\ 1 \in 1..4 /\ 1 <= 1
    OBVIOUS
  <2>3. QED
    BY <1>1, <2>1, <2>2, Zenon
<1>3. CASE o = "PVC"
  <2>1. /\ Len(CallsOf(Order[2], on)) = 1
        /\ CallsOf(Order[2], on)[1] = Ensure(o)
    BY <1>3, OrderIs, CallsAre DEF ReconcilePVC
  <2>2. 2 \in 1..18 /\ 2 <= 14 /\ 1 \in 1..4 /\ 1 <= 1
    OBVIOUS
  <2>3. QED
    BY <1>1, <2>1, <2>2, Zenon
<1>4. CASE o = "ConfigMap"
  <2> DEFINE r == [op |-> "resolve", obj |-> "ConfigMap"]
             a == Apply("ConfigMap")
  <2>1. CallsOf(Order[3], on) =
          Append(IF "configMapRef" \in on THEN <<r>> ELSE <<>>, a)
    BY OrderIs, CallsAre DEF ReconcileConfigMap, ResolveConfigBody
  <2>2. a = Apply(o)
    BY <1>4
  <2> HIDE DEF r, a
  <2>3. /\ Len(Append(<<r>>, a)) = 2 /\ Append(<<r>>, a)[2] = a
        /\ Len(Append(<<>>, a)) = 1 /\ Append(<<>>, a)[1] = a
    BY Appended
  <2>4. CASE "configMapRef" \in on
    BY <1>1, <2>1, <2>2, <2>3, <2>4
  <2>5. CASE "configMapRef" \notin on
    BY <1>1, <2>1, <2>2, <2>3, <2>5
  <2>6. QED
    BY <2>4, <2>5
<1>5. CASE o = "WorkspaceConfigMap"
  <2>1. /\ Len(CallsOf(Order[4], on)) = 1
        /\ CallsOf(Order[4], on)[1] = Apply(o)
    BY <1>5, OrderIs, CallsAre DEF ReconcileWorkspaceConfigMap
  <2>2. 4 \in 1..18 /\ 4 <= 14 /\ 1 \in 1..4 /\ 1 <= 1
    OBVIOUS
  <2>3. QED
    BY <1>1, <2>1, <2>2, Zenon
<1>6. CASE o = "NetworkPolicy"
  <2>1. /\ Len(CallsOf(Order[5], on)) = 1
        /\ CallsOf(Order[5], on)[1] = Apply(o)
    BY <1>6, OrderIs, CallsAre, WantedIs DEF ReconcileNetworkPolicy, Switch
  <2>2. 5 \in 1..18 /\ 5 <= 14 /\ 1 \in 1..4 /\ 1 <= 1
    OBVIOUS
  <2>3. QED
    BY <1>1, <2>1, <2>2, Zenon
<1>7. CASE o = "ServiceAccount"
  <2>1. /\ Len(CallsOf(Order[6], on)) = 3
        /\ CallsOf(Order[6], on)[1] = Apply(o)
    BY <1>7, OrderIs, CallsAre, WantedIs DEF ReconcileRBAC, RBAC
  <2>2. 6 \in 1..18 /\ 6 <= 14 /\ 1 \in 1..4 /\ 1 <= 3
    OBVIOUS
  <2>3. QED
    BY <1>1, <2>1, <2>2, Zenon
<1>8. CASE o = "Role"
  <2>1. /\ Len(CallsOf(Order[6], on)) = 3
        /\ CallsOf(Order[6], on)[2] = Apply(o)
    BY <1>8, OrderIs, CallsAre, WantedIs DEF ReconcileRBAC, RBAC
  <2>2. 6 \in 1..18 /\ 6 <= 14 /\ 2 \in 1..4 /\ 2 <= 3
    OBVIOUS
  <2>3. QED
    BY <1>1, <2>1, <2>2, Zenon
<1>9. CASE o = "RoleBinding"
  <2>1. /\ Len(CallsOf(Order[6], on)) = 3
        /\ CallsOf(Order[6], on)[3] = Apply(o)
    BY <1>9, OrderIs, CallsAre, WantedIs DEF ReconcileRBAC, RBAC
  <2>2. 6 \in 1..18 /\ 6 <= 14 /\ 3 \in 1..4 /\ 3 <= 3
    OBVIOUS
  <2>3. QED
    BY <1>1, <2>1, <2>2, Zenon
<1>10. CASE o = "Service"
  <2>1. /\ Len(CallsOf(Order[7], on)) = 1
        /\ CallsOf(Order[7], on)[1] = Apply(o)
    BY <1>10, OrderIs, CallsAre DEF ReconcileService
  <2>2. 7 \in 1..18 /\ 7 <= 14 /\ 1 \in 1..4 /\ 1 <= 1
    OBVIOUS
  <2>3. QED
    BY <1>1, <2>1, <2>2, Zenon
<1>11. CASE o = "PDB"
  <2>1. /\ Len(CallsOf(Order[8], on)) = 1
        /\ CallsOf(Order[8], on)[1] = Apply(o)
    BY <1>11, OrderIs, CallsAre, WantedIs DEF ReconcilePDB, Switch
  <2>2. 8 \in 1..18 /\ 8 <= 14 /\ 1 \in 1..4 /\ 1 <= 1
    OBVIOUS
  <2>3. QED
    BY <1>1, <2>1, <2>2, Zenon
<1>12. CASE o = "HPA"
  <2>1. /\ Len(CallsOf(Order[9], on)) = 1
        /\ CallsOf(Order[9], on)[1] = Apply(o)
    BY <1>12, OrderIs, CallsAre, WantedIs DEF ReconcileHPA, Switch
  <2>2. 9 \in 1..18 /\ 9 <= 14 /\ 1 \in 1..4 /\ 1 <= 1
    OBVIOUS
  <2>3. QED
    BY <1>1, <2>1, <2>2, Zenon
<1>13. CASE o = "Ingress"
  <2>1. /\ Len(CallsOf(Order[10], on)) = 1
        /\ CallsOf(Order[10], on)[1] = Apply(o)
    BY <1>13, OrderIs, CallsAre, WantedIs DEF ReconcileIngress, Switch
  <2>2. 10 \in 1..18 /\ 10 <= 14 /\ 1 \in 1..4 /\ 1 <= 1
    OBVIOUS
  <2>3. QED
    BY <1>1, <2>1, <2>2, Zenon
<1>14. CASE o = "HTTPRoute"
  <2>1. /\ Len(CallsOf(Order[11], on)) = 1
        /\ CallsOf(Order[11], on)[1] = Apply(o)
    BY <1>14, OrderIs, CallsAre, WantedIs DEF ReconcileHTTPRoute, Switch
  <2>2. 11 \in 1..18 /\ 11 <= 14 /\ 1 \in 1..4 /\ 1 <= 1
    OBVIOUS
  <2>3. QED
    BY <1>1, <2>1, <2>2, Zenon
<1>15. CASE o = "ServiceMonitor"
  <2>1. /\ Len(CallsOf(Order[12], on)) = 1
        /\ CallsOf(Order[12], on)[1] = Apply(o)
    BY <1>15, OrderIs, CallsAre, WantedIs DEF ReconcileServiceMonitor, Switch
  <2>2. 12 \in 1..18 /\ 12 <= 14 /\ 1 \in 1..4 /\ 1 <= 1
    OBVIOUS
  <2>3. QED
    BY <1>1, <2>1, <2>2, Zenon
<1>16. CASE o = "PrometheusRule"
  <2>1. /\ Len(CallsOf(Order[13], on)) = 1
        /\ CallsOf(Order[13], on)[1] = Apply(o)
    BY <1>16, OrderIs, CallsAre, WantedIs DEF ReconcilePrometheusRule, Switch
  <2>2. 13 \in 1..18 /\ 13 <= 14 /\ 1 \in 1..4 /\ 1 <= 1
    OBVIOUS
  <2>3. QED
    BY <1>1, <2>1, <2>2, Zenon
<1>17. CASE o = "OperatorDashboard"
  <2>1. /\ Len(CallsOf(Order[14], on)) = 2
        /\ CallsOf(Order[14], on)[1] = Apply(o)
    BY <1>17, OrderIs, CallsAre, WantedIs DEF ReconcileGrafanaDashboards, Switch, Dashboards
  <2>2. 14 \in 1..18 /\ 14 <= 14 /\ 1 \in 1..4 /\ 1 <= 2
    OBVIOUS
  <2>3. QED
    BY <1>1, <2>1, <2>2, Zenon
<1>18. CASE o = "InstanceDashboard"
  <2>1. /\ Len(CallsOf(Order[14], on)) = 2
        /\ CallsOf(Order[14], on)[2] = Apply(o)
    BY <1>18, OrderIs, CallsAre, WantedIs DEF ReconcileGrafanaDashboards, Switch, Dashboards
  <2>2. 14 \in 1..18 /\ 14 <= 14 /\ 2 \in 1..4 /\ 2 <= 2
    OBVIOUS
  <2>3. QED
    BY <1>1, <2>1, <2>2, Zenon
<1>19. CASE o = "StatefulSet"
  <2>1. /\ Len(CallsOf(Order[15], on)) = 1
        /\ CallsOf(Order[15], on)[1] = Apply(o)
    BY <1>19, OrderIs, CallsAre DEF ReconcileStatefulSet
  <2>2. QED
    BY <1>19, <1>1, <2>1
<1>20. CASE o \in Honcho
  <2> DEFINE v == Ensure("HonchoPVC")
             a == Switch("HonchoService", "honcho" \in on)
             b == Switch("HonchoDeployment", "honcho" \in on)
             c == Switch("HonchoNetworkPolicy",
                         {"honcho", "networkPolicy"} \subseteq on)
             full == {"honcho", "honchoPersistence"} \subseteq on
             s == CallsOf(Order[16], on)
  <2>1. s = (IF full THEN <<v>> ELSE <<>>) \o <<a, b, c>>
    <3>1. s = ReconcileHoncho(on)
      BY OrderIs, CallsAre
    <3>2. QED
      BY <3>1, Zenon DEF ReconcileHoncho
  <2>2. /\ o = "HonchoPVC" => full /\ v = Ensure(o)
        /\ o = "HonchoService" => a = Apply(o)
        /\ o = "HonchoDeployment" => b = Apply(o)
        /\ o = "HonchoNetworkPolicy" => c = Apply(o)
    BY WantedIs DEF Switch
  <2>3. \/ o = "HonchoPVC" \/ o = "HonchoService" \/ o = "HonchoDeployment"
        \/ o = "HonchoNetworkPolicy"
    BY <1>20 DEF Honcho
  <2> HIDE DEF v, a, b, c, full
  <2>4. CASE full
    <3>1. Len(s) = 4 /\ s[1] = v /\ s[2] = a /\ s[3] = b /\ s[4] = c
      BY <2>1, <2>4, Concatenated
    <3>2. QED
      BY <1>20, <1>1, <2>2, <2>3, <3>1
  <2>5. CASE ~full
    <3>1. <<>> \o <<a, b, c>> = <<a, b, c>>
      OBVIOUS
    <3>2. Len(s) = 3 /\ s[1] = a /\ s[2] = b /\ s[3] = c
      BY <2>1, <2>5, <3>1
    <3>3. QED
      BY <1>20, <1>1, <2>2, <2>3, <2>5, <3>2
  <2>6. QED
    BY <2>4, <2>5
<1>21. QED
  BY <1>2, <1>3, <1>4, <1>5, <1>6, <1>7, <1>8, <1>9, <1>10, <1>11,
     <1>12, <1>13, <1>14, <1>15, <1>16, <1>17, <1>18, <1>19, <1>20
  DEF Objects, RBAC, Unwatched, Monitoring, Dashboards, CronJobs

-----------------------------------------------------------------------------
(***************************************************************************)
(* What a call does to the objects.                                        *)
(***************************************************************************)
Put(o) ==
    /\ o \in Objects /\ Wanted(o, inst.on)
    /\ o = "StatefulSet" => step = 15
    /\ o \in CronJobs <=> step = 19
    /\ Write(o, inst.gen)

Dropped(o) ==
    /\ o \in Objects \ Retained /\ ~Wanted(o, inst.on)
    /\ o \in CronJobs <=> step = 19
    /\ Write(o, 0)

Move ==
    \/ UNCHANGED cluster
    \/ \E o \in Objects : Put(o) \/ Dropped(o)

ObjectsKnown ==
    \A o \in Objects : /\ Justified(o, child[o])
                       /\ Justified(o, childCache[o])
                       /\ CacheKnown(o)

\* A spec that has more features wants more.
LEMMA WantedGrows ==
    ASSUME NEW o, NEW on, NEW more, on \subseteq more, Wanted(o, on)
    PROVE  Wanted(o, more)
BY DEF Wanted

\* Generations are in order, and none is taken for a foreign content.
LEMMA Generation ==
    ASSUME TypeOK, CopiesKnown, LoopKnown
    PROVE  /\ MaxGeneration \in Nat /\ Foreign = MaxGeneration + 1
           /\ api.gen \in Nat /\ 1 <= api.gen /\ api.gen <= MaxGeneration
           /\ api.gen < Foreign
           /\ cache.gen \in Nat /\ 1 <= cache.gen /\ cache.gen <= api.gen
           /\ newest \in Nat /\ newest <= api.gen
           /\ api.seen \in Nat /\ lead \in Nat
           /\ step # 0 =>
                /\ inst.gen \in Nat /\ 1 <= inst.gen /\ inst.gen <= api.gen
                /\ loop.gen = newest /\ 1 <= newest /\ newest <= inst.gen
                /\ specs[newest] \subseteq loop.on
                /\ specs[inst.gen] \subseteq inst.on
           /\ step \in 1..18 => inst.gen = newest /\ inst.on = loop.on
<1>1. MaxEdits \in Nat
  BY InstanceAssumption
<1>2. MaxGeneration \in Nat
  BY <1>1 DEF MaxGeneration
<1>3. /\ api.gen \in 1..MaxGeneration /\ cache.gen \in 1..api.gen
      /\ newest \in 0..MaxGeneration /\ newest <= api.gen
      /\ api.seen \in 0..MaxGeneration /\ lead \in 0..MaxGeneration
  BY DEF CopiesKnown, LoopKnown, TypeOK, Generations, HermesInstance
<1>4. step # 0 => /\ inst.gen \in 1..api.gen /\ loop.gen \in 1..api.gen
                  /\ loop.gen = newest /\ newest <= inst.gen
                  /\ specs[loop.gen] \subseteq loop.on
                  /\ specs[inst.gen] \subseteq inst.on
  BY DEF CopiesKnown, CopyKnown, LoopKnown
<1>5. step \in 1..18 => step # 0 /\ inst.gen = loop.gen /\ inst.on = loop.on
  BY OrderIs DEF LoopKnown
<1>6. /\ api.gen \in Nat /\ 1 <= api.gen /\ api.gen <= MaxGeneration
      /\ api.gen < MaxGeneration + 1
      /\ cache.gen \in Nat /\ 1 <= cache.gen /\ cache.gen <= api.gen
      /\ newest \in Nat /\ newest <= api.gen
      /\ api.seen \in Nat /\ lead \in Nat
  BY <1>2, <1>3
<1>7. step # 0 =>
        /\ inst.gen \in Nat /\ 1 <= inst.gen /\ inst.gen <= api.gen
        /\ loop.gen = newest /\ 1 <= newest /\ newest <= inst.gen
  BY <1>4, <1>6
<1>8. QED
  BY <1>2, <1>4, <1>5, <1>6, <1>7 DEF Foreign

\* Contents are numbers.
LEMMA ContentType ==
    ASSUME TypeOK, NEW o \in Objects
    PROVE  child[o] \in Nat /\ childCache[o] \in Nat
<1>1. child[o] \in Contents /\ childCache[o] \in Contents
  BY DEF TypeOK
<1>2. Foreign \in Nat
  BY InstanceAssumption DEF Foreign, MaxGeneration
<1>3. QED
  BY <1>1, <1>2 DEF Contents

\* The parts of the invariant.
LEMMA InvParts ==
    InstanceInv <=> /\ TypeOK /\ CopiesKnown /\ LoopKnown /\ ObjectsKnown
                    /\ PassKnown /\ ObservedMeansApplied
                    /\ PodAfterItsPolicies
BY DEF InstanceInv, ObjectsKnown

\* A write changes one object, its copy unless that lags, and who wrote last.
LEMMA WriteFacts ==
    ASSUME TypeOK, NEW o \in Objects, NEW x \in Contents, Write(o, x)
    PROVE  /\ child' \in [Objects -> Contents]
           /\ childCache' \in [Objects -> Contents]
           /\ \A p \in Objects : child'[p] = IF p = o THEN x ELSE child[p]
           /\ \A p \in Objects : childCache'[p] =
                IF p = o /\ o \notin Lagging THEN x ELSE childCache[p]
           /\ disturbed' = disturbed \ {o} /\ disturbed' \subseteq Objects
BY DEF TypeOK, Write

\* The calls of the pass are those of its spec.
LEMMA CallFacts ==
    ASSUME TypeOK, AtCall
    PROVE  /\ step \in 1..CronJobStep /\ step # 0
           /\ call \in 1..Len(Calls) /\ Len(Calls) \in 0..4
           /\ Legal(Calls[call], inst.on, step)
           /\ Op = Calls[call].op /\ Obj = Calls[call].obj
<1>1. step \in 1..CronJobStep /\ call <= Len(Calls) /\ call \in 1..4
  BY DEF AtCall, TypeOK
<1>2. step # 0
  BY <1>1, OrderIs
<1>3. LegalSeq(Calls, inst.on, step)
  BY <1>1, WalkIsLegal DEF Calls
<1>4. Len(Calls) \in 0..4 /\ \A c \in 1..Len(Calls) : Legal(Calls[c], inst.on, step)
  BY <1>3 DEF LegalSeq
<1>5. call \in 1..Len(Calls)
  BY <1>1, <1>4
<1>6. QED
  BY <1>1, <1>2, <1>4, <1>5 DEF Op, Obj

\* Every call is one of the moves, and a call of the loop that writes leaves
\* the object up to date: also when the cached copy makes it write nothing.
LEMMA CallMoves ==
    ASSUME InstanceInv, AtCall, Effect
    PROVE  /\ Move
           /\ step \in 1..18 /\ Op \in {"apply", "ensure"} =>
                /\ Obj \in Objects \ CronJobs
                /\ \/ Obj \in disturbed'
                   \/ Obj \in CreateOnly /\ child'[Obj] # 0
                   \/ Obj \notin CreateOnly /\ child'[Obj] >= newest
                   \/ ~Wanted(Obj, specs[newest])
<1> DEFINE o == Obj
<1>1. TypeOK /\ CopiesKnown /\ LoopKnown /\ ObjectsKnown
  BY InvParts
<1>2. /\ Legal(Calls[call], inst.on, step) /\ step # 0
      /\ Op = Calls[call].op /\ o = Calls[call].obj
  BY <1>1, CallFacts
<1>3. /\ Op \in {"apply", "ensure", "remove", "resolve", "provision", "patch"}
      /\ Op \in {"apply", "ensure", "remove"} =>
           o \in Objects /\ (o \in CronJobs <=> step = 19)
      /\ Op = "apply" => Wanted(o, inst.on) /\ o \notin CreateOnly
      /\ Op = "ensure" => Wanted(o, inst.on) /\ o \in CreateOnly
      /\ Op = "remove" => ~Wanted(o, inst.on) /\ o \notin Retained
      /\ o = "StatefulSet" => step = 15
  BY <1>2 DEF Legal
<1> HIDE DEF o
<1>4. /\ inst.gen \in Nat /\ 1 <= inst.gen
      /\ inst.gen # Foreign /\ inst.gen \in Contents
      /\ step \in 1..18 => inst.gen = newest /\ step # 19
  BY <1>1, <1>2, Generation DEF Contents
<1>5. o \in Objects => Read(o) = childCache[o]
  BY <1>1, InstanceAssumption DEF Read, ObjectsKnown, CacheKnown
<1>6. CASE Op = "apply" /\ CreateOrUpdate(o)
  <2>1. /\ o \in Objects /\ Wanted(o, inst.on) /\ o \notin CreateOnly
        /\ o \in CronJobs <=> step = 19
    BY <1>3, <1>6
  <2>2. CASE childCache[o] = inst.gen
    <3>1. UNCHANGED cluster
      BY <1>5, <1>6, <2>1, <2>2 DEF CreateOrUpdate
    <3>2. step \in 1..18 => \/ o \in disturbed \/ child[o] >= newest
                            \/ ~Wanted(o, specs[newest])
      <4>1. CacheKnown(o)
        BY <1>1, <2>1 DEF ObjectsKnown
      <4>2. inst.gen # 0 /\ \A k \in inst.gen..inst.gen : k = inst.gen
        BY <1>4
      <4>3. QED
        BY <1>4, <2>1, <2>2, <4>1, <4>2 DEF CacheKnown
    <3>3. QED
      BY <1>4, <1>6, <2>1, <3>1, <3>2 DEF Move, cluster, o
  <2>3. CASE childCache[o] # inst.gen
    <3>1. Write(o, inst.gen)
      BY <1>5, <1>6, <2>1, <2>3 DEF CreateOrUpdate
    <3>2. child'[o] = inst.gen
      BY <1>1, <1>4, <2>1, <3>1, WriteFacts
    <3>3. Put(o)
      BY <1>3, <2>1, <3>1 DEF Put
    <3>4. step \in 1..18 => child'[o] >= newest
      BY <1>4, <3>2
    <3>5. QED
      BY <1>4, <2>1, <3>3, <3>4 DEF Move, o
  <2>4. QED
    BY <2>2, <2>3
<1>7. CASE Op = "ensure" /\ CreateIfMissing(o)
  <2>1. /\ o \in Objects /\ Wanted(o, inst.on) /\ o \in CreateOnly
        /\ o \in CronJobs <=> step = 19
    BY <1>3, <1>7
  <2>2. CASE childCache[o] # 0
    <3>1. UNCHANGED cluster
      BY <1>5, <1>7, <2>1, <2>2 DEF CreateIfMissing
    <3>2. o \in CronJobs \/ o \in disturbed \/ child[o] # 0
      BY <1>1, <2>1, <2>2 DEF ObjectsKnown, CacheKnown
    <3>3. QED
      BY <1>4, <1>7, <2>1, <3>1, <3>2 DEF Move, cluster, o
  <2>3. CASE childCache[o] = 0
    <3>1. Write(o, inst.gen)
      BY <1>5, <1>7, <2>1, <2>3 DEF CreateIfMissing
    <3>2. child'[o] = inst.gen
      BY <1>1, <1>4, <2>1, <3>1, WriteFacts
    <3>3. Put(o)
      BY <1>3, <2>1, <3>1 DEF Put
    <3>4. child'[o] # 0
      BY <1>4, <3>2
    <3>5. QED
      BY <1>4, <2>1, <3>3, <3>4 DEF Move, o
  <2>4. QED
    BY <2>2, <2>3
<1>8. CASE Op = "remove" /\ DeleteIfExists(o)
  <2>1. /\ o \in Objects \ Retained /\ ~Wanted(o, inst.on)
        /\ o \in CronJobs <=> step = 19
    BY <1>3, <1>8
  <2>2. UNCHANGED cluster \/ Write(o, 0)
    BY <1>8 DEF DeleteIfExists
  <2>3. Move
    BY <2>1, <2>2 DEF Move, Dropped
  <2>4. QED
    BY <1>8, <2>3
<1>9. CASE Op \in {"resolve", "provision", "patch"} /\ UNCHANGED cluster
  BY <1>9 DEF Move
<1>10. QED
  BY <1>6, <1>7, <1>8, <1>9 DEF Effect, o

\* What a step leaves of the calls and of what is wanted.
LEMMA CallsStable ==
    ASSUME crds' = crds
    PROVE  /\ \A n, on : CallsOf(n, on)' = CallsOf(n, on)
           /\ \A o, on : Wanted(o, on)' <=> Wanted(o, on)
<1>1. \A n, on : CallsOf(n, on)' = CallsOf(n, on)
  BY DEF CallsOf, ReconcileServiceMonitor, ReconcilePrometheusRule
<1>2. \A o, on : Wanted(o, on)' <=> Wanted(o, on)
  BY DEF Wanted
<1>3. QED
  BY <1>1, <1>2

\* The specs of the generations so far stay.
SpecsKept ==
    /\ crds' = crds
    /\ \A g \in 1..api.gen : specs'[g] = specs[g]

\* What is wanted stays with them.
LEMMA WantedStable ==
    ASSUME SpecsKept
    PROVE  \A o \in Objects, g \in 1..api.gen :
             Wanted(o, specs[g])' <=> Wanted(o, specs[g])
BY CallsStable DEF SpecsKept, Wanted

\* Generations go up.
Later ==
    /\ SpecsKept
    /\ newest' \in Nat /\ newest <= newest'
    /\ api'.gen \in Nat /\ api.gen <= api'.gen

\* What is known of the contents of an object stays known.
LEMMA KnownLater ==
    ASSUME TypeOK, CopiesKnown, LoopKnown, Later, NEW o \in Objects
    PROVE  /\ \A x \in Nat : Justified(o, x) => Justified(o, x)'
           /\ \A x \in Nat : x # 0 /\ (\E k \in x..newest : ~Wanted(o, specs[k]))
                => \E k \in x..newest' : ~Wanted(o, specs[k])'
<1>1. /\ newest \in Nat /\ newest <= api.gen /\ api.gen \in Nat
      /\ newest' \in Nat /\ newest <= newest'
      /\ api'.gen \in Nat /\ api.gen <= api'.gen
  BY Generation DEF Later
<1>2. ASSUME NEW x \in Nat, Justified(o, x) PROVE Justified(o, x)'
  <2>1. x = Foreign \/ x <= IF o \in CronJobs THEN api.gen ELSE newest
    BY <1>2 DEF Justified
  <2>2. x = Foreign \/ x <= IF o \in CronJobs THEN api'.gen ELSE newest'
    BY <1>1, <2>1
  <2>3. QED
    BY <2>2 DEF Justified
<1>3. ASSUME NEW x \in Nat, x # 0, NEW k \in x..newest, ~Wanted(o, specs[k])
      PROVE  \E l \in x..newest' : ~Wanted(o, specs[l])'
  <2>1. k \in 1..api.gen /\ k \in x..newest'
    BY <1>1, <1>3
  <2>2. ~Wanted(o, specs[k])'
    BY <1>3, <2>1, WantedStable DEF Later
  <2>3. QED
    BY <2>1, <2>2
<1>4. QED
  BY <1>2, <1>3

\* An object that nobody touches stays known.
LEMMA UntouchedKnown ==
    ASSUME TypeOK, CopiesKnown, LoopKnown, ObjectsKnown, Later,
           NEW o \in Objects, child'[o] = child[o],
           childCache'[o] = childCache[o], o \in disturbed' <=> o \in disturbed
    PROVE  /\ Justified(o, child[o])' /\ Justified(o, childCache[o])'
           /\ CacheKnown(o)'
<1>1. /\ Justified(o, child[o]) /\ Justified(o, childCache[o]) /\ CacheKnown(o)
      /\ child[o] \in Nat /\ childCache[o] \in Nat
  BY ContentType DEF ObjectsKnown
<1>2. /\ \A x \in Nat : Justified(o, x) => Justified(o, x)'
      /\ \A x \in Nat : x # 0 /\ (\E k \in x..newest : ~Wanted(o, specs[k]))
           => \E k \in x..newest' : ~Wanted(o, specs[k])'
  BY KnownLater
<1>3. Justified(o, child[o])' /\ Justified(o, childCache[o])'
  <2>1. PICK x \in Nat, y \in Nat : x = child[o] /\ y = childCache[o]
    BY <1>1
  <2>2. Justified(o, x)' /\ Justified(o, y)'
    BY <1>1, <1>2, <2>1
  <2>3. QED
    BY <2>1, <2>2 DEF Justified
<1>4. CacheKnown(o)'
  BY <1>1, <1>2 DEF CacheKnown, Foreign
<1>5. QED
  BY <1>3, <1>4

\* Objects that nobody touches stay known while the passes go on.
LEMMA ObjectsUntouched ==
    ASSUME TypeOK, CopiesKnown, LoopKnown, ObjectsKnown, Later,
           UNCHANGED cluster
    PROVE  ObjectsKnown'
<1>1. child' = child /\ childCache' = childCache /\ disturbed' = disturbed
  BY DEF cluster
<1>2. QED
  BY <1>1, UntouchedKnown DEF ObjectsKnown

\* The objects stay known through every move of a pass.
LEMMA ObjectsMoved ==
    ASSUME TypeOK, CopiesKnown, LoopKnown, ObjectsKnown, Later,
           step # 0, step \in 1..19, Move
    PROVE  ObjectsKnown'
<1>1. /\ newest \in Nat /\ 1 <= newest /\ newest <= api.gen /\ api.gen \in Nat
      /\ inst.gen \in Nat /\ 1 <= inst.gen /\ inst.gen <= api.gen
      /\ newest <= inst.gen /\ inst.gen < Foreign /\ Foreign \in Nat
      /\ inst.gen \in Contents /\ 0 \in Contents
      /\ step \in 1..18 => inst.gen = newest
      /\ specs[inst.gen] \subseteq inst.on
  BY Generation DEF Contents
<1>2. /\ newest' \in Nat /\ newest <= newest'
      /\ api'.gen \in Nat /\ api.gen <= api'.gen /\ SpecsKept
  BY DEF Later
<1>3. CASE UNCHANGED cluster
  BY <1>3, ObjectsUntouched
<1>4. ASSUME NEW o \in Objects, Put(o) \/ Dropped(o) PROVE ObjectsKnown'
  <2>1. PICK x \in Contents :
          /\ Write(o, x)
          /\ (x = inst.gen /\ Put(o)) \/ (x = 0 /\ Dropped(o))
    BY <1>1, <1>4 DEF Put, Dropped
  <2>2. /\ \A p \in Objects : child'[p] = IF p = o THEN x ELSE child[p]
        /\ \A p \in Objects : childCache'[p] =
             IF p = o /\ o \notin Lagging THEN x ELSE childCache[p]
        /\ disturbed' = disturbed \ {o}
    BY <2>1, WriteFacts
  <2>3. ASSUME NEW p \in Objects, p # o
        PROVE  /\ Justified(p, child[p])' /\ Justified(p, childCache[p])'
               /\ CacheKnown(p)'
    <3>1. /\ child'[p] = child[p] /\ childCache'[p] = childCache[p]
          /\ p \in disturbed' <=> p \in disturbed
      BY <2>2, <2>3
    <3>2. QED
      BY <3>1, UntouchedKnown
  <2>4. /\ o \in CronJobs <=> step = 19
        /\ o \notin CronJobs => inst.gen = newest
    BY <1>1, <2>1 DEF Put, Dropped
  <2>5. x \in Nat /\ x <= IF o \in CronJobs THEN api'.gen ELSE newest'
    BY <1>1, <1>2, <2>1, <2>4
  <2>6. /\ childCache[o] \in Nat
        /\ Justified(o, childCache[o])
        /\ \/ Justified(o, childCache[o])'
           \/ childCache'[o] # childCache[o]
    <3>1. childCache[o] \in Nat /\ Justified(o, childCache[o])
      BY ContentType DEF ObjectsKnown
    <3>2. PICK y \in Nat : y = childCache[o]
      BY <3>1
    <3>3. Justified(o, y)'
      BY <3>1, <3>2, KnownLater
    <3>4. QED
      BY <3>1, <3>2, <3>3 DEF Justified
  <2>7. Justified(o, child[o])' /\ Justified(o, childCache[o])'
    BY <2>2, <2>5, <2>6 DEF Justified
  <2>8. CacheKnown(o)'
    <3>1. CASE o \in CronJobs
      BY <2>2, <3>1 DEF CacheKnown
    <3>2. CASE o \notin CronJobs /\ x # 0
      <4>1. x = newest /\ child'[o] = newest
        BY <2>1, <2>2, <2>4, <3>2
      <4>2. childCache'[o] = Foreign \/ newest >= childCache'[o]
        BY <1>1, <2>2, <2>4, <2>5, <2>6, <3>2, <4>1 DEF Justified
      <4>3. QED
        BY <1>1, <2>2, <4>1, <4>2 DEF CacheKnown, Foreign
    <3>3. CASE o \notin CronJobs /\ x = 0
      <4>1. Dropped(o) /\ inst.gen = newest
        BY <1>1, <2>1, <2>4, <3>3
      <4>2. o \notin CreateOnly /\ ~Wanted(o, specs[newest])
        <5>1. o \notin CreateOnly /\ ~Wanted(o, inst.on)
          BY <4>1 DEF Dropped, CreateOnly, Retained
        <5>2. QED
          BY <1>1, <4>1, <5>1, WantedGrows
      <4>3. PICK k \in 1..api.gen : k = newest
        BY <1>1
      <4>4. ~Wanted(o, specs[k])'
        <5>1. ~Wanted(o, specs[k])
          BY <4>2, <4>3
        <5>2. QED
          BY <1>2, <5>1, WantedStable
      <4>5. PICK y \in Nat : y = childCache'[o]
        BY <2>2, <2>5, <2>6
      <4>6. y # 0 /\ y # Foreign => k \in y..newest'
        BY <1>1, <1>2, <2>2, <2>6, <3>3, <4>3, <4>5 DEF Justified
      <4>7. QED
        BY <2>2, <4>2, <4>4, <4>5, <4>6 DEF CacheKnown, Foreign
    <3>4. QED
      BY <3>1, <3>2, <3>3
  <2>9. QED
    BY <2>3, <2>7, <2>8 DEF ObjectsKnown
<1>5. QED
  BY <1>3, <1>4 DEF Move

\* An object that the spec of the loop wants stays up to date, or becomes so
\* when it was disturbed and no longer is.
LEMMA MoveKeeps ==
    ASSUME TypeOK, CopiesKnown, LoopKnown, step # 0, step \in 1..19, Move,
           NEW o \in Objects \ CronJobs, NEW g \in Nat, g <= newest,
           o \notin disturbed', o \notin disturbed => UpToDate(o, g),
           Wanted(o, specs[newest])
    PROVE  UpToDate(o, g)'
<1>1. /\ inst.gen \in Nat /\ 1 <= inst.gen /\ inst.gen \in Contents
      /\ 0 \in Contents /\ newest \in Nat
      /\ specs[newest] \subseteq loop.on
      /\ step \in 1..18 => inst.gen = newest /\ inst.on = loop.on
  BY Generation DEF Contents
<1>2. CASE UNCHANGED cluster
  BY <1>2 DEF cluster, UpToDate
<1>3. ASSUME NEW p \in Objects, Put(p) PROVE UpToDate(o, g)'
  <2>1. Write(p, inst.gen) /\ (p \in CronJobs <=> step = 19)
    BY <1>3 DEF Put
  <2>2. /\ child'[o] = IF o = p THEN inst.gen ELSE child[o]
        /\ disturbed' = disturbed \ {p}
    BY <1>1, <2>1, WriteFacts
  <2>3. o = p => inst.gen = newest
    BY <1>1, <2>1
  <2>4. CASE o = p
    <3>1. child'[o] >= g /\ child'[o] # 0
      BY <1>1, <2>2, <2>3, <2>4
    <3>2. QED
      BY <3>1 DEF UpToDate
  <2>5. CASE o # p
    BY <2>2, <2>5 DEF UpToDate
  <2>6. QED
    BY <2>4, <2>5
<1>4. ASSUME NEW p \in Objects, Dropped(p) PROVE UpToDate(o, g)'
  <2>1. Write(p, 0) /\ (p \in CronJobs <=> step = 19) /\ ~Wanted(p, inst.on)
    BY <1>4 DEF Dropped
  <2>2. p # o
    <3>1. SUFFICES ASSUME p = o PROVE FALSE
      OBVIOUS
    <3>2. inst.on = loop.on
      BY <1>1, <2>1, <3>1
    <3>3. QED
      BY <1>1, <2>1, <3>1, <3>2, WantedGrows
  <2>3. child'[o] = child[o] /\ disturbed' = disturbed \ {p}
    BY <1>1, <2>1, <2>2, WriteFacts
  <2>4. QED
    BY <2>2, <2>3 DEF UpToDate
<1>5. QED
  BY <1>2, <1>3, <1>4 DEF Move

\* A call the pass has made is one of its walk.
LEMMA MadeCall ==
    ASSUME PassKnown, NEW n \in 1..18, NEW c \in 1..4, Made(n, c),
           NEW o, o = CallsOf(Order[n], loop.on)[c].obj,
           CallsOf(Order[n], loop.on)[c].op \in {"apply", "ensure"}
    PROVE  /\ o \in Objects \ CronJobs
           /\ o \in disturbed \/ ~Wanted(o, specs[loop.gen])
                \/ UpToDate(o, loop.gen)
<1>1. o \in disturbed \/ ~Wanted(o, specs[loop.gen]) \/ UpToDate(o, loop.gen)
  <2>1. CronJobStep - 1 = 18
    BY OrderIs
  <2>2. \A m \in 1..18, d \in 1..4 : Made(m, d) =>
          (CallsOf(Order[m], loop.on)[d].op \in {"apply", "ensure"}
             /\ CallsOf(Order[m], loop.on)[d].obj \notin disturbed
           => (Wanted(CallsOf(Order[m], loop.on)[d].obj, specs[loop.gen])
               => UpToDate(CallsOf(Order[m], loop.on)[d].obj, loop.gen)))
    BY <2>1, Zenon DEF PassKnown
  <2>3. QED
    BY <2>2, Zenon
<1>2. n \in 1..CronJobStep /\ c <= Len(CallsOf(Order[n], loop.on)) /\ n # 19
  BY OrderIs DEF Made
<1>3. LegalSeq(CallsOf(Order[n], loop.on), loop.on, n)
  BY <1>2, WalkIsLegal
<1>4. Legal(CallsOf(Order[n], loop.on)[c], loop.on, n)
  BY <1>2, <1>3 DEF LegalSeq
<1>5. QED
  BY <1>1, <1>2, <1>4 DEF Legal

\* Once the pass is beyond step m, what the first m steps write is there.
LEMMA PassCovers ==
    ASSUME PassKnown, NEW m \in 1..18, step \in Nat, m < step,
           NEW o \in Objects, o \notin disturbed, Covered(o, loop.on, m),
           Wanted(o, specs[loop.gen])
    PROVE  UpToDate(o, loop.gen)
<1>1. PICK n \in 1..m, c \in 1..4 :
        /\ c <= Len(CallsOf(Order[n], loop.on))
        /\ CallsOf(Order[n], loop.on)[c] \in {Apply(o), Ensure(o)}
  BY DEF Covered
<1>2. n \in 1..18 /\ n < step
  OBVIOUS
<1>3. Made(n, c)
  BY <1>1, <1>2 DEF Made
<1>4. /\ CallsOf(Order[n], loop.on)[c].op \in {"apply", "ensure"}
      /\ CallsOf(Order[n], loop.on)[c].obj = o
  BY <1>1 DEF Apply, Ensure
<1>5. QED
  BY <1>2, <1>3, <1>4, MadeCall

\* What is wanted for some generations, after the step and before.
LEMMA WantedBefore ==
    ASSUME SpecsKept, api.gen \in Nat, api'.gen \in Nat, api.gen <= api'.gen,
           NEW o \in Objects, NEW g \in Nat, g # 0,
           \A h \in g..api'.gen : Wanted(o, specs[h])'
    PROVE  \A h \in g..api.gen : Wanted(o, specs[h])
<1>1. SUFFICES ASSUME NEW h \in g..api.gen PROVE Wanted(o, specs[h])
  OBVIOUS
<1>2. h \in 1..api.gen /\ h \in g..api'.gen
  OBVIOUS
<1>3. QED
  BY <1>2, WantedStable

\* The pod's template comes last also when a call moves an object.
LEMMA PodMoved ==
    ASSUME InstanceInv, Later, step # 0, step \in 1..19, Move,
           api'.gen = api.gen
    PROVE  PodAfterItsPolicies'
<1>1. /\ TypeOK /\ CopiesKnown /\ LoopKnown /\ PassKnown /\ PodAfterItsPolicies
      /\ \A o \in Objects : Justified(o, child[o])
  BY InvParts DEF ObjectsKnown
<1>2. /\ newest \in Nat /\ 1 <= newest /\ newest <= api.gen
      /\ inst.gen \in Contents /\ 0 \in Contents
      /\ api.gen \in Nat /\ api.gen < Foreign /\ Foreign \in Nat
      /\ loop.gen = newest /\ specs[newest] \subseteq loop.on
      /\ step \in 1..18 => inst.gen = newest
  BY <1>1, Generation DEF Contents
<1>3. /\ SpecsKept /\ api'.gen \in Nat /\ api.gen <= api'.gen /\ step \in Nat
  BY DEF Later
<1>4. /\ "StatefulSet" \in Objects \ CronJobs
      /\ \A on : Wanted("StatefulSet", on)
  BY ObjectFacts, WantedIs DEF CronJobs
<1>5. SUFFICES ASSUME NEW g \in 1..api'.gen, child'["StatefulSet"] = g,
                      NEW o \in Objects \ (Honcho \cup CronJobs \cup disturbed'),
                      \A h \in g..api'.gen : Wanted(o, specs[h])'
               PROVE  UpToDate(o, g)'
  BY DEF PodAfterItsPolicies
<1>6. \A h \in g..api.gen : Wanted(o, specs[h])
  BY <1>2, <1>3, <1>5, WantedBefore
<1>7. CASE Put("StatefulSet")
  <2>1. step = 15 /\ Write("StatefulSet", inst.gen) /\ inst.gen = newest
    BY <1>2, <1>7 DEF Put
  <2>2. /\ \A p \in Objects : child'[p] =
             IF p = "StatefulSet" THEN newest ELSE child[p]
        /\ disturbed' = disturbed \ {"StatefulSet"}
    BY <1>1, <1>2, <1>4, <2>1, WriteFacts
  <2>3. g = newest
    BY <1>4, <1>5, <2>2
  <2>4. CASE o = "StatefulSet"
    BY <1>2, <1>4, <2>2, <2>3, <2>4, ObjectFacts DEF UpToDate, Plain
  <2>5. CASE o # "StatefulSet"
    <3>1. newest \in g..api.gen
      BY <1>2, <2>3
    <3>2. Wanted(o, specs[newest]) /\ Wanted(o, loop.on)
      BY <1>2, <1>6, <3>1, WantedGrows
    <3>3. Covered(o, loop.on, 14)
      BY <2>5, <3>2, WalkIsComplete
    <3>4. o \notin disturbed
      BY <2>2, <2>5
    <3>5. UpToDate(o, loop.gen)
      BY <1>1, <1>2, <1>3, <2>1, <3>2, <3>3, <3>4, PassCovers
    <3>6. QED
      BY <1>2, <2>2, <2>3, <2>5, <3>5 DEF UpToDate
  <2>6. QED
    BY <2>4, <2>5
<1>8. CASE ~Put("StatefulSet")
  <2>1. child'["StatefulSet"] = child["StatefulSet"]
    <3>1. CASE UNCHANGED cluster
      BY <3>1 DEF cluster
    <3>2. ASSUME NEW p \in Objects, Put(p) \/ Dropped(p)
          PROVE  child'["StatefulSet"] = child["StatefulSet"]
      <4>1. p # "StatefulSet"
        BY <1>4, <1>8, <3>2 DEF Dropped
      <4>2. Write(p, inst.gen) \/ Write(p, 0)
        BY <3>2 DEF Put, Dropped
      <4>3. QED
        BY <1>1, <1>2, <1>4, <4>1, <4>2, WriteFacts
    <3>3. QED
      BY <3>1, <3>2 DEF Move
  <2>2. g # 0 /\ g \in Nat
    BY <1>3
  <2>3. g <= newest \/ g = Foreign
    BY <1>1, <1>4, <1>5, <2>1 DEF Justified
  <2>4. g # Foreign
    BY <1>2, <1>5
  <2>5. CASE g <= newest
    <3>1. newest \in g..api.gen /\ g \in 1..api.gen
      BY <1>2, <2>2, <2>5
    <3>2. Wanted(o, specs[newest])
      BY <1>6, <3>1
    <3>3. o \notin disturbed => UpToDate(o, g)
      BY <1>1, <1>5, <1>6, <2>1, <3>1 DEF PodAfterItsPolicies
    <3>4. QED
      BY <1>1, <2>2, <2>5, <3>2, <3>3, MoveKeeps
  <2>6. QED
    BY <2>3, <2>4, <2>5
<1>9. QED
  BY <1>7, <1>8

\* What a status has observed stays there when a call moves an object.
LEMMA ObservedMoved ==
    ASSUME InstanceInv, Later, step # 0, step \in 1..19, Move,
           api'.gen = api.gen, api'.seen = api.seen, lead' = lead
    PROVE  ObservedMeansApplied'
<1>1. TypeOK /\ CopiesKnown /\ LoopKnown /\ ObservedMeansApplied
  BY InvParts
<1>2. /\ newest \in Nat /\ newest <= api.gen /\ api.gen \in Nat
      /\ api.seen # 0 => api.seen - lead \in 1..newest
  BY <1>1, Generation DEF LoopKnown
<1>3. SpecsKept
  BY DEF Later
<1>4. SUFFICES ASSUME api.seen # 0,
                      NEW g, g = api.seen - lead,
                      NEW o \in Objects \ (CronJobs \cup disturbed'),
                      \A h \in g..api'.gen : Wanted(o, specs[h])'
               PROVE  UpToDate(o, g)'
  BY DEF ObservedMeansApplied
<1>5. g \in Nat /\ g # 0 /\ g <= newest /\ newest \in g..api.gen
  BY <1>2, <1>4
<1>6. \A h \in g..api.gen : Wanted(o, specs[h])
  BY <1>2, <1>3, <1>4, <1>5, WantedBefore
<1>7. o \notin disturbed => UpToDate(o, g)
  BY <1>1, <1>4, <1>6 DEF ObservedMeansApplied
<1>8. Wanted(o, specs[newest])
  BY <1>5, <1>6
<1>9. QED
  BY <1>1, <1>5, <1>7, <1>8, MoveKeeps

\* The calls the loop has behind it after a step.
LEMMA MadeThen ==
    ASSUME crds' = crds, loop' = loop
    PROVE  \A n, c : Made(n, c)' <=>
             /\ c <= Len(CallsOf(Order[n], loop.on))
             /\ n < step' \/ (n = step' /\ c < call')
<1>1. \A n : CallsOf(Order[n], loop.on)' = CallsOf(Order[n], loop.on)
  BY CallsStable
<1>2. QED
  BY <1>1 DEF Made

\* What the loop has behind it, call by call.
LEMMA PassThen ==
    ASSUME InstanceInv, SpecsKept, step # 0, loop' = loop,
           \A n \in 1..17, c \in 1..4, o \in Objects \ CronJobs :
             /\ Made(n, c)'
             /\ CallsOf(Order[n], loop.on)[c].op \in {"apply", "ensure"}
             /\ o = CallsOf(Order[n], loop.on)[c].obj
             /\ o \notin disturbed'
             /\ Wanted(o, specs[newest])
             => UpToDate(o, loop.gen)'
    PROVE  PassKnown'
<1>1. /\ newest \in Nat /\ newest \in 1..api.gen /\ loop.gen = newest
      /\ crds' = crds
  <2>1. TypeOK /\ CopiesKnown /\ LoopKnown
    BY InvParts
  <2>2. QED
    BY <2>1, Generation DEF SpecsKept
<1>2. ASSUME NEW n \in 1..18, NEW c \in 1..4, Made(n, c)',
             NEW o, o = CallsOf(Order[n], loop.on)'[c].obj,
             CallsOf(Order[n], loop.on)'[c].op \in {"apply", "ensure"},
             o \notin disturbed', Wanted(o, specs[loop.gen])'
      PROVE  UpToDate(o, loop.gen)'
  <2>1. CallsOf(Order[n], loop.on)' = CallsOf(Order[n], loop.on)
    BY <1>1, CallsStable
  <2>2. n \in 1..CronJobStep
    BY OrderIs
  <2>3. LegalSeq(CallsOf(Order[n], loop.on), loop.on, n)
    BY <2>2, WalkIsLegal
  <2>4. Legal(CallsOf(Order[n], loop.on)[c], loop.on, n)
    <3>1. c <= Len(CallsOf(Order[n], loop.on))
      BY <1>2, <2>1 DEF Made
    <3>2. PICK s : s = CallsOf(Order[n], loop.on)
      OBVIOUS
    <3>3. Len(s) \in 0..4 /\ c \in 1..Len(s)
      BY <2>3, <3>1, <3>2 DEF LegalSeq
    <3>4. QED
      BY <2>3, <3>2, <3>3 DEF LegalSeq
  <2>5. o \in Objects \ CronJobs /\ n # 18
    BY <1>2, <2>1, <2>4 DEF Legal
  <2>6. Wanted(o, specs[newest])
    <3>1. PICK g \in 1..api.gen : g = newest
      BY <1>1
    <3>2. Wanted(o, specs[g])'
      BY <1>1, <1>2, <3>1 DEF Wanted
    <3>3. QED
      BY <2>5, <3>1, <3>2, WantedStable
  <2>7. n \in 1..17
    BY <2>5
  <2>8. QED
    BY <1>2, <2>1, <2>5, <2>6, <2>7
<1>3. CronJobStep - 1 = 18
  BY OrderIs
<1>4. QED
  BY <1>2, <1>3, Zenon DEF PassKnown

\* What the loop has behind it stays so, and the call it makes is added.
LEMMA PassGrows ==
    ASSUME InstanceInv, SpecsKept, step # 0, step \in 1..19, Move,
           loop' = loop,
           \A n \in 1..18, c \in 1..4 : Made(n, c)' =>
               \/ Made(n, c)
               \/ n = step /\ c = call /\ AtCall /\ Effect
    PROVE  PassKnown'
<1>1. TypeOK /\ CopiesKnown /\ LoopKnown /\ PassKnown
  BY InvParts
<1>2. PICK g \in Nat : g = newest /\ g = loop.gen /\ g <= newest
  BY <1>1, Generation
<1>3. step \in 1..18 => inst.on = loop.on
  BY <1>1, Generation
<1>4. ASSUME NEW n \in 1..17, NEW c \in 1..4, NEW o \in Objects \ CronJobs,
             Made(n, c)',
             CallsOf(Order[n], loop.on)[c].op \in {"apply", "ensure"},
             o = CallsOf(Order[n], loop.on)[c].obj,
             o \notin disturbed', Wanted(o, specs[newest])
      PROVE  UpToDate(o, loop.gen)'
  <2>1. UpToDate(o, g)'
    <3>1. CASE Made(n, c)
      <4>1. n \in 1..18
        OBVIOUS
      <4>2. o \in disturbed \/ ~Wanted(o, specs[loop.gen])
              \/ UpToDate(o, loop.gen)
        BY <1>1, <1>4, <3>1, <4>1, MadeCall
      <4>3. o \notin disturbed => UpToDate(o, g)
        BY <1>2, <1>4, <4>2
      <4>4. QED
        BY <1>1, <1>2, <1>4, <4>3, MoveKeeps
    <3>2. CASE n = step /\ c = call /\ AtCall /\ Effect
      <4>1. step \in 1..18
        BY <3>2
      <4>2. Op = CallsOf(Order[n], loop.on)[c].op /\ o = Obj
        BY <1>3, <1>4, <3>2, <4>1 DEF Op, Obj, Calls
      <4>3. \/ Obj \in disturbed'
            \/ Obj \in CreateOnly /\ child'[Obj] # 0
            \/ Obj \notin CreateOnly /\ child'[Obj] >= newest
            \/ ~Wanted(Obj, specs[newest])
        BY <1>4, <3>2, <4>1, <4>2, CallMoves
      <4>4. QED
        BY <1>2, <1>4, <4>2, <4>3 DEF UpToDate
    <3>3. n \in 1..18
      OBVIOUS
    <3>4. QED
      BY <1>4, <3>1, <3>2, <3>3
  <2>2. QED
    BY <1>2, <2>1 DEF UpToDate
<1>5. QED
  BY <1>4, PassThen

\* What others do to an object counts for nothing but that object.
Elsewhere ==
    /\ \A o \in Objects \ disturbed' :
         o \notin disturbed /\ child'[o] = child[o]
    /\ child'["StatefulSet"] \in {child["StatefulSet"], 0, Foreign}

\* It is nothing when nothing is touched.
LEMMA NothingElsewhere == ASSUME UNCHANGED cluster PROVE Elsewhere
BY DEF cluster, Elsewhere

\* What a status has observed and what the pod depends on stay so.
LEMMA ObservedElsewhere ==
    ASSUME InstanceInv, Elsewhere, Later, api'.seen = api.seen, lead' = lead,
           api'.gen < Foreign
    PROVE  ObservedMeansApplied' /\ PodAfterItsPolicies'
<1>1. /\ TypeOK /\ CopiesKnown /\ LoopKnown /\ ObservedMeansApplied
      /\ PodAfterItsPolicies /\ ObjectsKnown
  BY InvParts
<1>2. /\ newest \in Nat /\ newest <= api.gen /\ api.gen \in Nat
      /\ api.seen # 0 => api.seen - lead \in 1..newest
      /\ SpecsKept /\ api'.gen \in Nat /\ api.gen <= api'.gen
  BY <1>1, Generation DEF LoopKnown, Later
<1>3. ObservedMeansApplied'
  <2>1. SUFFICES ASSUME api.seen # 0, NEW g, g = api.seen - lead,
                        NEW o \in Objects \ (CronJobs \cup disturbed'),
                        \A h \in g..api'.gen : Wanted(o, specs[h])'
                 PROVE  UpToDate(o, g)'
    BY DEF ObservedMeansApplied
  <2>2. o \notin disturbed /\ child'[o] = child[o]
    BY DEF Elsewhere
  <2>3. g \in Nat /\ g # 0
    BY <1>2, <2>1
  <2>4. \A h \in g..api.gen : Wanted(o, specs[h])
    BY <1>2, <2>1, <2>3, WantedBefore
  <2>5. UpToDate(o, g)
    BY <1>1, <2>1, <2>2, <2>4 DEF ObservedMeansApplied
  <2>6. QED
    BY <2>2, <2>5 DEF UpToDate
<1>4. PodAfterItsPolicies'
  <2>1. SUFFICES ASSUME NEW g \in 1..api'.gen, child'["StatefulSet"] = g,
                        NEW o \in Objects \ (Honcho \cup CronJobs \cup disturbed'),
                        \A h \in g..api'.gen : Wanted(o, specs[h])'
                 PROVE  UpToDate(o, g)'
    BY DEF PodAfterItsPolicies
  <2>2. o \notin disturbed /\ child'[o] = child[o]
    BY DEF Elsewhere
  <2>3. g \in Nat /\ g # 0 /\ g # Foreign
    BY <1>2 DEF Foreign, MaxGeneration
  <2>4. \A h \in g..api.gen : Wanted(o, specs[h])
    BY <1>2, <2>1, <2>3, WantedBefore
  <2>5. child["StatefulSet"] = g
    BY <2>1, <2>3 DEF Elsewhere
  <2>6. g \in 1..api.gen
    <3>1. /\ "StatefulSet" \in Objects /\ "StatefulSet" \notin CronJobs
      BY ObjectFacts DEF CronJobs
    <3>2. g = Foreign \/ g <= newest
      BY <1>1, <2>5, <3>1 DEF ObjectsKnown, Justified
    <3>3. QED
      BY <1>2, <2>3, <3>2
  <2>7. UpToDate(o, g)
    BY <1>1, <2>1, <2>2, <2>4, <2>5, <2>6 DEF PodAfterItsPolicies
  <2>8. QED
    BY <2>2, <2>7 DEF UpToDate
<1>5. QED
  BY <1>3, <1>4

\* So does what the loop has behind it.
LEMMA PassElsewhere ==
    ASSUME InstanceInv, Elsewhere, SpecsKept, step # 0, loop' = loop,
           \A n \in 1..17, c \in 1..4 : Made(n, c)' => Made(n, c)
    PROVE  PassKnown'
<1>1. PassKnown /\ loop.gen = newest
  BY InvParts, Generation
<1>2. ASSUME NEW n \in 1..17, NEW c \in 1..4, NEW o \in Objects \ CronJobs,
             Made(n, c)',
             CallsOf(Order[n], loop.on)[c].op \in {"apply", "ensure"},
             o = CallsOf(Order[n], loop.on)[c].obj,
             o \notin disturbed', Wanted(o, specs[newest])
      PROVE  UpToDate(o, loop.gen)'
  <2>1. Made(n, c) /\ n \in 1..18
    BY <1>2
  <2>2. o \notin disturbed /\ child'[o] = child[o]
    BY <1>2 DEF Elsewhere
  <2>3. UpToDate(o, loop.gen)
    BY <1>1, <1>2, <2>1, <2>2, MadeCall
  <2>4. QED
    BY <2>2, <2>3 DEF UpToDate
<1>3. QED
  BY <1>2, PassThen

\* A pass that is not in its loop has nothing behind it.
LEMMA NothingMade ==
    ASSUME step' = 0 \/ (step' = 1 /\ call' = 1) PROVE PassKnown'
<1>1. \A n \in 1..18, c \in 1..4 : ~Made(n, c)'
  BY DEF Made
<1>2. CronJobStep - 1 = 18
  BY OrderIs
<1>3. QED
  BY <1>1, <1>2, Zenon DEF PassKnown

-----------------------------------------------------------------------------
(***************************************************************************)
(* The copies of the instance.                                             *)
(***************************************************************************)

\* Writing a condition keeps an instance an instance.
LEMMA ConditionSet ==
    ASSUME NEW x \in HermesInstance, NEW c \in Conditions,
           NEW v \in {"none", "True", "False"}
    PROVE  LET y == [x EXCEPT !.cond[c] = v]
           IN  /\ y \in HermesInstance /\ y.gen = x.gen /\ y.on = x.on
               /\ y.seen = x.seen /\ y.phase = x.phase /\ y.fin = x.fin
               /\ y.cond = [x.cond EXCEPT ![c] = v]
BY DEF HermesInstance

\* Every step has a condition.
LEMMA ConditionKnown ==
    ASSUME NEW n \in 1..CronJobStep
    PROVE  ConditionOf[Order[n]] \in Conditions
<1>1. \/ n = 1 \/ n = 2 \/ n = 3 \/ n = 4 \/ n = 5 \/ n = 6 \/ n = 7 \/ n = 8
      \/ n = 9 \/ n = 10 \/ n = 11 \/ n = 12 \/ n = 13 \/ n = 14 \/ n = 15
      \/ n = 16 \/ n = 17 \/ n = 18 \/ n = 19
  BY OrderIs
<1>2. CASE n = 1 \/ n = 2 \/ n = 3 \/ n = 4 \/ n = 5 \/ n = 6
  BY <1>2, OrderIs DEF ConditionOf, Conditions
<1>3. CASE n = 7 \/ n = 8 \/ n = 9 \/ n = 10 \/ n = 11 \/ n = 12
  BY <1>3, OrderIs DEF ConditionOf, Conditions
<1>4. CASE n = 13 \/ n = 14 \/ n = 15 \/ n = 16 \/ n = 17 \/ n = 18 \/ n = 19
  BY <1>4, OrderIs DEF ConditionOf, Conditions
<1>5. QED
  BY <1>1, <1>2, <1>3, <1>4

\* The empty instance of a pass that does not run.
LEMMA NoInstanceType ==
    /\ NoInstance \in HermesInstance
    /\ \A on \in SUBSET Features :
         LET y == [NoInstance EXCEPT !.gen = 1, !.on = on]
         IN  y \in HermesInstance /\ y.gen = 1 /\ y.on = on /\ y.seen = 0
<1>1. MaxEdits \in Nat
  BY InstanceAssumption
<1>2. 0 \in 0..MaxGeneration /\ 1 \in 0..MaxGeneration
  BY <1>1 DEF MaxGeneration
<1>3. QED
  BY <1>2 DEF NoInstance, NoConditions, HermesInstance

\* A status update changes the status alone.
LEMMA Saved ==
    ASSUME api \in HermesInstance, NEW x \in HermesInstance, SaveStatus(x)
    PROVE  /\ api' \in HermesInstance
           /\ api'.gen = api.gen /\ api'.on = api.on
           /\ api'.seen = IF api = base THEN x.seen ELSE api.seen
BY DEF SaveStatus, HermesInstance

\* What the answer to a patch makes of the working copy.
LEMMA AnsweredFacts ==
    ASSUME NEW copy \in HermesInstance, NEW server \in HermesInstance,
           NEW kept
    PROVE  LET y == Answered(copy, server, kept)
           IN  /\ y \in HermesInstance /\ y.gen = server.gen
               /\ y.seen = server.seen /\ server.on \subseteq y.on
BY DEF Answered, HermesInstance

\* The objects keep their type.
LEMMA MoveTyped ==
    ASSUME TypeOK, CopiesKnown, LoopKnown, step # 0, Move
    PROVE  /\ child' \in [Objects -> Contents]
           /\ childCache' \in [Objects -> Contents]
           /\ disturbed' \subseteq Objects
<1>1. inst.gen \in Contents /\ 0 \in Contents
  BY Generation DEF Contents
<1>2. CASE UNCHANGED cluster
  BY <1>2 DEF cluster, TypeOK
<1>3. ASSUME NEW o \in Objects, Put(o) \/ Dropped(o)
      PROVE  /\ child' \in [Objects -> Contents]
             /\ childCache' \in [Objects -> Contents]
             /\ disturbed' \subseteq Objects
  <2>1. Write(o, inst.gen) \/ Write(o, 0)
    BY <1>3 DEF Put, Dropped
  <2>2. QED
    BY <1>1, <2>1, WriteFacts
<1>4. QED
  BY <1>2, <1>3 DEF Move

\* The instance in the API server gets no generation, or the next one.
ApiGrows ==
    /\ api' \in HermesInstance
    /\ api.gen <= api'.gen /\ api'.gen \in Generations
    /\ api'.on = specs'[api'.gen]
    /\ edits' \in 0..MaxEdits
    /\ api'.gen <= 2 * edits' + (IF "skill" \in api'.on THEN 2 ELSE 1)
    /\ specs' \in [Generations -> SUBSET Features]
    /\ SpecsKept

\* It keeps its spec.
LEMMA ApiKept ==
    ASSUME TypeOK, CopiesKnown, LoopKnown, api' \in HermesInstance,
           api'.gen = api.gen, api'.on = api.on, specs' = specs, crds' = crds,
           edits' \in 0..MaxEdits, edits <= edits'
    PROVE  ApiGrows
<1>1. SpecsKept
  BY DEF SpecsKept
<1>2. /\ edits \in Nat /\ edits' \in Nat /\ api.gen \in Nat
      /\ api.gen <= 2 * edits + (IF "skill" \in api.on THEN 2 ELSE 1)
  BY InstanceAssumption, Generation DEF TypeOK, CopiesKnown
<1>3. api.gen <= 2 * edits' + (IF "skill" \in api.on THEN 2 ELSE 1)
  BY <1>2
<1>4. QED
  BY <1>1, <1>2, <1>3 DEF ApiGrows, CopiesKnown, TypeOK

\* It gets a new spec.
LEMMA ApiEdited ==
    ASSUME TypeOK, CopiesKnown, LoopKnown, NEW on \in SUBSET Features,
           api' = [api EXCEPT !.gen = @ + 1, !.on = on],
           specs' = [specs EXCEPT ![api.gen + 1] = on], crds' = crds,
           edits' \in 0..MaxEdits,
           api.gen + 1 <= 2 * edits' + (IF "skill" \in on THEN 2 ELSE 1)
    PROVE  ApiGrows /\ api'.seen = api.seen
<1>1. /\ MaxEdits \in Nat /\ edits' \in Nat /\ edits' <= MaxEdits
      /\ MaxGeneration = 2 * (MaxEdits + 1)
      /\ api.gen \in Nat /\ 1 <= api.gen /\ api.gen <= MaxGeneration
  BY InstanceAssumption, Generation DEF MaxGeneration
<1>2. api.gen + 1 \in 1..MaxGeneration
  BY <1>1
<1>3. api \in HermesInstance /\ specs \in [Generations -> SUBSET Features]
  BY DEF TypeOK
<1>4. /\ api' \in HermesInstance /\ api'.gen = api.gen + 1 /\ api'.on = on
      /\ api'.seen = api.seen
  <2>1. api.gen + 1 \in 0..MaxGeneration
    BY <1>2
  <2>2. QED
    BY <1>3, <2>1 DEF HermesInstance
<1>5. /\ specs' \in [Generations -> SUBSET Features]
      /\ specs'[api.gen + 1] = on
      /\ \A g \in Generations : g # api.gen + 1 => specs'[g] = specs[g]
  BY <1>2, <1>3 DEF Generations
<1>6. SpecsKept
  <2>1. ASSUME NEW g \in 1..api.gen PROVE specs'[g] = specs[g]
    <3>1. g \in Generations /\ g # api.gen + 1
      BY <1>1 DEF Generations
    <3>2. QED
      BY <1>5, <3>1
  <2>2. QED
    BY <2>1 DEF SpecsKept
<1>7. api.gen <= api'.gen /\ api'.gen \in Generations
  BY <1>1, <1>2, <1>4 DEF Generations
<1>8. QED
  BY <1>4, <1>5, <1>6, <1>7 DEF ApiGrows

\* The patch of the skill.
LEMMA SkillAdded ==
    ASSUME TypeOK, CopiesKnown, LoopKnown, AddSkill, crds' = crds,
           edits' = edits
    PROVE  ApiGrows /\ api'.seen = api.seen
<1>1. /\ edits \in Nat /\ edits' \in 0..MaxEdits /\ edits <= edits'
      /\ api.gen \in Nat /\ api \in HermesInstance
  BY InstanceAssumption, Generation DEF TypeOK
<1>2. CASE "skill" \in api.on
  <2>1. api' = api /\ specs' = specs
    BY <1>2 DEF AddSkill
  <2>2. QED
    BY <1>1, <2>1, ApiKept
<1>3. CASE "skill" \notin api.on
  <2>1. PICK on : on = api.on \cup {"skill"}
    OBVIOUS
  <2>2. /\ api' = [api EXCEPT !.gen = @ + 1, !.on = on]
        /\ specs' = [specs EXCEPT ![api.gen + 1] = on]
    BY <1>3, <2>1 DEF AddSkill
  <2>3. on \in SUBSET Features /\ "skill" \in on
    BY <1>1, <2>1 DEF HermesInstance, Features
  <2>4. api.gen <= 2 * edits + 1
    BY <1>3 DEF CopiesKnown
  <2>5. api.gen + 1 <= 2 * edits' + (IF "skill" \in on THEN 2 ELSE 1)
    BY <1>1, <2>3, <2>4
  <2>6. QED
    BY <1>1, <2>2, <2>3, <2>5, ApiEdited
<1>4. QED
  BY <1>2, <1>3

\* A copy that stays is still of a version the instance has had.
LEMMA CopyKept ==
    ASSUME TypeOK, CopiesKnown, LoopKnown, ApiGrows, NEW g \in 1..api.gen
    PROVE  g \in 1..api'.gen /\ specs'[g] = specs[g]
<1>1. api.gen \in Nat /\ MaxGeneration \in Nat
  BY Generation
<1>2. api'.gen \in 1..MaxGeneration /\ api.gen <= api'.gen /\ SpecsKept
  BY DEF ApiGrows, Generations
<1>3. QED
  BY <1>1, <1>2 DEF SpecsKept

\* So are all of them, when the cache stays.
LEMMA CopiesThen ==
    ASSUME TypeOK, CopiesKnown, LoopKnown, ApiGrows, cache' = cache,
           step' # 0 => CopyKnown(inst)' /\ CopyKnown(loop)'
                        /\ base'.seen = inst'.seen
    PROVE  CopiesKnown'
<1>1. /\ cache.gen \in 1..api'.gen /\ cache.on = specs'[cache.gen]
  <2>1. cache.gen \in 1..api.gen /\ cache.on = specs[cache.gen]
    BY DEF CopiesKnown
  <2>2. QED
    BY <2>1, CopyKept
<1>2. QED
  BY <1>1 DEF CopiesKnown, ApiGrows, Generations, MaxGeneration

\* Later steps follow from these.
LEMMA GrowsLater ==
    ASSUME TypeOK, CopiesKnown, LoopKnown, ApiGrows, newest' = newest
    PROVE  Later /\ api'.gen < Foreign
<1>1. /\ api.gen \in Nat /\ newest \in Nat /\ MaxGeneration \in Nat
      /\ Foreign = MaxGeneration + 1
  BY Generation
<1>2. api'.gen \in 1..MaxGeneration /\ api.gen <= api'.gen /\ SpecsKept
  BY DEF ApiGrows, Generations
<1>3. QED
  BY <1>1, <1>2 DEF Later

\* A step that touches no object.
LEMMA Untouched ==
    ASSUME InstanceInv, Later, UNCHANGED cluster, api'.seen = api.seen,
           lead' = lead, api'.gen < Foreign,
           TypeOK', CopiesKnown', LoopKnown', PassKnown'
    PROVE  InstanceInv'
<1>1. ObjectsKnown'
  BY InvParts, ObjectsUntouched
<1>2. ObservedMeansApplied' /\ PodAfterItsPolicies'
  BY NothingElsewhere, ObservedElsewhere
<1>3. QED
  BY <1>1, <1>2 DEF InstanceInv, ObjectsKnown

\* A call of a pass.
LEMMA Touched ==
    ASSUME InstanceInv, Later, step # 0, step \in 1..19, Move,
           api'.gen = api.gen, api'.seen = api.seen, lead' = lead,
           TypeOK', CopiesKnown', LoopKnown', PassKnown'
    PROVE  InstanceInv'
<1>1. ObjectsKnown'
  BY InvParts, ObjectsMoved
<1>2. ObservedMeansApplied' /\ PodAfterItsPolicies'
  BY ObservedMoved, PodMoved
<1>3. QED
  BY <1>1, <1>2 DEF InstanceInv, ObjectsKnown

-----------------------------------------------------------------------------
(***************************************************************************)
(* The steps of a pass.                                                    *)
(***************************************************************************)

\* A step of a pass that goes on with its copy.
LEMMA GoesOn ==
    ASSUME InstanceInv, step # 0, step \in 1..19, Move,
           UNCHANGED <<api, base, loop, newest, lead, specs, outside>>,
           faults' \in 0..MaxFaults,
           inst' \in HermesInstance, inst'.gen = inst.gen, inst'.on = inst.on,
           inst'.seen = inst.seen,
           step' \in 1..StatusStep, step <= step', call' \in 1..4,
           \A n \in 1..18, c \in 1..4 : Made(n, c)' =>
               \/ Made(n, c)
               \/ n = step /\ c = call /\ AtCall /\ Effect
    PROVE  InstanceInv'
<1>1. TypeOK /\ CopiesKnown /\ LoopKnown
  BY InvParts
<1>2. /\ api' = api /\ base' = base /\ cache' = cache /\ refFound' = refFound
      /\ crds' = crds /\ edits' = edits /\ specs' = specs /\ loop' = loop
      /\ newest' = newest /\ lead' = lead
  BY DEF outside
<1>3. step' # 0 /\ step' \in 0..StatusStep
  BY OrderIs
<1>4. ApiGrows
  <2>1. api \in HermesInstance /\ edits \in 0..MaxEdits /\ edits <= edits
    BY <1>1 DEF TypeOK
  <2>2. QED
    BY <1>1, <1>2, <2>1, ApiKept
<1>5. Later
  BY <1>1, <1>2, <1>4, GrowsLater
<1>6. TypeOK'
  BY <1>1, <1>2, <1>3, MoveTyped
  DEF TypeOK, Contents, Foreign, Generations, MaxGeneration
<1>7. CopiesKnown'
  <2>1. CopyKnown(inst) /\ CopyKnown(loop) /\ base.seen = inst.seen
    BY <1>1 DEF CopiesKnown
  <2>2. CopyKnown(inst)' /\ CopyKnown(loop)'
    BY <1>2, <2>1 DEF CopyKnown
  <2>3. QED
    BY <1>1, <1>2, <1>4, <2>1, <2>2, CopiesThen
<1>8. LoopKnown'
  <2>1. step' \in 1..18 => step \in 1..18
    BY <1>3
  <2>2. CronJobStep - 1 = 18
    BY OrderIs
  <2>3. /\ newest <= api.gen /\ (newest <= cache.gen \/ FinalizerMissing)
        /\ api.seen # 0 => api.seen - lead \in 1..newest
        /\ loop.gen = newest /\ newest <= inst.gen
        /\ step \in 1..18 => inst.gen = loop.gen /\ inst.on = loop.on
    BY <1>1, <2>2 DEF LoopKnown
  <2>4. FinalizerMissing' = FinalizerMissing
    BY <1>2 DEF FinalizerMissing
  <2>5. QED
    BY <1>2, <2>1, <2>2, <2>3, <2>4 DEF LoopKnown
<1>9. PassKnown'
  BY <1>2, <1>5, PassGrows DEF Later
<1>10. QED
  BY <1>2, <1>5, <1>6, <1>7, <1>8, <1>9, Touched

\* A step that ends a pass.
LEMMA Ends ==
    ASSUME InstanceInv, step # 0, Return, ApiGrows,
           cache' = cache, refFound' = refFound, faults' \in 0..MaxFaults,
           child' \in [Objects -> Contents],
           childCache' \in [Objects -> Contents], disturbed' \subseteq Objects,
           lead' \in 0..MaxGeneration,
           api'.seen # 0 => api'.seen - lead' \in 1..newest
    PROVE  TypeOK' /\ CopiesKnown' /\ LoopKnown' /\ PassKnown' /\ Later
<1>1. TypeOK /\ CopiesKnown /\ LoopKnown
  BY InvParts
<1>2. /\ base' = NoInstance /\ inst' = NoInstance /\ loop' = NoInstance
      /\ step' = 0 /\ call' = 1 /\ newest' = newest
  BY DEF Return, Goto
<1>3. Later
  BY <1>1, <1>2, GrowsLater
<1>4. TypeOK'
  <2>1. {api', cache', base', inst'} \subseteq HermesInstance
        /\ loop' \in HermesInstance
    BY <1>1, <1>2, NoInstanceType DEF TypeOK, ApiGrows
  <2>2. step' \in 0..StatusStep /\ call' \in 1..4
    BY <1>2, OrderIs
  <2>3. crds' \subseteq {"gateway", "prometheus"} /\ edits' \in 0..MaxEdits
        /\ specs' \in [Generations -> SUBSET Features] /\ refFound' \in BOOLEAN
        /\ newest' \in 0..MaxGeneration
    BY <1>1, <1>2 DEF TypeOK, ApiGrows, SpecsKept
  <2>4. QED
    BY <2>1, <2>2, <2>3
    DEF TypeOK, Contents, Foreign, Generations, MaxGeneration
<1>5. CopiesKnown'
  BY <1>1, <1>2, CopiesThen
<1>6. LoopKnown'
  <2>1. newest <= api'.gen
    BY <1>1, <1>3, Generation DEF Later
  <2>2. newest <= cache.gen \/ FinalizerMissing
    BY <1>1 DEF LoopKnown
  <2>3. FinalizerMissing' = FinalizerMissing
    BY DEF FinalizerMissing
  <2>4. step' \notin 1..(CronJobStep - 1)
    BY <1>2, OrderIs
  <2>5. QED
    BY <1>2, <2>1, <2>2, <2>3, <2>4 DEF LoopKnown
<1>7. PassKnown'
  BY <1>2, NothingMade
<1>8. QED
  BY <1>3, <1>4, <1>5, <1>6, <1>7

\* A subsystem that is done.
LEMMA ReconciledFacts ==
    ASSUME TypeOK, step \in 1..CronJobStep, Reconciled
    PROVE  /\ inst' \in HermesInstance /\ inst'.gen = inst.gen
           /\ inst'.on = inst.on /\ inst'.seen = inst.seen
           /\ step' = step + 1 /\ call' = 1 /\ step' \in 1..StatusStep
<1>1. Condition \in Conditions
  BY ConditionKnown DEF Condition
<1>2. PICK v \in {"none", "True", "False"} :
        inst' = [inst EXCEPT !.cond[Condition] = v]
  BY DEF Reconciled
<1>3. inst \in HermesInstance
  BY DEF TypeOK
<1>4. /\ inst' \in HermesInstance /\ inst'.gen = inst.gen
      /\ inst'.on = inst.on /\ inst'.seen = inst.seen
  BY <1>1, <1>2, <1>3, ConditionSet
<1>5. step' = step + 1 /\ call' = 1
  BY DEF Reconciled, Goto
<1>6. QED
  BY <1>4, <1>5, OrderIs

\* A call that succeeds.
LEMMA CallSucceedsKeeps == InstanceInv /\ CallSucceeds => InstanceInv'
<1> SUFFICES ASSUME InstanceInv, CallSucceeds PROVE InstanceInv'
  OBVIOUS
<1>1. TypeOK /\ CopiesKnown /\ LoopKnown
  BY InvParts
<1>2. /\ AtCall /\ Effect /\ faults' = faults
      /\ UNCHANGED <<api, base, loop, newest, lead, specs, outside>>
  BY DEF CallSucceeds
<1>3. /\ step \in 1..CronJobStep /\ step # 0 /\ step \in Nat
      /\ call \in 1..Len(Calls) /\ Len(Calls) \in 0..4 /\ call \in Nat
      /\ step \in 1..19
  BY <1>1, <1>2, CallFacts, OrderIs
<1>4. Move
  BY <1>2, CallMoves
<1>5. crds' = crds /\ loop' = loop /\ faults' \in 0..MaxFaults
  BY <1>1, <1>2 DEF outside, TypeOK
<1>6. \A n \in 1..18 : n = step => Calls = CallsOf(Order[n], loop.on)
  BY <1>1, Generation DEF Calls
<1>7. CASE call < Len(Calls) /\ Goto(step, call + 1) /\ UNCHANGED inst
  <2>1. /\ step' = step /\ call' = call + 1 /\ inst' = inst
        /\ inst' \in HermesInstance
    BY <1>1, <1>7 DEF Goto, TypeOK
  <2>2. step' \in 1..StatusStep /\ step <= step' /\ call' \in 1..4
    <3>1. call < Len(Calls)
      BY <1>7
    <3>2. call + 1 \in 1..4
      <4>1. PICK m \in 0..4 : m = Len(Calls)
        BY <1>3
      <4>2. call < m /\ call \in 1..m
        BY <1>3, <3>1, <4>1
      <4>3. QED
        BY <4>2
    <3>3. step \in 1..StatusStep /\ step <= step
      BY <1>3, OrderIs
    <3>4. QED
      BY <2>1, <3>2, <3>3
  <2>3. ASSUME NEW n \in 1..18, NEW c \in 1..4, Made(n, c)'
        PROVE  Made(n, c) \/ (n = step /\ c = call /\ AtCall /\ Effect)
    <3>1. /\ c <= Len(CallsOf(Order[n], loop.on))
          /\ n < step \/ (n = step /\ c < call + 1)
      BY <1>5, <2>1, <2>3, MadeThen
    <3>2. n < step \/ (n = step /\ c < call) \/ (n = step /\ c = call)
      BY <1>3, <3>1
    <3>3. QED
      BY <1>2, <3>1, <3>2 DEF Made
  <2>4. QED
    BY <1>2, <1>3, <1>4, <1>5, <2>1, <2>2, <2>3, GoesOn
<1>8. CASE ~(call < Len(Calls)) /\ Reconciled
  <2>1. /\ inst' \in HermesInstance /\ inst'.gen = inst.gen
        /\ inst'.on = inst.on /\ inst'.seen = inst.seen
        /\ step' = step + 1 /\ call' = 1 /\ step' \in 1..StatusStep
    BY <1>1, <1>3, <1>8, ReconciledFacts
  <2>2. ASSUME NEW n \in 1..18, NEW c \in 1..4, Made(n, c)'
        PROVE  Made(n, c) \/ (n = step /\ c = call /\ AtCall /\ Effect)
    <3>1. /\ c <= Len(CallsOf(Order[n], loop.on))
          /\ n < step + 1 \/ (n = step + 1 /\ c < 1)
      BY <1>5, <2>1, <2>2, MadeThen
    <3>2. n < step \/ n = step
      BY <1>3, <3>1
    <3>3. n = step => c < call \/ c = call
      BY <1>3, <1>6, <1>8, <3>1
    <3>4. QED
      BY <1>2, <3>1, <3>2, <3>3 DEF Made
  <2>3. step <= step' /\ call' \in 1..4
    BY <1>3, <2>1
  <2>4. QED
    BY <1>2, <1>3, <1>4, <1>5, <2>1, <2>2, <2>3, GoesOn
<1>9. QED
  BY <1>7, <1>8 DEF CallSucceeds

\* A subsystem without a call.
LEMMA NothingToCallKeeps == InstanceInv /\ NothingToCall => InstanceInv'
<1> SUFFICES ASSUME InstanceInv, NothingToCall PROVE InstanceInv'
  OBVIOUS
<1>1. TypeOK /\ CopiesKnown /\ LoopKnown
  BY InvParts
<1>2. /\ step \in 1..CronJobStep /\ Calls = <<>> /\ Reconciled
      /\ UNCHANGED <<api, base, loop, newest, lead, specs, outside>>
      /\ UNCHANGED cluster /\ faults' = faults
  BY DEF NothingToCall
<1>3. step # 0 /\ step \in Nat /\ step \in 1..19 /\ Move
  BY <1>2, OrderIs DEF Move
<1>4. crds' = crds /\ loop' = loop /\ faults' \in 0..MaxFaults
  BY <1>1, <1>2 DEF outside, TypeOK
<1>5. /\ inst' \in HermesInstance /\ inst'.gen = inst.gen
      /\ inst'.on = inst.on /\ inst'.seen = inst.seen
      /\ step' = step + 1 /\ call' = 1 /\ step' \in 1..StatusStep
  BY <1>1, <1>2, ReconciledFacts
<1>6. ASSUME NEW n \in 1..18, NEW c \in 1..4, Made(n, c)'
      PROVE  Made(n, c)
  <2>1. /\ c <= Len(CallsOf(Order[n], loop.on))
        /\ n < step + 1 \/ (n = step + 1 /\ c < 1)
    BY <1>4, <1>5, <1>6, MadeThen
  <2>2. n < step \/ n = step
    BY <1>3, <2>1
  <2>3. n # step
    <3>1. SUFFICES ASSUME n = step PROVE FALSE
      OBVIOUS
    <3>2. Calls = CallsOf(Order[n], loop.on)
      BY <1>1, <3>1, Generation DEF Calls
    <3>3. Len(Calls) = 0
      BY <1>2
    <3>4. QED
      BY <2>1, <3>2, <3>3
  <2>4. QED
    BY <2>1, <2>2, <2>3 DEF Made
<1>7. call' \in 1..4 /\ step <= step'
  BY <1>3, <1>5
<1>8. QED
  BY <1>2, <1>3, <1>4, <1>5, <1>6, <1>7, GoesOn

\* The status a failing subsystem leaves.
LEMMA ReportFacts ==
    ASSUME InstanceInv, AtCall, Report \/ UNCHANGED api
    PROVE  /\ api' \in HermesInstance /\ api'.gen = api.gen
           /\ api'.on = api.on /\ api'.seen = api.seen
<1>1. TypeOK /\ CopiesKnown
  BY InvParts
<1>2. step \in 1..CronJobStep /\ step # 0
  BY <1>1, CallFacts
<1>3. api \in HermesInstance /\ inst \in HermesInstance
  BY <1>1 DEF TypeOK
<1>4. base.seen = inst.seen
  BY <1>1, <1>2 DEF CopiesKnown
<1>5. CASE Report
  <2>1. PICK x \in HermesInstance : SaveStatus(x) /\ x.seen = inst.seen
    <3>1. Condition \in Conditions
      BY <1>2, ConditionKnown DEF Condition
    <3>2. /\ [inst EXCEPT !.cond[Condition] = "False"] \in HermesInstance
          /\ [inst EXCEPT !.cond[Condition] = "False"].seen = inst.seen
      BY <1>3, <3>1, ConditionSet
    <3>3. SaveStatus([inst EXCEPT !.cond[Condition] = "False"])
      BY <1>5 DEF Report
    <3>4. QED
      BY <3>2, <3>3
  <2>2. QED
    BY <1>3, <1>4, <2>1, Saved
<1>6. CASE UNCHANGED api
  BY <1>3, <1>6
<1>7. QED
  BY <1>5, <1>6

\* A subsystem that fails, before or after its call has taken effect.
LEMMA SubsystemKeeps ==
    InstanceInv /\ (SubsystemRefused \/ SubsystemFails) => InstanceInv'
<1> SUFFICES ASSUME InstanceInv, SubsystemRefused \/ SubsystemFails
             PROVE  InstanceInv'
  OBVIOUS
<1>1. TypeOK /\ CopiesKnown /\ LoopKnown
  BY InvParts
<1>2. /\ AtCall /\ Return /\ UNCHANGED outside /\ lead' = lead
      /\ UNCHANGED cluster \/ Effect
      /\ faults' = faults \/ (faults < MaxFaults /\ faults' = faults + 1)
      /\ \/ (Report \/ UNCHANGED api) /\ specs' = specs
         \/ Op = "patch" /\ AddSkill
  BY DEF SubsystemRefused, SubsystemFails, Fault
<1>3. /\ step # 0 /\ step \in 1..19 /\ newest' = newest
  BY <1>1, <1>2, CallFacts, OrderIs DEF Return
<1>4. Move
  BY <1>2, CallMoves DEF Move
<1>5. faults' \in 0..MaxFaults /\ lead' \in 0..MaxGeneration
  BY <1>1, <1>2, InstanceAssumption DEF TypeOK
<1>6. cache' = cache /\ refFound' = refFound /\ crds' = crds /\ edits' = edits
  BY <1>2 DEF outside
<1>7. edits' \in 0..MaxEdits /\ edits <= edits'
  BY <1>1, <1>6, InstanceAssumption DEF TypeOK
<1>8. api.seen # 0 => api.seen - lead' \in 1..newest
  BY <1>1, <1>2 DEF LoopKnown
<1>9. /\ child' \in [Objects -> Contents]
      /\ childCache' \in [Objects -> Contents] /\ disturbed' \subseteq Objects
  BY <1>1, <1>3, <1>4, MoveTyped
<1>10. CASE (Report \/ UNCHANGED api) /\ specs' = specs
  <2>1. /\ api' \in HermesInstance /\ api'.gen = api.gen
        /\ api'.on = api.on /\ api'.seen = api.seen
    BY <1>2, <1>10, ReportFacts
  <2>2. ApiGrows
    BY <1>1, <1>6, <1>7, <1>10, <2>1, ApiKept
  <2>3. TypeOK' /\ CopiesKnown' /\ LoopKnown' /\ PassKnown' /\ Later
    BY <1>2, <1>3, <1>5, <1>6, <1>8, <1>9, <2>1, <2>2, Ends
  <2>4. QED
    BY <1>2, <1>3, <1>4, <2>1, <2>3, Touched
<1>11. CASE Op = "patch" /\ AddSkill
  <2>1. ApiGrows /\ api'.seen = api.seen
    BY <1>1, <1>6, <1>11, SkillAdded
  <2>2. TypeOK' /\ CopiesKnown' /\ LoopKnown' /\ PassKnown' /\ Later
    BY <1>2, <1>3, <1>5, <1>6, <1>8, <1>9, <2>1, Ends
  <2>3. UNCHANGED cluster
    BY <1>2, <1>11 DEF Effect
  <2>4. api'.gen < Foreign
    BY <1>1, <1>3, <2>1, GrowsLater
  <2>5. QED
    BY <1>2, <2>1, <2>2, <2>3, <2>4, Untouched
<1>12. QED
  BY <1>2, <1>10, <1>11

\* A CronJob that fails leaves the rest of the pass.
LEMMA CronJobKeeps ==
    InstanceInv /\ (CronJobRefused \/ CronJobFails) => InstanceInv'
<1> SUFFICES ASSUME InstanceInv, CronJobRefused \/ CronJobFails
             PROVE  InstanceInv'
  OBVIOUS
<1>1. TypeOK
  BY InvParts
<1>2. /\ AtCall /\ step = CronJobStep /\ Goto(StatusStep, 1)
      /\ UNCHANGED <<api, base, loop, newest, lead, specs, outside>>
      /\ inst' = inst
      /\ UNCHANGED cluster \/ Effect
      /\ faults' = faults \/ (faults < MaxFaults /\ faults' = faults + 1)
  BY DEF CronJobRefused, CronJobFails, Fault
<1>3. /\ step = 19 /\ step # 0 /\ step' = 20 /\ call' = 1
      /\ step \in 1..19 /\ step <= step'
  BY <1>2, OrderIs DEF Goto
<1>4. Move
  BY <1>2, CallMoves DEF Move
<1>5. faults' \in 0..MaxFaults
  BY <1>1, <1>2, InstanceAssumption DEF TypeOK
<1>6. crds' = crds /\ loop' = loop /\ inst' \in HermesInstance
  BY <1>1, <1>2 DEF outside, TypeOK
<1>7. step' \in 1..StatusStep /\ call' \in 1..4
  BY <1>3, OrderIs
<1>8. ASSUME NEW n \in 1..18, NEW c \in 1..4, Made(n, c)'
      PROVE  Made(n, c)
  <2>1. c <= Len(CallsOf(Order[n], loop.on))
    BY <1>6, <1>8, MadeThen
  <2>2. n < step
    BY <1>3
  <2>3. QED
    BY <2>1, <2>2 DEF Made
<1>9. QED
  BY <1>2, <1>3, <1>4, <1>5, <1>6, <1>7, <1>8, GoesOn

\* The end of a pass: every object of the spec its loop began with is there.
LEMMA UpdateStatusKeeps ==
    ASSUME InstanceInv, NEW ready \in Reports, UpdateStatus(ready)
    PROVE  InstanceInv'
<1>1. /\ TypeOK /\ CopiesKnown /\ LoopKnown /\ PassKnown
  BY InvParts
<1>2. /\ step = 20 /\ step # 0 /\ Return /\ UNCHANGED outside
      /\ UNCHANGED cluster /\ faults' = faults /\ specs' = specs
      /\ lead' = IF api = base THEN inst.gen - loop.gen ELSE lead
  BY OrderIs DEF UpdateStatus
<1>3. api \in HermesInstance /\ inst \in HermesInstance
  BY <1>1 DEF TypeOK
<1>4. /\ newest \in Nat /\ 1 <= newest /\ newest <= inst.gen /\ inst.gen \in Nat
      /\ loop.gen = newest /\ inst.gen <= api.gen /\ api.gen <= MaxGeneration
      /\ api.gen \in Nat /\ MaxGeneration \in Nat
      /\ specs[newest] \subseteq loop.on
  BY <1>1, <1>2, Generation
<1>5. PICK x \in HermesInstance : SaveStatus(x) /\ x.seen = inst.gen
  <2> DEFINE p == Phase("StatefulSet" \in ready)
             v == ProfileStore("HonchoDeployment" \in ready)
             w == IF "suspended" \in inst.on THEN inst.cond["Ready"]
                  ELSE Flag("StatefulSet" \in ready)
             y == [inst EXCEPT !.phase = p, !.seen = inst.gen,
                               !.cond["ProfileStoreReady"] = v,
                               !.cond["Ready"] = w]
  <2>1. /\ p \in {"none", "Pending", "Ready", "Suspended"}
        /\ v \in {"none", "True", "False"}
    BY DEF Phase, ProfileStore, Flag
  <2>2. w \in {"none", "True", "False"}
    <3>1. inst.cond["Ready"] \in {"none", "True", "False"}
      BY <1>3 DEF HermesInstance, Conditions
    <3>2. Flag("StatefulSet" \in ready) \in {"none", "True", "False"}
      BY DEF Flag
    <3>3. QED
      BY <3>1, <3>2, Zenon
  <2>3. SaveStatus(y)
    BY <1>3 DEF UpdateStatus, HermesInstance, Conditions
  <2> HIDE DEF p, v, w
  <2>4. y \in HermesInstance /\ y.seen = inst.gen
    BY <1>3, <2>1, <2>2 DEF HermesInstance, Conditions
  <2>5. QED
    BY <2>3, <2>4
<1>6. /\ api' \in HermesInstance /\ api'.gen = api.gen /\ api'.on = api.on
      /\ api'.seen = IF api = base THEN inst.gen ELSE api.seen
  BY <1>3, <1>5, Saved
<1>7. /\ cache' = cache /\ refFound' = refFound /\ crds' = crds
      /\ edits' = edits /\ edits \in 0..MaxEdits /\ edits <= edits
      /\ child' = child /\ childCache' = childCache /\ disturbed' = disturbed
  BY <1>1, <1>2, InstanceAssumption DEF outside, cluster, TypeOK
<1>8. ApiGrows
  BY <1>1, <1>2, <1>6, <1>7, ApiKept
<1>9. CASE api # base
  <2>1. api'.seen = api.seen /\ lead' = lead
    BY <1>2, <1>6, <1>9
  <2>2. /\ lead' \in 0..MaxGeneration /\ faults' \in 0..MaxFaults
        /\ api'.seen # 0 => api'.seen - lead' \in 1..newest
        /\ child' \in [Objects -> Contents]
        /\ childCache' \in [Objects -> Contents] /\ disturbed' \subseteq Objects
    BY <1>1, <1>2, <1>7, <2>1 DEF TypeOK, LoopKnown
  <2>3. TypeOK' /\ CopiesKnown' /\ LoopKnown' /\ PassKnown' /\ Later
    BY <1>2, <1>7, <1>8, <2>2, Ends
  <2>4. api'.gen < Foreign
    BY <1>1, <1>6, Generation
  <2>5. QED
    BY <1>2, <2>1, <2>3, <2>4, Untouched
<1>10. CASE api = base
  <2>1. api'.seen = inst.gen /\ lead' = inst.gen - newest
    BY <1>2, <1>4, <1>6, <1>10
  <2>2. api'.seen - lead' = newest /\ lead' \in 0..MaxGeneration
    BY <1>4, <2>1
  <2>3. /\ faults' \in 0..MaxFaults
        /\ api'.seen # 0 => api'.seen - lead' \in 1..newest
        /\ child' \in [Objects -> Contents]
        /\ childCache' \in [Objects -> Contents] /\ disturbed' \subseteq Objects
    BY <1>1, <1>2, <1>4, <1>7, <2>2 DEF TypeOK
  <2>4. TypeOK' /\ CopiesKnown' /\ LoopKnown' /\ PassKnown' /\ Later
    BY <1>2, <1>7, <1>8, <2>2, <2>3, Ends
  <2>5. ObjectsKnown'
    BY <1>2, <2>4, InvParts, ObjectsUntouched
  <2>6. PodAfterItsPolicies'
    <3>1. child' = child /\ api'.gen = api.gen /\ \A g : specs'[g] = specs[g]
      BY <1>2, <1>6, <1>7
    <3>2. PodAfterItsPolicies
      BY InvParts
    <3>3. QED
      BY <1>2, <1>7, <3>1, <3>2 DEF PodAfterItsPolicies, UpToDate, Wanted
  <2>7. ObservedMeansApplied'
    <3>1. SUFFICES ASSUME NEW g, g = newest,
                          NEW o \in Objects \ (CronJobs \cup disturbed'),
                          \A h \in g..api'.gen : Wanted(o, specs[h])'
                   PROVE  UpToDate(o, g)'
      BY <2>2 DEF ObservedMeansApplied
    <3>2. SpecsKept /\ g \in Nat /\ g # 0 /\ api'.gen \in Nat
          /\ api.gen <= api'.gen
      BY <1>4, <1>6, <2>4, <3>1 DEF Later
    <3>3. \A h \in g..api.gen : Wanted(o, specs[h])
      BY <1>4, <3>1, <3>2, WantedBefore
    <3>4. Wanted(o, specs[newest]) /\ o \notin disturbed
      BY <1>4, <1>7, <3>1, <3>3
    <3>5. Wanted(o, loop.on)
      BY <1>4, <3>4, WantedGrows
    <3>6. Covered(o, loop.on, 18)
      BY <3>5, WalkIsComplete
    <3>7. UpToDate(o, loop.gen)
      BY <1>1, <1>2, <1>4, <3>4, <3>6, PassCovers
    <3>8. QED
      BY <1>4, <1>7, <3>1, <3>7 DEF UpToDate
  <2>8. QED
    BY <2>4, <2>5, <2>6, <2>7 DEF InstanceInv, ObjectsKnown
<1>11. QED
  BY <1>9, <1>10

\* A pass that ends without a status update.
LEMMA AbandonedKeeps ==
    InstanceInv /\ (StatefulSetNotFound \/ StatusLostOrCrash) => InstanceInv'
<1> SUFFICES ASSUME InstanceInv, StatefulSetNotFound \/ StatusLostOrCrash
             PROVE  InstanceInv'
  OBVIOUS
<1>1. TypeOK /\ CopiesKnown /\ LoopKnown
  BY InvParts
<1>2. /\ step # 0 /\ Return /\ UNCHANGED outside /\ UNCHANGED cluster
      /\ api' = api /\ lead' = lead /\ specs' = specs
      /\ faults' = faults \/ (faults < MaxFaults /\ faults' = faults + 1)
  BY OrderIs DEF StatefulSetNotFound, StatusLostOrCrash
<1>3. /\ cache' = cache /\ refFound' = refFound /\ crds' = crds
      /\ edits' = edits /\ edits \in 0..MaxEdits /\ edits <= edits
      /\ child' = child /\ childCache' = childCache /\ disturbed' = disturbed
      /\ api \in HermesInstance
  BY <1>1, <1>2, InstanceAssumption DEF outside, cluster, TypeOK
<1>4. ApiGrows
  BY <1>1, <1>2, <1>3, ApiKept
<1>5. faults' \in 0..MaxFaults
  BY <1>1, <1>2, InstanceAssumption DEF TypeOK
<1>6. /\ lead' \in 0..MaxGeneration
      /\ api'.seen # 0 => api'.seen - lead' \in 1..newest
      /\ child' \in [Objects -> Contents]
      /\ childCache' \in [Objects -> Contents] /\ disturbed' \subseteq Objects
  BY <1>1, <1>2, <1>3 DEF TypeOK, LoopKnown
<1>7. TypeOK' /\ CopiesKnown' /\ LoopKnown' /\ PassKnown' /\ Later
  BY <1>2, <1>3, <1>4, <1>5, <1>6, Ends
<1>8. api'.gen < Foreign
  BY <1>1, <1>2, Generation
<1>9. QED
  BY <1>2, <1>7, <1>8, Untouched

\* A pass begins with a copy that is no older than the last one's.
LEMMA Begins ==
    ASSUME InstanceInv, step = 0, BeginLoop,
           api' \in HermesInstance, api'.gen = api.gen, api'.on = api.on,
           api'.seen = api.seen,
           base' \in HermesInstance, inst' \in HermesInstance,
           base'.seen = inst'.seen,
           inst'.gen \in 1..api.gen, newest <= inst'.gen,
           specs[inst'.gen] \subseteq inst'.on,
           inst'.gen <= cache.gen \/ FinalizerMissing
    PROVE  InstanceInv'
<1>1. TypeOK /\ CopiesKnown /\ LoopKnown
  BY InvParts
<1>2. /\ loop' = inst' /\ newest' = inst'.gen /\ step' = 1 /\ call' = 1
      /\ lead' = lead /\ specs' = specs /\ UNCHANGED cluster
      /\ cache' = cache /\ refFound' = refFound /\ crds' = crds
      /\ edits' = edits /\ faults' = faults
  BY DEF BeginLoop, Goto, outside
<1>3. /\ child' = child /\ childCache' = childCache /\ disturbed' = disturbed
  BY <1>2 DEF cluster
<1>4. /\ api.gen \in Nat /\ api.gen <= MaxGeneration /\ newest \in Nat
      /\ MaxGeneration \in Nat /\ inst'.gen \in Nat /\ inst'.gen <= api.gen
      /\ api.gen < Foreign
  BY <1>1, Generation
<1>5. ApiGrows
  <2>1. edits \in 0..MaxEdits /\ edits <= edits
    BY <1>1, InstanceAssumption DEF TypeOK
  <2>2. QED
    BY <1>1, <1>2, <2>1, ApiKept
<1>6. Later
  BY <1>2, <1>4, <1>5 DEF Later, ApiGrows
<1>7. TypeOK'
  <2>1. step' \in 0..StatusStep /\ call' \in 1..4
    BY <1>2, OrderIs
  <2>2. newest' \in 0..MaxGeneration
    BY <1>2, <1>4
  <2>3. {api', cache', base', inst'} \subseteq HermesInstance
        /\ loop' \in HermesInstance
    BY <1>1, <1>2 DEF TypeOK
  <2>4. QED
    BY <1>1, <1>2, <1>3, <2>1, <2>2, <2>3
    DEF TypeOK, Contents, Foreign, Generations, MaxGeneration
<1>8. CopiesKnown'
  <2>1. CopyKnown(inst)' /\ CopyKnown(loop)'
    BY <1>2 DEF CopyKnown
  <2>2. QED
    BY <1>1, <1>2, <1>5, <2>1, CopiesThen
<1>9. LoopKnown'
  <2>1. api.seen # 0 => api.seen - lead \in 1..newest
    BY <1>1 DEF LoopKnown
  <2>2. api.seen # 0 => api.seen - lead \in 1..inst'.gen
    BY <1>4, <2>1
  <2>3. FinalizerMissing' = FinalizerMissing
    BY <1>2 DEF FinalizerMissing
  <2>4. inst'.gen <= inst'.gen
    BY <1>4
  <2>5. QED
    BY <1>2, <1>4, <2>2, <2>3, <2>4 DEF LoopKnown
<1>10. PassKnown'
  BY <1>2, NothingMade
<1>11. QED
  BY <1>2, <1>4, <1>6, <1>7, <1>8, <1>9, <1>10, Untouched

\* A pass begins with the cached instance.
LEMMA BeginKeeps == InstanceInv /\ BeginReconcile => InstanceInv'
<1> SUFFICES ASSUME InstanceInv, BeginReconcile PROVE InstanceInv'
  OBVIOUS
<1>1. TypeOK /\ CopiesKnown /\ LoopKnown
  BY InvParts
<1>2. /\ step = 0 /\ ~FinalizerMissing /\ base' = cache /\ inst' = cache
      /\ BeginLoop /\ api' = api
  BY DEF BeginReconcile
<1>3. api \in HermesInstance /\ cache \in HermesInstance
  BY <1>1 DEF TypeOK
<1>4. /\ cache.gen \in 1..api.gen /\ cache.on = specs[cache.gen]
      /\ newest <= cache.gen /\ cache.gen <= cache.gen
  <2>1. cache.gen \in Nat
    BY <1>1, Generation
  <2>2. QED
    BY <1>1, <1>2, <2>1 DEF CopiesKnown, LoopKnown
<1>5. specs[cache.gen] \subseteq cache.on
  BY <1>4
<1>6. QED
  BY <1>2, <1>3, <1>4, <1>5, Begins

\* A pass begins with the answer to the patch of its finalizers.
LEMMA BeginWithFinalizerKeeps ==
    ASSUME InstanceInv, NEW kept, BeginWithFinalizer(kept)
    PROVE  InstanceInv'
<1>1. TypeOK /\ CopiesKnown /\ LoopKnown
  BY InvParts
<1>2. /\ step = 0 /\ FinalizerMissing /\ api' = [api EXCEPT !.fin = TRUE]
      /\ base' = api' /\ inst' = Answered(cache, api', kept) /\ BeginLoop
  BY DEF BeginWithFinalizer
<1>3. api \in HermesInstance /\ cache \in HermesInstance
  BY <1>1 DEF TypeOK
<1>4. /\ api' \in HermesInstance /\ api'.gen = api.gen /\ api'.on = api.on
      /\ api'.seen = api.seen
  BY <1>2, <1>3 DEF HermesInstance
<1>5. PICK server : server = api'
  OBVIOUS
<1>6. /\ server \in HermesInstance /\ inst' = Answered(cache, server, kept)
  BY <1>2, <1>4, <1>5, Zenon
<1>7. /\ inst' \in HermesInstance /\ inst'.gen = server.gen
      /\ inst'.seen = server.seen /\ server.on \subseteq inst'.on
  BY <1>3, <1>6, AnsweredFacts
<1>8. /\ api.gen \in 1..api.gen /\ newest <= api.gen
  BY <1>1, Generation
<1>9. specs[api.gen] \subseteq inst'.on
  BY <1>1, <1>4, <1>5, <1>7 DEF CopiesKnown
<1>10. QED
  BY <1>2, <1>4, <1>5, <1>7, <1>8, <1>9, Begins

\* After Semaphore the pass takes over what the server answers.
LEMMA Refreshed ==
    ASSUME InstanceInv, step \in 18..20, step' \in 19..20, ApiGrows,
           UNCHANGED <<loop, newest, lead, cluster, cache, refFound, faults>>,
           call' \in 1..4, base' \in HermesInstance, inst' \in HermesInstance,
           base'.seen = inst'.seen, CopyKnown(inst)', newest <= inst'.gen,
           api'.seen = api.seen
    PROVE  InstanceInv'
<1>1. TypeOK /\ CopiesKnown /\ LoopKnown
  BY InvParts
<1>2. step # 0 /\ step' # 0 /\ step' \in 0..StatusStep
      /\ step' \notin 1..(CronJobStep - 1)
  BY OrderIs
<1>3. /\ Later /\ api'.gen < Foreign
  BY <1>1, GrowsLater
<1>4. child' = child /\ childCache' = childCache /\ disturbed' = disturbed
  BY DEF cluster
<1>5. crds' = crds
  BY DEF ApiGrows, SpecsKept
<1>6. TypeOK'
  <2>1. {api', cache', base', inst'} \subseteq HermesInstance
    BY <1>1 DEF TypeOK, ApiGrows
  <2>2. edits' \in 0..MaxEdits /\ specs' \in [Generations -> SUBSET Features]
    BY DEF ApiGrows
  <2>3. QED
    BY <1>1, <1>2, <1>4, <1>5, <2>1, <2>2
    DEF TypeOK, Contents, Foreign, Generations, MaxGeneration
<1>7. CopiesKnown'
  <2>1. loop.gen \in 1..api.gen /\ specs[loop.gen] \subseteq loop.on
    BY <1>1, <1>2 DEF CopiesKnown, CopyKnown
  <2>2. loop.gen \in 1..api'.gen /\ specs'[loop.gen] \subseteq loop.on
    BY <1>1, <2>1, CopyKept
  <2>3. CopyKnown(loop)'
    BY <2>2 DEF CopyKnown
  <2>4. QED
    BY <1>1, <2>3, CopiesThen
<1>8. LoopKnown'
  <2>1. newest <= api'.gen
    BY <1>1, <1>3, Generation DEF Later
  <2>2. /\ newest <= cache.gen \/ FinalizerMissing
        /\ api.seen # 0 => api.seen - lead \in 1..newest
        /\ loop.gen = newest
    BY <1>1, <1>2 DEF LoopKnown
  <2>3. FinalizerMissing' = FinalizerMissing
    BY DEF FinalizerMissing
  <2>4. QED
    BY <1>2, <2>1, <2>2, <2>3 DEF LoopKnown
<1>9. PassKnown'
  <2>1. ASSUME NEW n \in 1..17, NEW c \in 1..4, Made(n, c)' PROVE Made(n, c)
    <3>1. c <= Len(CallsOf(Order[n], loop.on))
      BY <1>5, <2>1, MadeThen
    <3>2. n < step
      OBVIOUS
    <3>3. QED
      BY <3>1, <3>2 DEF Made
  <2>2. Elsewhere /\ SpecsKept
    BY <1>3, NothingElsewhere DEF Later
  <2>3. QED
    BY <1>2, <2>1, <2>2, PassElsewhere
<1>10. QED
  BY <1>3, <1>6, <1>7, <1>8, <1>9, Untouched

\* The patch of the skill.
LEMMA PatchSkillKeeps ==
    ASSUME InstanceInv, NEW kept, PatchSkill(kept)
    PROVE  InstanceInv'
<1>1. TypeOK /\ CopiesKnown /\ LoopKnown
  BY InvParts
<1>2. /\ AtCall /\ Op = "patch" /\ AddSkill /\ base' = api'
      /\ inst' = [Answered(inst, api', kept) EXCEPT !.cond[Condition] = "True"]
      /\ step' = step + 1 /\ call' = 1
      /\ UNCHANGED <<loop, newest, lead, cluster, cache, refFound, faults>>
      /\ crds' = crds /\ edits' = edits
  BY DEF PatchSkill, Goto, outside
<1>3. /\ step \in 1..CronJobStep /\ step # 0
      /\ Legal(Calls[call], inst.on, step) /\ Calls[call].op = "patch"
  BY <1>1, <1>2, CallFacts
<1>4. step = 18
  BY <1>3 DEF Legal
<1>5. ApiGrows /\ api'.seen = api.seen
  BY <1>1, <1>2, SkillAdded
<1>6. PICK server \in HermesInstance : server = api'
  BY <1>5 DEF ApiGrows
<1>7. Condition \in Conditions /\ inst \in HermesInstance
  BY <1>1, <1>3, ConditionKnown DEF Condition, TypeOK
<1>8. PICK x : x = Answered(inst, server, kept)
  OBVIOUS
<1>9. /\ x \in HermesInstance /\ x.gen = server.gen
      /\ x.seen = server.seen /\ server.on \subseteq x.on
  BY <1>7, <1>8, AnsweredFacts
<1>10. inst' = [x EXCEPT !.cond[Condition] = "True"]
  BY <1>2, <1>6, <1>8, Zenon
<1>11. /\ inst' \in HermesInstance /\ inst'.gen = server.gen
       /\ inst'.seen = server.seen /\ server.on \subseteq inst'.on
  BY <1>7, <1>9, <1>10, ConditionSet
<1>12. api'.gen \in Nat /\ api'.gen \in 1..api'.gen /\ newest <= api'.gen
  <2>1. MaxGeneration \in Nat /\ newest \in Nat /\ newest <= api.gen
        /\ api.gen \in Nat
    BY <1>1, Generation
  <2>2. api'.gen \in 1..MaxGeneration /\ api.gen <= api'.gen
    BY <1>5 DEF ApiGrows, Generations
  <2>3. QED
    BY <2>1, <2>2
<1>13. CopyKnown(inst)'
  BY <1>5, <1>6, <1>11, <1>12 DEF CopyKnown, ApiGrows
<1>14. step \in 18..20 /\ step' \in 19..20 /\ call' \in 1..4
  BY <1>2, <1>4
<1>15. QED
  BY <1>2, <1>5, <1>6, <1>11, <1>12, <1>13, <1>14, Refreshed

\* The steps after the loop leave the spec alone.
LEMMA AfterLoop ==
    ASSUME InstanceInv, step = StatusStep, UNCHANGED <<specs, outside>>,
           api' \in HermesInstance, api'.gen = api.gen, api'.on = api.on
    PROVE  /\ ApiGrows /\ step # 0 /\ step \in 18..20 /\ step \in 19..20
           /\ cache' = cache /\ refFound' = refFound
           /\ call \in 1..4 /\ newest <= api.gen /\ api.gen \in 1..api'.gen
<1>1. TypeOK /\ CopiesKnown /\ LoopKnown
  BY InvParts
<1>2. /\ cache' = cache /\ refFound' = refFound /\ crds' = crds
      /\ edits' = edits /\ specs' = specs
  BY DEF outside
<1>3. edits \in 0..MaxEdits /\ edits <= edits /\ call \in 1..4
  BY <1>1, InstanceAssumption DEF TypeOK
<1>4. ApiGrows
  BY <1>1, <1>2, <1>3, ApiKept
<1>5. newest <= api.gen /\ api.gen \in 1..api'.gen
  BY <1>1, Generation
<1>6. QED
  BY <1>2, <1>3, <1>4, <1>5, OrderIs

\* A status update of migration, restore or auto-update.
LEMMA SavesKeeps == InstanceInv /\ SubReconcilerSaves => InstanceInv'
<1> SUFFICES ASSUME InstanceInv, SubReconcilerSaves PROVE InstanceInv'
  OBVIOUS
<1>1. TypeOK /\ CopiesKnown /\ LoopKnown
  BY InvParts
<1>2. /\ step = StatusStep /\ api = base /\ SaveStatus(inst) /\ base' = api'
      /\ inst' = inst /\ step' = step /\ call' = call /\ faults' = faults
      /\ UNCHANGED <<loop, newest, lead, cluster>> /\ UNCHANGED <<specs, outside>>
  BY DEF SubReconcilerSaves
<1>3. api \in HermesInstance /\ inst \in HermesInstance
  BY <1>1 DEF TypeOK
<1>4. step # 0
  BY <1>2, OrderIs
<1>5. /\ CopyKnown(inst) /\ base.seen = inst.seen /\ newest <= inst.gen
  BY <1>1, <1>4 DEF CopiesKnown, LoopKnown
<1>6. /\ api' \in HermesInstance /\ api'.gen = api.gen /\ api'.on = api.on
      /\ api'.seen = api.seen /\ api'.seen = inst.seen
  BY <1>2, <1>3, <1>5, Saved
<1>7. /\ ApiGrows /\ step \in 18..20 /\ step \in 19..20
      /\ cache' = cache /\ refFound' = refFound /\ call \in 1..4
  BY <1>2, <1>6, AfterLoop
<1>8. CopyKnown(inst)'
  BY <1>2, <1>5, <1>6 DEF CopyKnown
<1>9. QED
  BY <1>2, <1>3, <1>5, <1>6, <1>7, <1>8, Refreshed

\* The patch of auto-update's annotation.
LEMMA PatchAnnotationKeeps ==
    ASSUME InstanceInv, NEW kept, PatchAnnotation(kept)
    PROVE  InstanceInv'
<1>1. TypeOK /\ CopiesKnown /\ LoopKnown
  BY InvParts
<1>2. /\ step = StatusStep /\ base' = api /\ inst' = Answered(inst, api, kept)
      /\ api' = api /\ step' = step /\ call' = call /\ faults' = faults
      /\ UNCHANGED <<loop, newest, lead, cluster>> /\ UNCHANGED <<specs, outside>>
  BY DEF PatchAnnotation
<1>3. api \in HermesInstance /\ inst \in HermesInstance
  BY <1>1 DEF TypeOK
<1>4. /\ inst' \in HermesInstance /\ inst'.gen = api.gen
      /\ inst'.seen = api.seen /\ api.on \subseteq inst'.on
  BY <1>2, <1>3, AnsweredFacts
<1>5. /\ ApiGrows /\ step \in 18..20 /\ step \in 19..20 /\ newest <= api.gen
      /\ cache' = cache /\ refFound' = refFound /\ call \in 1..4
      /\ api.gen \in 1..api'.gen
  BY <1>2, <1>3, AfterLoop
<1>6. CopyKnown(inst)'
  BY <1>1, <1>2, <1>4, <1>5 DEF CopyKnown, CopiesKnown
<1>7. QED
  BY <1>2, <1>3, <1>4, <1>5, <1>6, Refreshed

-----------------------------------------------------------------------------
(***************************************************************************)
(* The steps of others.                                                    *)
(***************************************************************************)

\* What the loop has behind it stays so while others act.
LEMMA PassAround ==
    ASSUME InstanceInv, UNCHANGED local, Elsewhere, SpecsKept
    PROVE  PassKnown'
<1>1. step' = step /\ call' = call /\ loop' = loop /\ crds' = crds
  BY DEF local, SpecsKept
<1>2. CASE step = 0
  BY <1>1, <1>2, NothingMade
<1>3. CASE step # 0
  <2>1. \A n \in 1..17, c \in 1..4 : Made(n, c)' => Made(n, c)
    BY <1>1, MadeThen DEF Made
  <2>2. QED
    BY <1>1, <1>3, <2>1, PassElsewhere
<1>4. QED
  BY <1>2, <1>3

\* A step beside the pass, on the instance or on objects.
LEMMA Around ==
    ASSUME InstanceInv, UNCHANGED local, ApiGrows, api'.seen = api.seen,
           cache' \in HermesInstance, cache'.gen \in 1..api'.gen,
           cache'.on = specs'[cache'.gen],
           newest <= cache'.gen \/ FinalizerMissing',
           refFound' \in BOOLEAN, faults' \in 0..MaxFaults,
           child' \in [Objects -> Contents],
           childCache' \in [Objects -> Contents], disturbed' \subseteq Objects,
           Elsewhere
    PROVE  /\ TypeOK' /\ CopiesKnown' /\ LoopKnown' /\ PassKnown' /\ Later
           /\ ObservedMeansApplied' /\ PodAfterItsPolicies'
<1>1. TypeOK /\ CopiesKnown /\ LoopKnown
  BY InvParts
<1>2. /\ base' = base /\ inst' = inst /\ step' = step /\ call' = call
      /\ loop' = loop /\ newest' = newest /\ lead' = lead
  BY DEF local
<1>3. Later /\ api'.gen < Foreign
  BY <1>1, <1>2, GrowsLater
<1>4. SpecsKept /\ crds' = crds
  BY DEF ApiGrows, SpecsKept
<1>5. TypeOK'
  <2>1. {api', cache', base', inst'} \subseteq HermesInstance
    BY <1>1, <1>2 DEF TypeOK, ApiGrows
  <2>2. edits' \in 0..MaxEdits /\ specs' \in [Generations -> SUBSET Features]
    BY DEF ApiGrows
  <2>3. QED
    BY <1>1, <1>2, <1>4, <2>1, <2>2
    DEF TypeOK, Contents, Foreign, Generations, MaxGeneration
<1>6. CopiesKnown'
  <2>1. step # 0 => CopyKnown(inst)' /\ CopyKnown(loop)'
    <3>1. SUFFICES ASSUME step # 0 PROVE CopyKnown(inst)' /\ CopyKnown(loop)'
      OBVIOUS
    <3>2. /\ inst.gen \in 1..api.gen /\ specs[inst.gen] \subseteq inst.on
          /\ loop.gen \in 1..api.gen /\ specs[loop.gen] \subseteq loop.on
      BY <1>1, <3>1 DEF CopiesKnown, CopyKnown
    <3>3. /\ inst.gen \in 1..api'.gen /\ specs'[inst.gen] = specs[inst.gen]
          /\ loop.gen \in 1..api'.gen /\ specs'[loop.gen] = specs[loop.gen]
      BY <1>1, <3>2, CopyKept
    <3>4. QED
      BY <1>2, <3>2, <3>3 DEF CopyKnown
  <2>2. step # 0 => base.seen = inst.seen
    BY <1>1 DEF CopiesKnown
  <2>3. QED
    BY <1>2, <2>1, <2>2 DEF CopiesKnown, ApiGrows, Generations, MaxGeneration
<1>7. LoopKnown'
  <2>1. newest <= api'.gen
    BY <1>1, <1>3, Generation DEF Later
  <2>2. QED
    BY <1>1, <1>2, <2>1 DEF LoopKnown
<1>8. PassKnown'
  BY <1>4, PassAround
<1>9. ObservedMeansApplied' /\ PodAfterItsPolicies'
  BY <1>2, <1>3, ObservedElsewhere
<1>10. QED
  BY <1>3, <1>5, <1>6, <1>7, <1>8, <1>9

\* The cache that stays.
LEMMA CacheKept ==
    ASSUME InstanceInv, ApiGrows, cache' = cache
    PROVE  /\ cache' \in HermesInstance /\ cache'.gen \in 1..api'.gen
           /\ cache'.on = specs'[cache'.gen]
           /\ newest <= cache'.gen \/ FinalizerMissing'
<1>1. TypeOK /\ CopiesKnown /\ LoopKnown
  BY InvParts
<1>2. cache.gen \in 1..api.gen /\ cache.on = specs[cache.gen]
  BY <1>1 DEF CopiesKnown
<1>3. cache.gen \in 1..api'.gen /\ specs'[cache.gen] = specs[cache.gen]
  BY <1>1, <1>2, CopyKept
<1>4. newest <= cache.gen \/ FinalizerMissing
  BY <1>1 DEF LoopKnown
<1>5. FinalizerMissing' = FinalizerMissing
  BY DEF FinalizerMissing
<1>6. QED
  BY <1>1, <1>2, <1>3, <1>4, <1>5 DEF TypeOK

\* The informer delivers the instance.
LEMMA SyncInstanceKeeps == InstanceInv /\ SyncInstance => InstanceInv'
<1> SUFFICES ASSUME InstanceInv, SyncInstance PROVE InstanceInv'
  OBVIOUS
<1>1. TypeOK /\ CopiesKnown /\ LoopKnown /\ ObjectsKnown
  BY InvParts
<1>2. /\ cache' = api /\ api' = api /\ UNCHANGED local /\ UNCHANGED cluster
      /\ refFound' = refFound /\ crds' = crds /\ edits' = edits
      /\ faults' = faults /\ specs' = specs
  BY DEF SyncInstance
<1>3. /\ child' = child /\ childCache' = childCache /\ disturbed' = disturbed
      /\ edits \in 0..MaxEdits /\ edits <= edits /\ api \in HermesInstance
  BY <1>1, <1>2, InstanceAssumption DEF cluster, TypeOK
<1>4. ApiGrows
  BY <1>1, <1>2, <1>3, ApiKept
<1>5. /\ cache' \in HermesInstance /\ cache'.gen \in 1..api'.gen
      /\ cache'.on = specs'[cache'.gen] /\ newest <= cache'.gen
  <2>1. api.gen \in 1..api.gen /\ newest <= api.gen
    BY <1>1, Generation
  <2>2. QED
    BY <1>1, <1>2, <1>3, <2>1 DEF CopiesKnown
<1>6. /\ refFound' \in BOOLEAN /\ faults' \in 0..MaxFaults
      /\ child' \in [Objects -> Contents]
      /\ childCache' \in [Objects -> Contents] /\ disturbed' \subseteq Objects
  BY <1>1, <1>2, <1>3 DEF TypeOK
<1>7. Elsewhere
  BY <1>2, NothingElsewhere
<1>8. /\ TypeOK' /\ CopiesKnown' /\ LoopKnown' /\ PassKnown' /\ Later
      /\ ObservedMeansApplied' /\ PodAfterItsPolicies'
  BY <1>2, <1>4, <1>5, <1>6, <1>7, Around
<1>9. ObjectsKnown'
  BY <1>1, <1>2, <1>8, ObjectsUntouched
<1>10. QED
  BY <1>8, <1>9 DEF InstanceInv, ObjectsKnown

\* One object is read or written by somebody else.
LEMMA OneObject ==
    ASSUME InstanceInv, UNCHANGED <<api, local, specs, outside>>,
           faults' \in 0..MaxFaults,
           child' \in [Objects -> Contents], childCache' \in [Objects -> Contents],
           disturbed' \subseteq Objects, Elsewhere,
           NEW o \in Objects,
           \A p \in Objects \ {o} :
               /\ child'[p] = child[p] /\ childCache'[p] = childCache[p]
               /\ p \in disturbed' <=> p \in disturbed,
           Justified(o, child[o])', Justified(o, childCache[o])', CacheKnown(o)'
    PROVE  InstanceInv'
<1>1. TypeOK /\ CopiesKnown /\ LoopKnown /\ ObjectsKnown
  BY InvParts
<1>2. /\ api' = api /\ cache' = cache /\ refFound' = refFound
      /\ crds' = crds /\ edits' = edits /\ specs' = specs /\ UNCHANGED local
  BY DEF outside
<1>3. /\ edits \in 0..MaxEdits /\ edits <= edits /\ api \in HermesInstance
      /\ refFound' \in BOOLEAN
  BY <1>1, <1>2, InstanceAssumption DEF TypeOK
<1>4. ApiGrows
  BY <1>1, <1>2, <1>3, ApiKept
<1>5. /\ cache' \in HermesInstance /\ cache'.gen \in 1..api'.gen
      /\ cache'.on = specs'[cache'.gen]
      /\ newest <= cache'.gen \/ FinalizerMissing'
  BY <1>2, <1>4, CacheKept
<1>6. /\ TypeOK' /\ CopiesKnown' /\ LoopKnown' /\ PassKnown' /\ Later
      /\ ObservedMeansApplied' /\ PodAfterItsPolicies'
  BY <1>2, <1>3, <1>4, <1>5, Around
<1>7. ObjectsKnown'
  <2>1. SUFFICES ASSUME NEW p \in Objects \ {o}
                 PROVE  /\ Justified(p, child[p])' /\ Justified(p, childCache[p])'
                        /\ CacheKnown(p)'
    BY DEF ObjectsKnown
  <2>2. QED
    BY <1>1, <1>6, UntouchedKnown
<1>8. QED
  BY <1>6, <1>7 DEF InstanceInv, ObjectsKnown

\* The informer delivers an object.
LEMMA SyncObjectKeeps ==
    ASSUME InstanceInv, NEW o \in Lagging, SyncObject(o)
    PROVE  InstanceInv'
<1>1. TypeOK /\ ObjectsKnown /\ o \in Objects
  BY InvParts, InstanceAssumption
<1>2. /\ UNCHANGED <<api, local, specs, outside>> /\ faults' = faults
      /\ child' = child /\ disturbed' = disturbed
      /\ childCache' = [childCache EXCEPT ![o] = child[o]]
  BY DEF SyncObject
<1>3. /\ faults' \in 0..MaxFaults
      /\ child' \in [Objects -> Contents] /\ childCache' \in [Objects -> Contents]
      /\ disturbed' \subseteq Objects /\ childCache'[o] = child[o]
  BY <1>1, <1>2 DEF TypeOK
<1>4. \A p \in Objects \ {o} : childCache'[p] = childCache[p]
  BY <1>1, <1>2 DEF TypeOK
<1>5. Elsewhere
  BY <1>2 DEF Elsewhere
<1>6. Justified(o, child[o])
  BY <1>1 DEF ObjectsKnown
<1>7. Justified(o, child[o])' /\ Justified(o, childCache[o])'
  BY <1>2, <1>3, <1>6 DEF Justified, Foreign, local
<1>8. CacheKnown(o)'
  <2>1. child[o] \in Nat
    BY <1>1, ContentType
  <2>2. child[o] >= child[o]
    BY <2>1
  <2>3. QED
    BY <1>2, <1>3, <2>2 DEF CacheKnown
<1>9. QED
  BY <1>1, <1>2, <1>3, <1>4, <1>5, <1>7, <1>8, OneObject

\* Somebody else deletes or overwrites an object.
LEMMA DisturbKeeps ==
    ASSUME InstanceInv, NEW o \in Drifting, NEW x \in {0, Foreign}, Disturb(o, x)
    PROVE  InstanceInv'
<1>1. TypeOK /\ CopiesKnown /\ LoopKnown /\ ObjectsKnown /\ o \in Objects
      /\ MaxFaults \in Nat
  BY InvParts, InstanceAssumption
<1>2. x \in Contents /\ 0 <= newest /\ 0 <= api.gen
  BY <1>1, Generation DEF Contents
<1>3. /\ UNCHANGED <<api, local, specs, outside>>
      /\ faults < MaxFaults /\ faults' = faults + 1
      /\ child' = [child EXCEPT ![o] = x]
      /\ childCache' = IF o \in Lagging THEN childCache
                       ELSE [childCache EXCEPT ![o] = x]
      /\ disturbed' = disturbed \cup {o}
  BY DEF Disturb
<1>4. faults' \in 0..MaxFaults
  BY <1>1, <1>3 DEF TypeOK
<1>5. /\ child' \in [Objects -> Contents] /\ childCache' \in [Objects -> Contents]
      /\ disturbed' \subseteq Objects
      /\ \A p \in Objects : child'[p] = IF p = o THEN x ELSE child[p]
      /\ \A p \in Objects : childCache'[p] =
           IF p = o /\ o \notin Lagging THEN x ELSE childCache[p]
  BY <1>1, <1>2, <1>3 DEF TypeOK
<1>6. Elsewhere
  <2>1. "StatefulSet" \in Objects
    BY ObjectFacts
  <2>2. QED
    BY <1>3, <1>5, <2>1 DEF Elsewhere
<1>7. Justified(o, childCache[o]) /\ Justified(o, x)
  BY <1>1, <1>2 DEF ObjectsKnown, Justified
<1>8. Justified(o, child[o])' /\ Justified(o, childCache[o])'
  BY <1>1, <1>3, <1>5, <1>7 DEF Justified, Foreign, local
<1>9. CacheKnown(o)'
  BY <1>1, <1>3, <1>5 DEF ObjectsKnown, CacheKnown
<1>10. QED
  BY <1>1, <1>3, <1>4, <1>5, <1>6, <1>8, <1>9, OneObject

\* A user's edit of the instance, or of a ConfigMap it refers to.
LEMMA EditKeeps ==
    ASSUME InstanceInv, UNCHANGED local, UNCHANGED cluster, ApiGrows,
           api'.seen = api.seen, cache' = cache, refFound' \in BOOLEAN,
           faults' = faults
    PROVE  InstanceInv'
<1>1. TypeOK /\ CopiesKnown /\ LoopKnown /\ ObjectsKnown
  BY InvParts
<1>2. /\ faults' \in 0..MaxFaults /\ child' \in [Objects -> Contents]
      /\ childCache' \in [Objects -> Contents] /\ disturbed' \subseteq Objects
  BY <1>1 DEF TypeOK, cluster
<1>3. /\ cache' \in HermesInstance /\ cache'.gen \in 1..api'.gen
      /\ cache'.on = specs'[cache'.gen]
      /\ newest <= cache'.gen \/ FinalizerMissing'
  BY CacheKept
<1>4. Elsewhere
  BY NothingElsewhere
<1>5. /\ TypeOK' /\ CopiesKnown' /\ LoopKnown' /\ PassKnown' /\ Later
      /\ ObservedMeansApplied' /\ PodAfterItsPolicies'
  BY <1>2, <1>3, <1>4, Around
<1>6. ObjectsKnown'
  BY <1>1, <1>5, ObjectsUntouched
<1>7. QED
  BY <1>5, <1>6 DEF InstanceInv, ObjectsKnown

\* A user's edit makes a generation that no object is of.
LEMMA ToggleKeeps ==
    ASSUME InstanceInv, NEW f \in Toggled, Toggle(f)
    PROVE  InstanceInv'
<1>1. TypeOK /\ CopiesKnown /\ LoopKnown
  BY InvParts
<1>2. PICK on : /\ on = IF f \in api.on THEN api.on \ {f} ELSE api.on \cup {f}
                /\ api' = [api EXCEPT !.gen = @ + 1, !.on = on]
                /\ specs' = [specs EXCEPT ![api.gen + 1] = on]
  BY DEF Toggle
<1>3. /\ edits < MaxEdits /\ edits' = edits + 1 /\ cache' = cache
      /\ UNCHANGED local /\ UNCHANGED cluster /\ refFound' = refFound
      /\ crds' = crds /\ faults' = faults
  BY DEF Toggle, Edit
<1>4. on \in SUBSET Features
  BY <1>1, <1>2, InstanceAssumption DEF TypeOK, HermesInstance
<1>5. MaxEdits \in Nat /\ edits \in 0..MaxEdits /\ refFound \in BOOLEAN
  BY <1>1, InstanceAssumption DEF TypeOK
<1>6. edits' \in 0..MaxEdits
  BY <1>3, <1>5
<1>7. api.gen + 1 <= 2 * edits' + (IF "skill" \in on THEN 2 ELSE 1)
  <2>1. api.gen \in Nat /\ api.gen <= 2 * edits + 2
    BY <1>1, <1>5, Generation DEF CopiesKnown
  <2>2. QED
    BY <1>3, <1>5, <2>1
<1>8. ApiGrows /\ api'.seen = api.seen
  BY <1>1, <1>2, <1>3, <1>4, <1>6, <1>7, ApiEdited
<1>9. QED
  BY <1>3, <1>5, <1>8, EditKeeps

\* The user's own ConfigMap comes or goes.
LEMMA ConfigMapRefKeeps == InstanceInv /\ ToggleConfigMapRef => InstanceInv'
<1> SUFFICES ASSUME InstanceInv, ToggleConfigMapRef PROVE InstanceInv'
  OBVIOUS
<1>1. TypeOK /\ CopiesKnown /\ LoopKnown
  BY InvParts
<1>2. /\ edits < MaxEdits /\ edits' = edits + 1 /\ refFound' = ~refFound
      /\ UNCHANGED local /\ UNCHANGED cluster /\ api' = api /\ cache' = cache
      /\ crds' = crds /\ faults' = faults /\ specs' = specs
  BY DEF ToggleConfigMapRef, Edit
<1>3. /\ MaxEdits \in Nat /\ edits \in 0..MaxEdits /\ api \in HermesInstance
  BY <1>1, InstanceAssumption DEF TypeOK
<1>4. edits' \in 0..MaxEdits /\ edits <= edits'
  BY <1>2, <1>3
<1>5. ApiGrows
  BY <1>1, <1>2, <1>3, <1>4, ApiKept
<1>6. refFound' \in BOOLEAN
  BY <1>2
<1>7. QED
  BY <1>2, <1>5, <1>6, EditKeeps

\* A step that changes nothing.
LEMMA StutterKeeps == InstanceInv /\ UNCHANGED vars => InstanceInv'
<1> SUFFICES ASSUME InstanceInv, UNCHANGED vars PROVE InstanceInv'
  OBVIOUS
<1>1. TypeOK /\ CopiesKnown /\ LoopKnown
  BY InvParts
<1>2. /\ api' = api /\ cache' = cache /\ UNCHANGED local /\ UNCHANGED cluster
      /\ refFound' = refFound /\ crds' = crds
      /\ edits' = edits /\ faults' = faults /\ specs' = specs
  BY DEF vars, local, cluster
<1>3. /\ edits \in 0..MaxEdits /\ edits <= edits /\ api \in HermesInstance
      /\ refFound \in BOOLEAN
  BY <1>1, InstanceAssumption DEF TypeOK
<1>4. ApiGrows
  BY <1>1, <1>2, <1>3, ApiKept
<1>5. QED
  BY <1>2, <1>3, <1>4, EditKeeps

\* At the start there is no object, no pass and no status.
LEMMA InitKnown == Init => InstanceInv
<1> SUFFICES ASSUME Init PROVE InstanceInv
  OBVIOUS
<1>1. PICK on \in SUBSET Features : api = [NoInstance EXCEPT !.gen = 1, !.on = on]
  BY DEF Init
<1>2. /\ api \in HermesInstance /\ api.gen = 1 /\ api.on = on /\ api.seen = 0
      /\ NoInstance \in HermesInstance
  BY <1>1, NoInstanceType
<1>3. /\ cache = api /\ base = NoInstance /\ inst = NoInstance /\ step = 0
      /\ call = 1 /\ loop = NoInstance /\ newest = 0 /\ lead = 0
      /\ child = [o \in Objects |-> 0] /\ childCache = child
      /\ refFound \in BOOLEAN /\ crds \in SUBSET {"gateway", "prometheus"}
      /\ edits \in 0..MaxEdits /\ faults \in 0..MaxFaults /\ disturbed = {}
      /\ specs = [g \in Generations |-> IF g = 1 THEN api.on ELSE {}]
  BY DEF Init
<1>4. MaxEdits \in Nat /\ MaxGeneration = 2 * (MaxEdits + 1)
  BY InstanceAssumption DEF MaxGeneration
<1>5. MaxGeneration \in Nat /\ 1 \in 1..MaxGeneration /\ 0 \in 0..MaxGeneration
      /\ 0 \in 0..(MaxGeneration + 1)
  BY <1>4
<1>6. /\ 0 \in Contents /\ 0 \in 0..StatusStep /\ 1 \in 1..4
      /\ 1 \in Generations /\ 1 \in 1..1
  BY <1>5, OrderIs DEF Contents, Foreign, Generations
<1>7. 1 <= 2 * edits + (IF "skill" \in api.on THEN 2 ELSE 1)
  BY <1>3, <1>4
<1>8. /\ specs \in [Generations -> SUBSET Features] /\ specs[1] = on
  BY <1>2, <1>3, <1>6
<1>9. TypeOK
  BY <1>2, <1>3, <1>5, <1>6, <1>8 DEF TypeOK
<1>10. CopiesKnown
  BY <1>2, <1>3, <1>6, <1>7, <1>8 DEF CopiesKnown
<1>11. LoopKnown
  <2>1. step \notin 1..(CronJobStep - 1)
    BY <1>3, OrderIs
  <2>2. QED
    BY <1>2, <1>3, <2>1 DEF LoopKnown
<1>12. \A o \in Objects : child[o] = 0 /\ childCache[o] = 0
  BY <1>3
<1>13. \A o \in Objects : /\ Justified(o, child[o]) /\ Justified(o, childCache[o])
                          /\ CacheKnown(o)
  BY <1>2, <1>3, <1>12 DEF Justified, CacheKnown
<1>14. PassKnown
  <2>1. \A n \in 1..18, c \in 1..4 : ~Made(n, c)
    BY <1>3 DEF Made
  <2>2. CronJobStep - 1 = 18
    BY OrderIs
  <2>3. QED
    BY <2>1, <2>2, Zenon DEF PassKnown
<1>15. ObservedMeansApplied
  BY <1>2 DEF ObservedMeansApplied
<1>16. PodAfterItsPolicies
  <2>1. child["StatefulSet"] = 0
    BY <1>12, ObjectFacts
  <2>2. \A g \in 1..api.gen : g # 0
    BY <1>2
  <2>3. QED
    BY <2>1, <2>2 DEF PodAfterItsPolicies
<1>17. QED
  BY <1>9, <1>10, <1>11, <1>13, <1>14, <1>15, <1>16 DEF InstanceInv

\* Every step keeps the invariant.
LEMMA NextKeeps == InstanceInv /\ [Next]_vars => InstanceInv'
<1> SUFFICES ASSUME InstanceInv, [Next]_vars PROVE InstanceInv'
  OBVIOUS
<1>1. CASE ReconcileStep
  <2>1. CASE BeginReconcile
    BY <2>1, BeginKeeps
  <2>2. CASE CallSucceeds
    BY <2>2, CallSucceedsKeeps
  <2>3. CASE NothingToCall
    BY <2>3, NothingToCallKeeps
  <2>4. CASE SubsystemRefused
    BY <2>4, SubsystemKeeps
  <2>5. CASE CronJobRefused
    BY <2>5, CronJobKeeps
  <2>6. CASE \E kept \in SUBSET Toggled : BeginWithFinalizer(kept)
    BY <2>6, BeginWithFinalizerKeeps
  <2>7. CASE \E kept \in SUBSET Toggled : PatchSkill(kept)
    BY <2>7, PatchSkillKeeps
  <2>8. CASE StatefulSetNotFound
    BY <2>8, AbandonedKeeps
  <2>9. CASE \E ready \in Reports : UpdateStatus(ready)
    BY <2>9, UpdateStatusKeeps
  <2>10. QED
    BY <1>1, <2>1, <2>2, <2>3, <2>4, <2>5, <2>6, <2>7, <2>8, <2>9
    DEF ReconcileStep
<1>2. CASE SubReconcilerSaves
  BY <1>2, SavesKeeps
<1>3. CASE \E kept \in SUBSET Toggled : PatchAnnotation(kept)
  BY <1>3, PatchAnnotationKeeps
<1>4. CASE SubsystemFails
  BY <1>4, SubsystemKeeps
<1>5. CASE CronJobFails
  BY <1>5, CronJobKeeps
<1>6. CASE StatusLostOrCrash
  BY <1>6, AbandonedKeeps
<1>7. CASE SyncInstance
  BY <1>7, SyncInstanceKeeps
<1>8. CASE \E o \in Lagging : SyncObject(o)
  BY <1>8, SyncObjectKeeps
<1>9. CASE \E f \in Toggled : Toggle(f)
  BY <1>9, ToggleKeeps
<1>10. CASE ToggleConfigMapRef
  BY <1>10, ConfigMapRefKeeps
<1>11. CASE \E o \in Drifting, content \in {0, Foreign} : Disturb(o, content)
  BY <1>11, DisturbKeeps
<1>12. CASE UNCHANGED vars
  BY <1>12, StutterKeeps
<1>13. QED
  BY <1>1, <1>2, <1>3, <1>4, <1>5, <1>6, <1>7, <1>8, <1>9, <1>10, <1>11,
     <1>12 DEF Next

-----------------------------------------------------------------------------
\* The invariant holds in every reachable state.
THEOREM InstanceInvHolds == Spec => []InstanceInv
BY InitKnown, NextKeeps, PTL DEF Spec

\* Every variable of the reconcile loop stays in its type.
THEOREM InstanceTypeCorrect == Spec => []TypeOK
<1>1. InstanceInv => TypeOK
  BY DEF InstanceInv
<1>2. QED
  BY <1>1, InstanceInvHolds, PTL

\* The observedGeneration that updateStatus writes is ahead of what a pass has
\* applied by no more than the answers to its own patches have brought into
\* it: every object of the generation its loop began with has been written,
\* whatever caches, refused updates, faults and edits do.
THEOREM ObservedIsApplied == Spec => []ObservedMeansApplied
<1>1. InstanceInv => ObservedMeansApplied
  BY DEF InstanceInv
<1>2. QED
  BY <1>1, InstanceInvHolds, PTL

\* The order of the reconcile loop puts the pod's template of a generation
\* after the network policy, identity, configuration and storage it needs.
THEOREM PodComesAfterPolicies == Spec => []PodAfterItsPolicies
<1>1. InstanceInv => PodAfterItsPolicies
  BY DEF InstanceInv
<1>2. QED
  BY <1>1, InstanceInvHolds, PTL

-----------------------------------------------------------------------------
(***************************************************************************)
(* What a step may remove.                                                 *)
(***************************************************************************)
Removal ==
    \A o \in Objects :
        child[o] # 0 /\ child'[o] = 0 /\ o \notin disturbed' =>
            /\ o \notin Retained
            /\ \E h \in 1..api.gen :
                 /\ ~Wanted(o, specs[h])
                 /\ h >= child[o] \/ child[o] = Foreign \/ o \in CronJobs

\* A call of a pass removes what the spec it works on does not want.
LEMMA MoveRemoves ==
    ASSUME InstanceInv, step # 0, step \in 1..19, Move
    PROVE  Removal
<1>1. TypeOK /\ CopiesKnown /\ LoopKnown /\ ObjectsKnown
  BY InvParts
<1>2. /\ inst.gen \in Nat /\ 1 <= inst.gen /\ inst.gen \in 1..api.gen
      /\ inst.gen \in Contents /\ 0 \in Contents /\ newest \in Nat
      /\ specs[inst.gen] \subseteq inst.on
      /\ step \in 1..18 => inst.gen = newest
  BY <1>1, Generation DEF Contents
<1>3. SUFFICES ASSUME NEW o \in Objects, child[o] # 0, child'[o] = 0
               PROVE  /\ o \notin Retained
                      /\ \E h \in 1..api.gen :
                           /\ ~Wanted(o, specs[h])
                           /\ h >= child[o] \/ child[o] = Foreign
                              \/ o \in CronJobs
  BY DEF Removal
<1>4. child' # child
  BY <1>3
<1>5. PICK p \in Objects : Put(p) \/ Dropped(p)
  BY <1>4 DEF Move, cluster
<1>6. Dropped(p) /\ p = o
  <2>1. CASE Put(p)
    <3>1. child'[o] = IF o = p THEN inst.gen ELSE child[o]
      BY <1>1, <1>2, <2>1, WriteFacts DEF Put
    <3>2. QED
      BY <1>2, <1>3, <3>1
  <2>2. CASE Dropped(p)
    <3>1. child'[o] = IF o = p THEN 0 ELSE child[o]
      BY <1>1, <1>2, <2>2, WriteFacts DEF Dropped
    <3>2. QED
      BY <1>3, <2>2, <3>1
  <2>3. QED
    BY <1>5, <2>1, <2>2
<1>7. /\ o \notin Retained /\ ~Wanted(o, inst.on)
      /\ o \in CronJobs <=> step = 19
  BY <1>6 DEF Dropped
<1>8. ~Wanted(o, specs[inst.gen])
  BY <1>2, <1>7, WantedGrows
<1>9. inst.gen >= child[o] \/ child[o] = Foreign \/ o \in CronJobs
  <2>1. Justified(o, child[o]) /\ child[o] \in Nat
    BY <1>1, ContentType DEF ObjectsKnown
  <2>2. o \notin CronJobs => inst.gen = newest
    BY <1>2, <1>7
  <2>3. QED
    BY <1>2, <2>1, <2>2 DEF Justified
<1>10. QED
  BY <1>2, <1>7, <1>8, <1>9

\* Every step removes only that.
LEMMA StepRemoves == InstanceInv /\ [Next]_vars => [Removal]_vars
<1> SUFFICES ASSUME InstanceInv, Next PROVE Removal
  OBVIOUS
<1>1. TypeOK
  BY InvParts
<1>2. CASE UNCHANGED child
  BY <1>2 DEF Removal
<1>3. CASE AtCall /\ Effect
  <2>1. step # 0 /\ step \in 1..19
    BY <1>1, <1>3, CallFacts, OrderIs
  <2>2. QED
    BY <1>3, <2>1, CallMoves, MoveRemoves
<1>4. ASSUME NEW o \in Drifting, NEW x \in {0, Foreign}, Disturb(o, x)
      PROVE  Removal
  <2>1. /\ child' = [child EXCEPT ![o] = x] /\ disturbed' = disturbed \cup {o}
    BY <1>4 DEF Disturb
  <2>2. \A p \in Objects \ {o} : child'[p] = child[p]
    BY <1>1, <2>1 DEF TypeOK
  <2>3. QED
    BY <2>1, <2>2 DEF Removal
<1>5. CASE CallSucceeds \/ SubsystemFails \/ CronJobFails
  <2>1. UNCHANGED child \/ (AtCall /\ Effect)
    BY <1>5 DEF CallSucceeds, SubsystemFails, CronJobFails, Fault, cluster
  <2>2. QED
    BY <1>2, <1>3, <2>1
<1>6. CASE BeginReconcile \/ NothingToCall \/ SubsystemRefused
           \/ CronJobRefused \/ StatefulSetNotFound \/ StatusLostOrCrash
           \/ SubReconcilerSaves
  BY <1>2, <1>6 DEF BeginReconcile, BeginLoop, NothingToCall, SubsystemRefused,
     CronJobRefused, StatefulSetNotFound, StatusLostOrCrash,
     SubReconcilerSaves, cluster
<1>7. CASE \E ready \in Reports : UpdateStatus(ready)
  BY <1>2, <1>7 DEF UpdateStatus, cluster
<1>8. CASE \E kept \in SUBSET Toggled :
             BeginWithFinalizer(kept) \/ PatchSkill(kept) \/ PatchAnnotation(kept)
  BY <1>2, <1>8 DEF BeginWithFinalizer, BeginLoop, PatchSkill, PatchAnnotation,
     cluster
<1>9. CASE SyncInstance \/ ToggleConfigMapRef
  BY <1>2, <1>9 DEF SyncInstance, ToggleConfigMapRef, cluster
<1>10. CASE \E o \in Lagging : SyncObject(o)
  BY <1>2, <1>10 DEF SyncObject
<1>11. CASE \E f \in Toggled : Toggle(f)
  BY <1>2, <1>11 DEF Toggle, cluster
<1>12. QED
  BY <1>4, <1>5, <1>6, <1>7, <1>8, <1>9, <1>10, <1>11 DEF Next, ReconcileStep

\* deleteIfExists removes an object only when its feature was off for a spec
\* no older than what the object holds, and never one that holds data, also
\* with stale caches and faults; a CronJob, when it was off for some spec.
THEOREM RemovedOnlyAfterOff == Spec => RemovedOnlyWhenOff
<1>1. Spec => [][Removal]_vars
  BY InstanceInvHolds, StepRemoves, PTL DEF Spec
<1>2. QED
  BY <1>1 DEF RemovedOnlyWhenOff, Removal

=============================================================================
