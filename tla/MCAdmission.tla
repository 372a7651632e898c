---------------------------- MODULE MCAdmission ----------------------------
(***************************************************************************)
(* Manifests that between them use every field and option of Admission and *)
(* Resources at least once, alone and in the combinations the webhook      *)
(* tells apart.  Some of them are refused.                                 *)
(***************************************************************************)
EXTENDS Admission

MCTexts == STRING

\* A manifest with a tag and nothing else.
Tagged ==
    [exists |-> TRUE, given |-> {}, field |-> [NoFields EXCEPT !.tag = "v1"],
     num |-> NoNumbers, on |-> {}, refs |-> {},
     sidecars |-> <<>>, inits |-> <<>>, volumes |-> <<>>, mounts |-> <<>>,
     ports |-> <<>>, ingressPort |-> "", routePort |-> "", actions |-> {},
     raw |-> EmptyBody, configMapRef |-> EmptyBody,
     restoreFrom |-> "", source |-> "none",
     restoredFrom |-> "", migrated |-> FALSE]

With(m, f, value) == [m EXCEPT !.field[f] = value]

Bare == With(Tagged, "tag", "")

On(options) == [Tagged EXCEPT !.on = options]

OnWith(options, refs) == [On(options) EXCEPT !.refs = refs]

Ports(ports) == [Tagged EXCEPT !.ports = ports]

Wrote(model, gateways) ==
    [given |-> TRUE, ok |-> TRUE, model |-> model,
     gateways |-> [g \in Gateways |-> IF g \in gateways THEN "user" ELSE ""]]

Unparsable == [EmptyBody EXCEPT !.given = TRUE, !.ok = FALSE]

\* The fields with defaults.
Sparse ==
    {Tagged, Bare, With(Bare, "digest", "sha"), With(Tagged, "tag", "latest"),
     With(With(Tagged, "storageClassName", "A"), "size", "5Gi"),
     With(With(Tagged, "caConfigMap", "own-ca"), "caKey", "root.crt"),
     With(With(With(Tagged, "createServiceAccount", "false"),
               "serviceAccountName", "own"), "caKey", "root.crt"),
     [Bare EXCEPT !.given = {"image", "persistence", "networkPolicy",
                             "caBundle", "metrics", "logging", "service"}]}

Bounded ==
    {[With(Tagged, "minAvailable", "1") EXCEPT !.num.minReplicas = 7],
     [With(Tagged, "maxUnavailable", "2") EXCEPT !.num.minReplicas = 2,
                                                 !.num.maxReplicas = 3],
     [Tagged EXCEPT !.num.minReplicas = 4, !.num.maxReplicas = 3],
     With(With(Tagged, "minAvailable", "1"), "maxUnavailable", "2")}

Networked ==
    {Ports(<<ServicePort("gateway", 443, 8443, ""),
             ServicePort("voice", 5000, 0, "UDP")>>),
     [Ports(<<ServicePort("api", 80, 8443, "TCP"),
              ServicePort("metrics", 9000, 9001, "TCP")>>) EXCEPT
        !.ingressPort = "api", !.routePort = "api"],
     [With(Tagged, "allowDNS", "false") EXCEPT
        !.num.metricsPort = 9100, !.routePort = "metrics",
        !.ingressPort = "metrics"],
     With(With(Tagged, "metricsEnabled", "false"), "npEnabled", "false")}

Tailscale == OnWith({"tailscale"}, {"tailscale.authKey"})

Sidecars ==
    {OnWith({"telegram", "slack", "discord"},
            {"telegram.botToken", "slack.botToken", "discord.botToken"}),
     OnWith({"signal", "whatsapp", "slack"},
            {"signal.phoneNumber", "signal.authToken", "whatsapp.provider",
             "slack.botToken", "slack.appToken", "slack.signing"}),
     On({"telegram"}), OnWith({"signal"}, {"signal.phoneNumber"}),
     OnWith({"honcho", "honchoPersistence"}, {"honcho.apiKey"}),
     OnWith({"honcho"}, {"honcho.apiKey"}), On({"honcho"}),
     [Tailscale EXCEPT !.sidecars = <<"helper">>, !.inits = <<"prepare">>,
                       !.volumes = <<"scratch">>, !.mounts = <<"scratch">>],
     On({"tailscale"}), [Tailscale EXCEPT !.sidecars = <<"tailscale">>],
     [Tailscale EXCEPT !.volumes = <<"scratch", "tailscale-tmp">>],
     [Tailscale EXCEPT !.inits = <<"tailscale">>],
     [Tagged EXCEPT !.volumes = <<"data">>]}

Configured ==
    {[OnWith({"telegram"}, {"telegram.botToken"}) EXCEPT
        !.raw = Wrote("", {"telegram", "slack"})],
     [On({"merge"}) EXCEPT !.raw = Wrote("", {"slack"}),
                           !.configMapRef = Wrote("user", {"discord"})],
     [Tagged EXCEPT !.raw = Wrote("", {"slack"}),
                    !.configMapRef = Wrote("user", {"discord"})],
     [Tagged EXCEPT !.configMapRef = Wrote("user", {})],
     [On({"merge"}) EXCEPT !.raw = Unparsable,
                           !.configMapRef = Wrote("user", {})],
     [OnWith({"telegram"}, {"telegram.botToken"}) EXCEPT !.raw = Unparsable]}

Lifecycle ==
    {On({"suspended"}),
     [On({"s3"}) EXCEPT !.restoreFrom = "snap1"],
     [Tagged EXCEPT !.restoreFrom = "snap1"],
     [Tagged EXCEPT !.source = "instance"], [Tagged EXCEPT !.source = "backup"],
     [Tagged EXCEPT !.source = "both"], [Tagged EXCEPT !.source = "neither"],
     [On({"s3"}) EXCEPT !.restoreFrom = "snap1", !.source = "backup"],
     [On({"selfConfigure", "protectedKeys"}) EXCEPT !.actions = {"config"}],
     [On({"selfConfigure"}) EXCEPT !.actions = {"config"}],
     On({"selfConfigure", "protectedKeys"})}

MCCreations ==
    Sparse \cup Bounded \cup Networked \cup Sidecars \cup Configured
    \cup Lifecycle

MCChanges ==
    {Tagged, Bare, With(Tagged, "storageClassName", "A"),
     With(Tagged, "caKey", "root.crt"), With(Tagged, "tag", "v3"),
     [On({"s3"}) EXCEPT !.restoreFrom = "snap2"],
     [Tagged EXCEPT !.source = "instance"]}

Blank == [given |-> {}, field |-> NoFields, num |-> NoNumbers]

MCDefaults ==
    {[Blank EXCEPT !.field.tag = "v2", !.field.storageClassName = "A",
                   !.field.caSecret = "corporate-ca"],
     [Blank EXCEPT !.field.storageClassName = "B", !.field.size = "20Gi",
                   !.field.npEnabled = "false", !.num.metricsPort = 9200],
     [Blank EXCEPT !.field.tag = "latest", !.field.digest = "sha"]}

=============================================================================
