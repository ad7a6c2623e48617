--------------------------- MODULE DashboardViews ---------------------------
(***************************************************************************)
(* The queries of the dashboard's components, as QueryCache uses them, and *)
(* the changes whose handlers invalidate them.  Each definition reads the  *)
(* component's useQuery: queryKey, queryFn, enabled, refetchInterval,      *)
(* placeholderData, and what the component filters by itself.              *)
(***************************************************************************)

(* A query that is asked again at an interval, for exactly the parameters  *)
(* of its key.                                                             *)
Query(prefix, ps) ==
    [prefix |-> prefix, fn |-> prefix, keyed |-> ps, asked |-> ps, claims |-> ps,
     local |-> {}, needs |-> {}, stops |-> {}, keeps |-> FALSE, resets |-> "no", polled |-> TRUE,
     reads |-> {prefix}]

(* The same, asked only when needed.                                       *)
Once(prefix, ps) == [Query(prefix, ps) EXCEPT !.polled = FALSE]

(* What the component filters out of the answer by itself.                 *)
Sifts(q, ps) == [q EXCEPT !.local = ps, !.claims = @ \cup ps]

(* Nothing is asked until these are chosen, or while those are.            *)
Needs(q, ps) == [q EXCEPT !.needs = ps]
Stops(q, ps) == [q EXCEPT !.stops = ps]
Reads(q, rs) == [q EXCEPT !.reads = rs]
-----------------------------------------------------------------------------
(* FlowPage: a window (minutes, device) and four filters.                  *)
Window  == {"minutes", "deviceId"}
Filters == {"srcIp", "dstIp", "protocol", "dstPort"}

IpDetailPanel  == Once("flow-ip-detail", Window \cup {"ip"})
IpIntel        == Once("flow-intel-single", {"ip"})
(* The filters are in the key only: the totals are the window's.           *)
FlowSummaryCards == [Query("flow-summary", Window) EXCEPT !.keyed = Window \cup Filters]
FlowTimeSeries == Query("flow-timeseries", Window \cup {"srcIp", "dstIp"})
(* The addresses are filtered here, the port not at all.                   *)
TopTalkersTable ==
    Sifts([Query("flow-top-talkers", Window \cup {"protocol"}) EXCEPT
             !.keyed = Window \cup Filters], {"srcIp", "dstIp"})
ConversationTimeSeries ==
    [Once("flow-conv-ts", Window \cup {"srcIp", "dstIp"}) EXCEPT !.fn = "flow-timeseries"]
ProtocolBreakdown == Query("flow-protocols", Window)
TopPortsTable     == Query("flow-top-ports", Window)
TopDevicesPanel   == Query("flow-top-devices", {"minutes"})
(* Its fields are its own, copied from the page's filters when it mounts.  *)
FlowSearch      == Needs(Once("flow-search", Window \cup Filters), {"submitted"})
GeoTab          == Query("flow-geo", Window)
ThreatsTab      == Query("flow-threats", Window \cup {"minScore"})
DirectionTab    == Query("flow-direction", Window)
NetworksAsns    == Query("flow-asn", Window \cup {"asnDir"})
NetworksSubnets == Query("flow-subnet", Window \cup {"subnetDir"})
ApplicationsTab == Sifts(Query("flow-apps", Window), {"showPorts"})
ConnectionsElephants == Query("flow-elephants", Window \cup {"minMb"})
ConnectionsTcp  == Query("flow-tcp", Window)
-----------------------------------------------------------------------------
(* SyslogPage.                                                             *)
LogRateChart       == Query("syslog-rate", {"hours", "deviceId"})
SyslogSummaryCards == Query("syslog-summary", Window)
SeverityBreakdown  == Query("syslog-summary", Window)
TopPrograms        == Query("syslog-programs", Window)
SyslogTopDevices   == Query("syslog-top-devices", {"minutes"})
(* Pagers that keep the last rows while the next ones are asked, and go back *)
(* to the first page in an effect.                                         *)
Pager(q) == [q EXCEPT !.keeps = TRUE, !.resets = "effect"]
MessageTable ==
    Pager(Query("syslog-messages", Window \cup {"severityMax", "program", "query", "page"}))
TrapsTab == Pager(Query("traps", {"days", "deviceId", "trapType", "page"}))
SyslogDevices == Once("devices-list", {})
FlowDevices   == SyslogDevices

(* AuditPage resets its offset in every filter's handler.                  *)
AuditPage ==
    [Once("audit", {"action", "resourceType", "since", "until", "search", "page"}) EXCEPT
        !.resets = "handler"]
-----------------------------------------------------------------------------
(* Interface pages and the device page's sections; "id" comes from the     *)
(* address.                                                                *)
Interface       == Once("interface", {"ifaceId"})
(* Live mode stops the query, the chart then shows what is polled live.    *)
InterfaceMetrics == Stops(Query("iface-metrics", {"ifaceId", "hours"}), {"liveMode"})
InterfaceFlows   == Query("iface-flow-ts", {"deviceId", "ifIndex", "minutes"})
InterfaceTalkers == Query("iface-flow-talkers", {"deviceId", "ifIndex", "minutes"})

DeviceAnswer     == Reads(Once("device", {"id"}), {"devices"})
InterfaceDevice  == DeviceAnswer
AlertDevice      == DeviceAnswer
DeviceOpenAlerts == Reads(Query("device-open-alerts", {"id"}), {"alerts"})
DeviceHealth     == Query("device-health", {"id"})
DeviceInterfaces == Query("device-interfaces", {"id"})
DeviceBaselines  == Once("device-baselines", {"id"})
HealthTab        == Query("device-health-history", {"id", "hours"})
HealthLatency    == Query("device-latency", {"id", "hours"})
HealthBaselines  == Once("device-baselines", {"id"})
NeighborsSection == Once("neighbors", {"id"})
NeighborsOspf    == Once("ospf", {"id"})
NeighborsBgp     == Once("bgp-sessions", {"id"})
BgpBadge         == Once("bgp-sessions", {"id"})
RoutesSection    == Sifts(Once("routes", {"id"}), {"protoFilter"})
VLANsSection     == Once("vlans", {"id"})
STPSection       == Once("stp", {"id"})
(* The search text enters the key 300 ms after the last keystroke.         *)
AddressesSection == Once("addresses", {"id", "search", "typeFilter"})
CredentialSection == Reads(Once("device-creds", {"id"}), {"credentials", "links"})
CredentialTab    == Reads(Once("device-creds-tab", {"id"}), {"credentials", "links"})
MaintenanceBadge == Reads(Once("maintenance", {"id"}), {"windows"})
MaintenanceSection == Reads(Once("maintenance", {"id"}), {"windows"})
BGPSection       == Query("bgp-sessions", {"id"})
BGPPrefixHistory == [Query("bgp-prefix-history", {"id"}) EXCEPT !.fn = "prefix-24"]
BGPEventDrawer   == Once("bgp-events", {"sessionId"})
TrapTab          == Once("device-traps", {"id", "days"})
ConfigStatus     == Query("config-status", {"id"})
(* The tab has three views; the first one asks for what it lists only.     *)
ConfigBackups    == Stops(Once("config-backups", {"id"}), {"otherView"})
ConfigDiffs      == Stops(Once("config-diffs", {"id"}), {"otherView"})
GitLog           == Stops(Once("git-log", {"id"}), {"otherView"})
ConfigDiff       == Needs(Once("config-diff", {"selectedDiffId"}), {"selectedDiffId"})
ConfigBackup     == Needs(Once("config-backup", {"selectedBackupId"}), {"selectedBackupId"})
GitShow ==
    Needs(Once("git-show", {"id", "selectedGitCommit"}), {"selectedGitCommit"})
DeviceCompliance == Needs(Once("compliance-results", {"id"}), {"complianceView"})
DeviceGolden ==
    Needs(Reads(Once("golden-config-results", {"id"}),
                {"golden-config-results", "golden-configs"}), {"complianceView"})
(* The rollback modal compares the snapshot with the latest one.           *)
RollbackBackups == Once("config-backups", {"id"})
RollbackTarget  == Once("config-backup", {"selectedBackupId"})
RollbackLatest  == Needs(RollbackTarget, {"selectedBackupId"})
-----------------------------------------------------------------------------
(* OverviewPage's widgets.                                                 *)
TopBandwidthSection == Query("top-bandwidth", {"windowMinutes"})
BGPSummaryWidget    == Query("bgp-summary", {})
WidgetData          == Query("widget-data", {})
TopCpuWidget        == Query("top-resources", {})
TopMemoryWidget     == Query("top-resources", {})
SyslogFeedWidget    == Query("syslog-feed", {})
SyslogHeatmapWidget == Query("syslog-heatmap", {})
(* Its key is the beginning of LogRateChart's.                             *)
SyslogRateWidget    == [Query("syslog-rate", {}) EXCEPT !.fn = "syslog-summary"]
PrefixTotalsWidget  == Query("bgp-prefix-totals", {})
FlapLogWidget       == Query("bgp-flap-log", {})
OSPFAreasWidget     == Query("ospf-areas", {})
OverviewPage        == Reads(Query("overview", {}), {"alerts", "devices"})

(* RoutingPage.                                                            *)
RoutingEventDrawer == Once("bgp-events", {"sessionId"})
BGPSessionsTab   == Sifts(Query("bgp-sessions-all", {}), {"filter", "vrf", "search"})
BGPPrefixTrends ==
    Needs([Once("bgp-prefix-history", {"routerId", "hours"}) EXCEPT !.fn = "prefix-hours"],
          {"routerId"})
BGPFlapLogTab == Query("bgp-flap-log", {"limit"})
BGPPanel      == Query("bgp-summary", {})
BGPPanelSessions == Query("bgp-sessions-all", {})
BGPPanelTotals   == Query("bgp-prefix-totals", {})
OSPFPanel     == Sifts(Query("ospf-neighbors", {}), {"search", "areaFilter"})
ISISPanel     == Sifts(Query("isis-neighbors", {}),
                       {"search", "levelFilter", "instanceFilter"})
(* The map and the panel of one of its links.                              *)
TopologyMap    == Reads(Once("topology", {}), {"devices"})
TopologyAlerts == Reads(Query("topo-alerts", {}), {"alerts"})
LinkPanel      == Needs(Query("link-util", {"link"}), {"link"})
-----------------------------------------------------------------------------
(* Lists.                                                                  *)
AlertsPage == Reads(Query("alerts", {"effectiveStatus", "severityFilter"}), {"alerts"})
AlertCount == Reads(Query("alert-count", {}), {"alerts"})
MobileAlertCount == AlertCount
AlertRule == Needs(Once("alert-rule", {"ruleId"}), {"ruleId"})
AlertDetail == Reads(Once("alert", {"alertId"}), {"alerts"})
CommentThread == Query("alert-comments", {"alertId"})
(* A user's name is searched 180 ms after the last keystroke.              *)
SidebarSearch == Needs(Once("search", {"debQ"}), {"debQ"})
AddressesPage == Once("addresses-global", {"search", "typeFilter", "deviceFilter"})
(* Three components ask for devices under one key, with two limits.        *)
AddressesDevices == [Once("devices", {}) EXCEPT !.fn = "devices-200", !.reads = {"devices"}]
MaintenanceDevices ==
    [Once("devices", {}) EXCEPT !.fn = "devices-500", !.reads = {"devices"}]
DeviceList ==
    Sifts([Query("devices", {}) EXCEPT !.fn = "devices-500", !.reads = {"devices"}],
          {"search", "statusFilter"})
ClientPage == Once("client", {"mac"})
(* Two under ['credentials'], all types or those of SNMP.                  *)
AddDeviceCredentials ==
    [Once("credentials", {}) EXCEPT !.fn = "credentials-snmp", !.reads = {"credentials"}]
DiscoverCredentials ==
    [Once("credentials", {}) EXCEPT !.fn = "credentials-all", !.reads = {"credentials"}]
CredentialsPage == Reads(Once("credentials-all", {}), {"credentials"})
DeviceListWindows == Reads(Query("maintenance-active", {}), {"windows"})
MaintenancePage == Reads(Query("maint-global", {}), {"windows"})
RuleWindows     == Reads(Once("maintenance-windows-all", {}), {"windows"})
AlertRulesPage  == Once("alert-rules", {})
(* A rule's prefix may be picked from the routes of a device.              *)
RouteDevices    == Needs(Once("devices-list", {}), {"showBrowser"})
BrowsedRoutes   ==
    Needs(Once("device-routes-browse", {"browseDevice"}), {"showBrowser", "browseDevice"})
AlertPolicies   == Once("alert-policies", {})
CollectorsPage  == Sifts(Query("collectors", {}), {"showRevoked"})
CollectorDetails == Query("collector-details", {"collectorId"})
CollectorLogs ==
    Stops(Needs(Query("collector-logs", {"collectorId", "logWindow"}), {"logTab"}),
          {"ownLogs"})
CollectorOwnLogs ==
    Needs(Query("collector-own-logs", {"collectorId", "logWindow"}), {"logTab", "ownLogs"})
DiscoverCollectors == Once("collectors", {})
BuildStatus     == Query("collector-build-status", {})
SweepJobs       == Query("sweep-jobs", {})
ProbeCollectors == Once("probe-collectors", {})
CompliancePolicies == Once("compliance-policies", {})
ComplianceResults == Query("compliance-results", {})
GoldenConfigs   == Once("golden-configs", {})
GoldenResults   == Reads(Query("golden-config-results", {}),
                         {"golden-config-results", "golden-configs"})
GitArchive      == Query("git-status", {})
ChannelLog      == Once("channel-send-log", {"channelId"})
ChannelsTab     == Once("channels", {})
AdminChannels   == ChannelsTab
ApiMethods      == Query("api-methods", {})
ApiCommands     == Once("api-method-commands", {"apiDevice", "method"})
SitesTab        == Reads(Once("admin-sites", {}), {"sites"})
SiteDevices     == Reads(Once("admin-all-devices", {}), {"sites"})
EmailTemplate   == Reads(Once("email-template", {"selectedMetric"}), {"templates"})
EmailTemplates  == Reads(Once("email-templates-all", {}), {"templates"})
(* The endpoint depends on who asks, and nothing is asked before that is    *)
(* known.                                                                  *)
UsersPage ==
    Needs(Reads(Sifts(Once("users-page", {"isPlatAdmin", "filterTenantId", "platformOnly"}),
                      {"search"}), {"users"}), {"me"})
PlatformTenants == Reads(Once("platform-tenants", {}), {"tenants"})
TenantSwitcher  == Reads(Once("auth-tenants", {}), {"tenants"})
PlatformHealth  == Query("platform-health", {})
UploadedBackups == Query("uploaded-backups", {})
(* Who is logged in, asked by every screen.                                *)
CurrentUser == Once("me", {})
MobileUser  == CurrentUser
AccountUser == CurrentUser
-----------------------------------------------------------------------------
(* What the operator changes: where its button is, what it changes, the     *)
(* prefixes its onSuccess invalidates, and those that read what it changes  *)
(* but are left as they are (they catch up when they are old or polled).    *)
Change(place, changes, tells, misses) ==
    [place |-> place, changes |-> changes, tells |-> tells, misses |-> misses,
     exact |-> {}, section |-> FALSE]

(* The handler names one record, by these parameters, where a key has them. *)
Of(c, ps) == [c EXCEPT !.exact = ps]

(* The button is in a section, which its page unmounts while it loads.      *)
InSection(c) == [c EXCEPT !.section = TRUE]

Counts == {"topo-alerts", "overview", "device-open-alerts"}
AcknowledgeInList == Change("AlertsPage", "alerts", {"alerts"},
                            Counts \cup {"alert", "alert-count"})
ResolveInList     == Change("AlertsPage", "alerts", {"alerts", "alert-count"},
                            Counts \cup {"alert"})
AcknowledgeAlert  == Of(Change("AlertDetail", "alerts", {"alert"},
                               Counts \cup {"alerts", "alert-count"}), {"alertId"})
ResolveAlert      == Of(Change("AlertDetail", "alerts", {"alert", "alerts", "alert-count"},
                               Counts), {"alertId"})
PostComment       == InSection(Of(Change("CommentThread", "alert-comments",
                                         {"alert-comments"}, {}), {"alertId"}))
LinkCredential    == InSection(Of(Change("CredentialSection", "links", {"device-creds"},
                                         {"device-creds-tab"}), {"id"}))
SaveCredential    == Change("CredentialsPage", "credentials", {"credentials-all"},
                            {"credentials", "device-creds", "device-creds-tab"})
ScheduleForDevice ==
    InSection(Of(Change("MaintenanceSection", "windows", {"maintenance"},
                        {"maint-global", "maintenance-active", "maintenance-windows-all"}),
                 {"id"}))
ScheduleWindow    == Change("MaintenancePage", "windows", {"maint-global"},
                            {"maintenance", "maintenance-active", "maintenance-windows-all"})
PatchDevice       == Of(Change("DeviceAnswer", "devices", {"device"},
                               {"devices", "topology", "overview"}), {"id"})
ToggleRule        == Change("AlertRulesPage", "alert-rules", {"alert-rules"}, {})
DeleteRule        == ToggleRule
DeleteGolden      == Change("GoldenConfigs", "golden-configs",
                            {"golden-configs", "golden-config-results"}, {})
RunGolden         == Change("GoldenResults", "golden-config-results",
                            {"golden-config-results"}, {})
RunPolicy         == Change("ComplianceResults", "compliance-results",
                            {"compliance-results"}, {})
PushArchive       == Change("GitArchive", "git-status", {"git-status"}, {})
SaveSite          == Change("SitesTab", "sites", {"admin-sites", "admin-all-devices"}, {})
DeleteSite        == SaveSite
SaveTemplate      == Of(Change("EmailTemplate", "templates",
                               {"email-template", "email-templates-all"}, {}),
                        {"selectedMetric"})
SaveChannel       == Change("ChannelsTab", "channels", {"channels"}, {})
SaveUser          == Change("UsersPage", "users", {"users-page"}, {})
ToggleUser        == SaveUser
SaveProfile       == Change("AccountUser", "me", {"me"}, {})
DeleteWindow      == ScheduleWindow
DeleteCollector   == Change("CollectorsPage", "collectors", {"collectors"}, {})
SaveTimezone      == Of(Change("CollectorDetails", "collector-details",
                               {"collector-details"}, {}), {"collectorId"})
BuildCollectors   == Change("BuildStatus", "collector-build-status",
                            {"collector-build-status"}, {})
CreateTenant      == Change("PlatformTenants", "tenants", {"platform-tenants"},
                            {"auth-tenants"})
=============================================================================
