---------------------------- MODULE MCQueryCache ----------------------------
(***************************************************************************)
(* QueryCache with the table of this dashboard.  A behaviour visits one     *)
(* screen with one component, or two screens whose components share a       *)
(* prefix or a screen with a button and one whose component reads what the  *)
(* button changes.                                                          *)
(***************************************************************************)
EXTENDS QueryCache, DashboardViews, TLC

Components ==
    [IpDetailPanel |-> IpDetailPanel, IpIntel |-> IpIntel,
     FlowSummaryCards |-> FlowSummaryCards, FlowTimeSeries |-> FlowTimeSeries,
     TopTalkersTable |-> TopTalkersTable,
     ConversationTimeSeries |-> ConversationTimeSeries,
     ProtocolBreakdown |-> ProtocolBreakdown, TopPortsTable |-> TopPortsTable,
     TopDevicesPanel |-> TopDevicesPanel, FlowSearch |-> FlowSearch,
     GeoTab |-> GeoTab, ThreatsTab |-> ThreatsTab, DirectionTab |-> DirectionTab,
     NetworksAsns |-> NetworksAsns, NetworksSubnets |-> NetworksSubnets,
     ApplicationsTab |-> ApplicationsTab,
     ConnectionsElephants |-> ConnectionsElephants,
     ConnectionsTcp |-> ConnectionsTcp, LogRateChart |-> LogRateChart,
     SyslogSummaryCards |-> SyslogSummaryCards,
     SeverityBreakdown |-> SeverityBreakdown, TopPrograms |-> TopPrograms,
     SyslogTopDevices |-> SyslogTopDevices, MessageTable |-> MessageTable,
     TrapsTab |-> TrapsTab, AuditPage |-> AuditPage, Interface |-> Interface,
     InterfaceMetrics |-> InterfaceMetrics, InterfaceFlows |-> InterfaceFlows,
     InterfaceTalkers |-> InterfaceTalkers, DeviceAnswer |-> DeviceAnswer,
     InterfaceDevice |-> InterfaceDevice, AlertDevice |-> AlertDevice,
     DeviceOpenAlerts |-> DeviceOpenAlerts, DeviceHealth |-> DeviceHealth,
     DeviceInterfaces |-> DeviceInterfaces, DeviceBaselines |-> DeviceBaselines,
     HealthTab |-> HealthTab, HealthLatency |-> HealthLatency,
     HealthBaselines |-> HealthBaselines, NeighborsSection |-> NeighborsSection,
     NeighborsOspf |-> NeighborsOspf, NeighborsBgp |-> NeighborsBgp,
     RoutesSection |-> RoutesSection, VLANsSection |-> VLANsSection,
     STPSection |-> STPSection, AddressesSection |-> AddressesSection,
     CredentialSection |-> CredentialSection, CredentialTab |-> CredentialTab,
     MaintenanceBadge |-> MaintenanceBadge,
     MaintenanceSection |-> MaintenanceSection, BGPSection |-> BGPSection,
     BGPPrefixHistory |-> BGPPrefixHistory, BGPEventDrawer |-> BGPEventDrawer,
     TrapTab |-> TrapTab, ConfigStatus |-> ConfigStatus,
     ConfigBackups |-> ConfigBackups, ConfigDiff |-> ConfigDiff,
     ConfigBackup |-> ConfigBackup, GitShow |-> GitShow,
     TopBandwidthSection |-> TopBandwidthSection,
     BGPSummaryWidget |-> BGPSummaryWidget, WidgetData |-> WidgetData,
     TopCpuWidget |-> TopCpuWidget, TopMemoryWidget |-> TopMemoryWidget,
     SyslogFeedWidget |-> SyslogFeedWidget,
     SyslogHeatmapWidget |-> SyslogHeatmapWidget,
     PrefixTotalsWidget |-> PrefixTotalsWidget, FlapLogWidget |-> FlapLogWidget,
     OSPFAreasWidget |-> OSPFAreasWidget, OverviewPage |-> OverviewPage,
     RoutingEventDrawer |-> RoutingEventDrawer, BGPSessionsTab |-> BGPSessionsTab,
     BGPPrefixTrends |-> BGPPrefixTrends, BGPFlapLogTab |-> BGPFlapLogTab,
     BGPPanel |-> BGPPanel, OSPFPanel |-> OSPFPanel, ISISPanel |-> ISISPanel,
     TopologyMap |-> TopologyMap, TopologyAlerts |-> TopologyAlerts,
     LinkPanel |-> LinkPanel, AlertsPage |-> AlertsPage, AlertCount |-> AlertCount,
     AlertDetail |-> AlertDetail, CommentThread |-> CommentThread,
     SidebarSearch |-> SidebarSearch, AddressesPage |-> AddressesPage,
     AddressesDevices |-> AddressesDevices,
     MaintenanceDevices |-> MaintenanceDevices, DeviceList |-> DeviceList,
     ClientPage |-> ClientPage, AddDeviceCredentials |-> AddDeviceCredentials,
     DiscoverCredentials |-> DiscoverCredentials,
     CredentialsPage |-> CredentialsPage, DeviceListWindows |-> DeviceListWindows,
     MaintenancePage |-> MaintenancePage, RuleWindows |-> RuleWindows,
     AlertRulesPage |-> AlertRulesPage, CollectorsPage |-> CollectorsPage,
     CollectorDetails |-> CollectorDetails, CollectorLogs |-> CollectorLogs,
     CompliancePolicies |-> CompliancePolicies,
     ComplianceResults |-> ComplianceResults, GoldenConfigs |-> GoldenConfigs,
     GoldenResults |-> GoldenResults, GitArchive |-> GitArchive,
     ChannelLog |-> ChannelLog, ChannelsTab |-> ChannelsTab, SitesTab |-> SitesTab,
     SiteDevices |-> SiteDevices, EmailTemplate |-> EmailTemplate,
     EmailTemplates |-> EmailTemplates, UsersPage |-> UsersPage,
     PlatformTenants |-> PlatformTenants, TenantSwitcher |-> TenantSwitcher,
     PlatformHealth |-> PlatformHealth, SyslogDevices |-> SyslogDevices,
     FlowDevices |-> FlowDevices, BgpBadge |-> BgpBadge,
     ConfigDiffs |-> ConfigDiffs, GitLog |-> GitLog,
     DeviceCompliance |-> DeviceCompliance, DeviceGolden |-> DeviceGolden,
     RollbackBackups |-> RollbackBackups, RollbackTarget |-> RollbackTarget,
     RollbackLatest |-> RollbackLatest,
     SyslogRateWidget |-> SyslogRateWidget,
     BGPPanelSessions |-> BGPPanelSessions,
     BGPPanelTotals |-> BGPPanelTotals,
     MobileAlertCount |-> MobileAlertCount, AlertRule |-> AlertRule,
     RouteDevices |-> RouteDevices, BrowsedRoutes |-> BrowsedRoutes,
     AlertPolicies |-> AlertPolicies, CollectorOwnLogs |-> CollectorOwnLogs,
     DiscoverCollectors |-> DiscoverCollectors, BuildStatus |-> BuildStatus,
     SweepJobs |-> SweepJobs, ProbeCollectors |-> ProbeCollectors,
     AdminChannels |-> AdminChannels, ApiMethods |-> ApiMethods,
     ApiCommands |-> ApiCommands, UploadedBackups |-> UploadedBackups,
     CurrentUser |-> CurrentUser, MobileUser |-> MobileUser,
     AccountUser |-> AccountUser]

(* The same as a function, in which TLC finds a component faster.           *)
Dashboard == [v \in DOMAIN Components |-> Components[v]]

Deeds ==
    {AcknowledgeInList, ResolveInList, AcknowledgeAlert, ResolveAlert,
     PostComment, LinkCredential, SaveCredential, ScheduleForDevice,
     ScheduleWindow, PatchDevice, ToggleRule, DeleteGolden,
     RunPolicy, PushArchive, SaveSite, SaveTemplate,
     SaveChannel, SaveUser, CreateTenant, DeleteRule, RunGolden, DeleteSite,
     ToggleUser, SaveProfile, DeleteWindow, DeleteCollector, SaveTimezone,
     BuildCollectors}

Nothing == Change("nowhere", "nothing", {}, {})

(* Two components ask for other things under ['devices'], ['credentials'].  *)
Colliding == {"devices", "credentials"}

FromAddress == {"id", "ifaceId", "alertId", "mac"}

Names == DOMAIN Dashboard
Shares(v, w) == v # w /\ Dashboard[v].prefix = Dashboard[w].prefix
(* One component for each prefix that reads what the button changes.        *)
Affected(m)  == {v \in Names : m.changes \in Dashboard[v].reads}
Readers(m)   == {v \in Affected(m) : v = CHOOSE w \in Affected(m) :
                                            Dashboard[w].prefix = Dashboard[v].prefix}

Alone   == {[screens |-> {{v}}, deed |-> Nothing] : v \in Names}
Sharing == {[screens |-> {{v}, {w}}, deed |-> Nothing] :
              <<v, w>> \in {p \in Names \X Names : Shares(p[1], p[2])}}
Changed == UNION {{[screens |-> {{m.place}, {v}}, deed |-> m] : v \in Readers(m)} : m \in Deeds}
AllTours == Alone \cup Sharing \cup Changed
=============================================================================
