------------------------- MODULE PagesObservability -------------------------
(***************************************************************************)
(* The pages under web/src/pages/observability, .../dashboard and          *)
(* .../topology and the SIEM panel of the integrations page, as records of *)
(* module Page, in the parts PagesWorkloads names.                         *)
(*                                                                         *)
(* Most of these pages derive a report from several feeds.  A "Refresh"    *)
(* that is wired to one of them asks again for that one alone.             *)
(***************************************************************************)
EXTENDS Widgets

Report(feeds, screen) == [feeds |-> feeds, screen |-> screen, acts |-> NoActs, rows |-> NoRows]
Loading(fs) == [f \in fs |-> {"loading"}]

AlertsFeeds == [events |-> UseResource(TRUE)]
AlertsScreen == [events |-> LoadAndError]
Alerts == Report(AlertsFeeds, AlertsScreen)

AuditLogFeeds == [entries |-> UseResource(FALSE)]
AuditLogView == View(TRUE, FALSE, 25, FALSE)
AuditLogScreen == [entries |-> LoadAndError]
AuditLog == Report(AuditLogFeeds, AuditLogScreen)

CertificatesFeeds == [certs |-> UseResource(FALSE)]
CertificatesScreen == [certs |-> LoadAndError]
Certificates == Report(CertificatesFeeds, CertificatesScreen)

\* Three panels read as "nothing found" when their report could not be fetched.
Availability == [availability |-> Once(UseResource(FALSE))]
Probes == [probes |-> Once(UseResource(FALSE))]
Orphans == [orphans |-> Once(UseResource(FALSE))]
ClusterHealthFeeds == [health |-> UseResource(FALSE)]
ClusterHealthScreen == [health |-> LoadAndError]
ClusterHealthPanels == {"availability", "probes", "orphans"}
ClusterHealth == Report(ClusterHealthFeeds @@ Availability @@ Probes @@ Orphans,
                        ClusterHealthScreen @@ Loading(ClusterHealthPanels))

CostInputs == {"metrics", "pods"}
CostFeeds == [nodes |-> UseResource(FALSE)] @@ [f \in CostInputs |-> Once(UseResource(FALSE))]
CostScreen == Loading(CostInputs \cup {"nodes"})
Cost == Report(CostFeeds, CostScreen)

DiagnosticsInputs == {"pods", "metrics", "events"}
DiagnosticsFeeds ==
  [nodes |-> UseResource(FALSE)] @@ [f \in DiagnosticsInputs |-> Once(UseResource(FALSE))]
DiagnosticsScreen == Loading(DiagnosticsInputs \cup {"nodes"})
Diagnostics == Report(DiagnosticsFeeds, DiagnosticsScreen)

EventsFeeds == ListFeed(TRUE)
EventsScreen == ListScreen
Events == Report(EventsFeeds, EventsScreen)

\* fetchLogs: by a button, and every five seconds if the box is ticked; another
\* pod empties what is shown, and not what is on its way.
LogsPods == [pods |-> Once(UseResource(TRUE))]
LogsFetch == [logs |-> Manual(Fetch(TRUE))]
LogsScreen == [pods |-> {"loading"}, logs |-> LoadAndError]
Logs == Report(LogsPods @@ LogsFetch, LogsScreen)

MonitoringInputs == {"nodes", "pods"}
MonitoringFeeds ==
  [metrics |-> UseResource(FALSE)] @@ [f \in MonitoringInputs |-> Once(UseResource(FALSE))]
MonitoringScreen == [metrics |-> LoadAndError] @@ Loading(MonitoringInputs)
Monitoring == Report(MonitoringFeeds, MonitoringScreen)

RightsizingFeeds == [rightsize |-> UseResource(FALSE)]
RightsizingScreen == [rightsize |-> LoadAndError]
Rightsizing == Report(RightsizingFeeds, RightsizingScreen)

SecurityPostureFeeds == [posture |-> UseResource(FALSE)]
SecurityPostureView == View(TRUE, FALSE, 25, FALSE)
SecurityPostureScreen == [posture |-> LoadAndError]
SecurityPosture == Report(SecurityPostureFeeds, SecurityPostureScreen)

\* A status that could not be read reads as "not installed".
WorkloadHardening == [hardening |-> Once(UseResource(FALSE))]
ImageProvenance == [images |-> Once(UseResource(FALSE))]
VulnerabilitiesFeeds == [f \in {"status", "reports"} |-> UseResource(FALSE)]
VulnerabilitiesScreen == Loading({"status", "reports", "hardening", "images"})
Vulnerabilities ==
  Report(VulnerabilitiesFeeds @@ WorkloadHardening @@ ImageProvenance, VulnerabilitiesScreen)

-----------------------------------------------------------------------------
\* fetchAll: every source at once, now and every thirty seconds; a source that
\* fails is shown as empty, and counted in a banner if it is not a security scan.
DashboardFetch == Forgetful([Fetch(FALSE) EXCEPT !.waits = "first"])
DashboardFeeds == [core |-> DashboardFetch, security |-> Unnoted(DashboardFetch)]
DashboardScreen == [core |-> LoadAndError, security |-> {"loading"}]
Dashboard == Report(DashboardFeeds, DashboardScreen)

HeatmapInputs == {"nodeMetrics", "pods", "podMetrics"}
HeatmapFeeds ==
  [nodes |-> UseResource(FALSE)] @@ [f \in HeatmapInputs |-> Once(UseResource(FALSE))]
HeatmapScreen == Loading(HeatmapInputs \cup {"nodes"})
Heatmap == Report(HeatmapFeeds, HeatmapScreen)

ResourceMapFeeds == [pods |-> UseResource(FALSE), podMetrics |-> Once(UseResource(FALSE))]
ResourceMapScreen == Loading({"pods", "podMetrics"})
ResourceMap == Report(ResourceMapFeeds, ResourceMapScreen)

ServiceMeshInputs == {"endpoints", "ingresses"}
ServiceMeshFeeds ==
  [services |-> UseResource(TRUE)] @@ [f \in ServiceMeshInputs |-> Once(UseResource(TRUE))]
ServiceMeshScreen == Loading(ServiceMeshInputs \cup {"services"})
ServiceMesh == Report(ServiceMeshFeeds, ServiceMeshScreen)

\* A configuration that could not be read is shown, and saved, as the defaults;
\* saving shows what the server answers.
SiemForwarderConfig == [config |-> Once(QuietFetch(FALSE))]
SiemForwarderSend == [forward |-> SaveButton("busy", {}, {})]
SiemForwarderSave == [save |-> SaveButton("saving", {}, {})]
SiemForwarder == [feeds |-> SiemForwarderConfig, screen |-> [config |-> {}],
                  acts |-> SiemForwarderSend @@ SiemForwarderSave, rows |-> NoRows]

-----------------------------------------------------------------------------
ObservabilityPages ==
  [Alerts |-> Alerts, AuditLog |-> AuditLog, Certificates |-> Certificates,
   ClusterHealth |-> ClusterHealth, Cost |-> Cost, Diagnostics |-> Diagnostics,
   Events |-> Events, Logs |-> Logs, Monitoring |-> Monitoring,
   Rightsizing |-> Rightsizing, SecurityPosture |-> SecurityPosture,
   Vulnerabilities |-> Vulnerabilities, Dashboard |-> Dashboard, Heatmap |-> Heatmap,
   ResourceMap |-> ResourceMap, ServiceMesh |-> ServiceMesh, SiemForwarder |-> SiemForwarder]
ObservabilityViews == {AuditLogView, SecurityPostureView}
ObservabilityUnsaid ==
  {<<"ClusterHealth", f>> : f \in ClusterHealthPanels}
    \cup {<<"Cost", f>> : f \in CostInputs \cup {"nodes"}}
    \cup {<<"Diagnostics", f>> : f \in DiagnosticsInputs \cup {"nodes"}}
    \cup {<<"Logs", "pods">>, <<"SiemForwarder", "config">>, <<"Dashboard", "security">>}
    \cup {<<"Monitoring", f>> : f \in MonitoringInputs}
    \cup {<<"Vulnerabilities", f>> : f \in {"status", "reports", "hardening", "images"}}
    \cup {<<"Heatmap", f>> : f \in HeatmapInputs \cup {"nodes"}}
    \cup {<<"ResourceMap", f>> : f \in {"pods", "podMetrics"}}
    \cup {<<"ServiceMesh", f>> : f \in ServiceMeshInputs \cup {"services"}}
ObservabilityOvertaken ==
  {<<"Logs", "logs">>} \cup {<<"Dashboard", f>> : f \in {"core", "security"}}
ObservabilityUnasked == {}
ObservabilityRepeats == {}
=============================================================================
