-------------------------- MODULE PagesOperations ---------------------------
(***************************************************************************)
(* The pages under web/src/pages/nodes and .../operations, as records of   *)
(* module Page, in the parts PagesWorkloads names; and the Velero console, *)
(* which stands in the backup page.                                        *)
(***************************************************************************)
EXTENDS Widgets

\* topNodes is asked once; a failure leaves its columns empty.
NodeListFeeds == ListFeed(FALSE) @@ [metrics |-> Once(UseResource(FALSE))]
NodeListView == View(TRUE, FALSE, 25, TRUE)
NodeListActs ==
  [a \in {"cordon", "uncordon"} |-> ConfirmAction("actionLoading", {"list"}, {"list"})]
NodeListScreen == ListScreen @@ [metrics |-> {}]
NodeListRows ==
  [a \in {"cordon", "uncordon", "drain"} |-> ByRow("actionLoading")]
NodeListModals ==
  [bulk |-> BulkActionBar({"list"}, {"list"}), drain |-> DrainModal({"list"}, {"list"})]
NodeList == [feeds |-> NodeListFeeds, screen |-> NodeListScreen,
             acts |-> NodeListActs @@ NodeListModals, rows |-> NodeListRows]

\* One flag names the node that is busy; what another node starts takes it over.
NodeOperationsFeeds == [list |-> UseResource(FALSE)]
NodeOperationsActs ==
  [a \in {"cordon", "uncordon", "untaint"} |-> ConfirmAction("actionLoading", {"list"}, {"list"})]
    @@ [taint |-> [Panel("actionLoading", {"list"}, {"list"}) EXCEPT !.lock = "row"]]
NodeOperationsScreen == ListScreen
NodeOperationsRows ==
  [a \in {"cordon", "uncordon", "drain", "taint", "untaint"} |-> ByRow("actionLoading")]
NodeOperationsModals == [drain |-> DrainModal({"list"}, {"list"})]
NodeOperations ==
  [feeds |-> NodeOperationsFeeds, screen |-> NodeOperationsScreen,
   acts |-> NodeOperationsActs @@ NodeOperationsModals, rows |-> NodeOperationsRows]

NodeLabelsFeeds == [list |-> UseResource(FALSE)]
NodeLabelsActs ==
  [add |-> Panel("actionLoading", {"list"}, {"list"}),
   remove |-> ConfirmModal("actionLoading", {"list"}, {"list"})]
NodeLabelsScreen == ListScreen
NodeLabelsRows == [remove |-> ByFlag("actionLoading")]
NodeLabels == [feeds |-> NodeLabelsFeeds, screen |-> NodeLabelsScreen,
               acts |-> NodeLabelsActs, rows |-> NodeLabelsRows]

NodeDetailFeeds ==
  [node |-> UseResource(TRUE)]
    @@ [f \in {"pods", "metrics", "events"} |-> Once(UseResource(FALSE))]
\* Each time the tab is opened, without a cancelled flag.
NodeDetailYaml == [yaml |-> Once(Fetch(TRUE))]
NodeDetailOverview == [node |-> LoadAndError]
NodeDetailTabs == [f \in {"pods", "metrics", "events", "yaml"} |-> LoadAndError]
NodeDetail ==
  [feeds |-> NodeDetailFeeds @@ NodeDetailYaml,
   screen |-> NodeDetailOverview @@ NodeDetailTabs, acts |-> NoActs, rows |-> NoRows]

-----------------------------------------------------------------------------
HelmFeeds == [list |-> UseResource(TRUE)]
HelmView == View(FALSE, FALSE, 25, FALSE)
\* handleChartSearch: the button waits, Enter does not.
HelmCharts == [charts |-> Fetch(FALSE)]
HelmInstall == [install |-> PageDialog("installing", {"list"}, {"list"})]
HelmRollback == [rollback |-> ConfirmAction("actionLoading", {"list"}, {"list"})]
\* loadValuesSchema and handlePreview: openUpgrade empties what they show, and
\* not what they still wait for.
HelmSchema == [schema |-> Alone(Manual(Fetch(TRUE)))]
HelmPreview == [preview |-> Alone(Manual(Cleared(Fetch(TRUE))))]
HelmUpgrade == [upgrade |-> PageDialog("upgrading", {"list"}, {"list"})]
\* showDetails: four answers at once, each of which a failure replaces by nothing.
HelmDetails == [details |-> Once(Cleared(Unnoted(Fetch(TRUE))))]
HelmScreen == ListScreen @@ [charts |-> LoadAndError]
HelmDetailsScreen == [details |-> {}]
HelmUpgradeScreen == [schema |-> LoadAndError, preview |-> LoadAndError]
HelmRows == [rollback |-> ByFlag("actionLoading")]
HelmModals == [delete |-> DeleteConfirmModal({"list"}, {"list"})]
HelmDiff == [f \in {"diffValues", "diffManifest"} |-> Once(Unnoted(UseResource(FALSE)))]
HelmDiffScreen == [f \in {"diffValues", "diffManifest"} |-> {"loading"}]
Helm ==
  [feeds |-> HelmFeeds @@ HelmCharts @@ HelmSchema @@ HelmPreview @@ HelmDetails @@ HelmDiff,
   screen |-> HelmScreen @@ HelmDetailsScreen @@ HelmUpgradeScreen @@ HelmDiffScreen,
   acts |-> HelmInstall @@ HelmRollback @@ HelmUpgrade @@ HelmModals, rows |-> HelmRows]

CatalogFeeds == [repos |-> UseResource(FALSE), charts |-> UseResource(FALSE)]
\* installEssential adds a repository without a busy flag.
CatalogActs == [essential |-> Button("own", {"repos", "charts"}, {"repos", "charts", "managed"})]
CatalogScreen == [f \in {"repos", "charts"} |-> {"loading"}]
\* RepoManager: its own list of the repositories, which removing does not wait for.
Everywhere == {"repos", "charts", "managed"}
RepoManager ==
  [addRepo |-> [Dialog(Everywhere, Everywhere) EXCEPT !.closes = FALSE],
   removeRepo |-> [Dialog(Everywhere, Everywhere) EXCEPT !.closes = FALSE, !.lock = "always"]]
RepoManagerFeeds == [managed |-> UseResource(FALSE)]
RepoManagerScreen == [managed |-> {}]
InstallModalFeeds ==
  [f \in {"values", "schema"} |-> Once(Unnoted(UseResource(FALSE)))]
    @@ [cfg |-> Once(UseResource(FALSE)), ai |-> Alone(Cleared(Fetch(FALSE))),
        rendered |-> Alone(Fetch(FALSE))]
InstallModalInstall == [install |-> Dialog({}, {})]
InstallModalScreen ==
  [f \in {"values", "schema"} |-> {"loading"}]
    @@ [cfg |-> {}] @@ [f \in {"ai", "rendered"} |-> LoadAndError]
Catalog ==
  [feeds |-> CatalogFeeds @@ RepoManagerFeeds @@ InstallModalFeeds,
   screen |-> CatalogScreen @@ RepoManagerScreen @@ InstallModalScreen,
   acts |-> CatalogActs @@ RepoManager @@ InstallModalInstall, rows |-> NoRows]

-----------------------------------------------------------------------------
\* preview and sync share one flag; sync starts preview, and clears the flag
\* without waiting for it.
CICDPlan == [plan |-> Cleared(Fetch(FALSE))]
CICDSync == [sync |-> SaveButton("busy", {"plan"}, {"plan"})]
CICDScreen == [plan |-> LoadAndError]
\* The flag names the source that is busy, or the form.
GitOpsSourcesFeeds == [sources |-> QuietFetch(FALSE)]
GitOpsSourcesActs ==
  [add |-> [Panel("sources", {"sources"}, {"sources"}) EXCEPT !.lock = "row"],
   syncNow |-> Button("sources", {"sources"}, {"sources"}),
   remove |-> Button("sources", {"sources"}, {"sources"})]
GitOpsSourcesScreen == [sources |-> {}]
GitOpsSourcesRows == [a \in {"syncNow", "remove"} |-> ByRow("sources")]
CICD == [feeds |-> CICDPlan @@ GitOpsSourcesFeeds,
         screen |-> CICDScreen @@ GitOpsSourcesScreen,
         acts |-> CICDSync @@ GitOpsSourcesActs, rows |-> GitOpsSourcesRows]

UpgradeFeeds == [nodes |-> UseResource(FALSE)]
UpgradeScreen == [nodes |-> LoadAndError]
ReadinessPanel == [readiness |-> Alone(Fetch(FALSE))]
ReadinessPanelScreen == [readiness |-> LoadAndError]
DeprecatedAPIScan == [deprecated |-> Alone(Fetch(FALSE))]
DeprecatedAPIScanScreen == [deprecated |-> LoadAndError]
Upgrade ==
  [feeds |-> UpgradeFeeds @@ ReadinessPanel @@ DeprecatedAPIScan,
   screen |-> UpgradeScreen @@ ReadinessPanelScreen @@ DeprecatedAPIScanScreen,
   acts |-> NoActs, rows |-> NoRows]

\* handleExport reads the objects one by one; the ones it cannot read it skips.
BackupFeeds == [namespaces |-> Once(UseResource(FALSE))]
BackupExport == [export |-> Alone(Cleared(Fetch(FALSE)))]
BackupScreen == [namespaces |-> {"loading"}, export |-> LoadAndError]
\* A status that could not be read reads as "not installed"; changing the tab
\* keeps the rows of the one before, which del deletes from the new one.
VeleroFeeds == [status |-> Once(UseResource(FALSE)), list |-> UseResource(TRUE)]
VeleroDel == [del |-> Button("own", {"list"}, {"list"})]
VeleroScreen == [status |-> {"loading"}, list |-> {"loading"}]
BackupModal == [create |-> Dialog({"list"}, {"list"})]
\* Success opens the tab of the restores, which fetches its list.
RestoreModal == [restore |-> Dialog({"list"}, {"list"})]
Backup == [feeds |-> BackupFeeds @@ BackupExport @@ VeleroFeeds,
           screen |-> BackupScreen @@ VeleroScreen,
           acts |-> VeleroDel @@ BackupModal @@ RestoreModal, rows |-> NoRows]

TerminalFeeds == [pods |-> Once(UseResource(TRUE))]
TerminalScreen == [pods |-> {"loading"}]
Terminal == [feeds |-> TerminalFeeds, screen |-> TerminalScreen, acts |-> NoActs, rows |-> NoRows]

-----------------------------------------------------------------------------
OperationsPages ==
  [NodeList |-> NodeList, NodeOperations |-> NodeOperations, NodeLabels |-> NodeLabels,
   NodeDetail |-> NodeDetail, Helm |-> Helm, Catalog |-> Catalog, CICD |-> CICD,
   Upgrade |-> Upgrade, Backup |-> Backup, Terminal |-> Terminal]
OperationsViews == {NodeListView, HelmView}
OperationsUnsaid ==
  {<<"NodeList", "metrics">>, <<"CICD", "sources">>, <<"Terminal", "pods">>}
    \cup {<<"Helm", f>> : f \in {"details", "diffValues", "diffManifest"}}
    \cup {<<"Catalog", f>> : f \in Everywhere \cup {"values", "schema", "cfg"}}
    \cup {<<"Backup", f>> : f \in {"namespaces", "status", "list"}}
OperationsOvertaken ==
  {<<"NodeDetail", "yaml">>, <<"CICD", "plan">>, <<"CICD", "sources">>}
    \cup {<<"Helm", f>> : f \in {"charts", "schema", "preview", "details"}}
OperationsUnasked == {}
OperationsRepeats ==
  Retyped(OperationsPages)
    \cup {<<"NodeOperations", "taint">>, <<"Backup", "del">>}
    \cup {<<"Catalog", a>> : a \in {"essential", "removeRepo"}}
    \cup {<<"CICD", a>> : a \in {"add", "syncNow", "remove"}}
=============================================================================
