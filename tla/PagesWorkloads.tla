--------------------------- MODULE PagesWorkloads ---------------------------
(***************************************************************************)
(* The pages under web/src/pages/workloads, as records of module Page:     *)
(* per page its feeds (the hooks at its top), its acts (its handlers), its *)
(* rows (which buttons of a row are disabled), its modals (the dialogs at  *)
(* its end), its screen (what is rendered of loading and errors) and its   *)
(* view (search, label filter, sort, paging and selection of its table).   *)
(***************************************************************************)
EXTENDS Widgets

DeploymentsFeeds == ListFeed(TRUE)
DeploymentsView == View(TRUE, TRUE, 25, TRUE)
DeploymentsActs ==
  [restart |-> ConfirmAction("actionLoading", {"list"}, {"list"}),
   rollback |-> ConfirmAction("actionLoading", {"list"}, {"list"}),
   scale |-> Panel("actionLoading", {"list"}, {"list"}),
   protect |-> ProtectToggle]
DeploymentsScreen == ListScreen
DeploymentsRows ==
  [a \in {"scale", "restart", "rollback", "delete"} |-> ByRow("actionLoading")]
DeploymentsModals ==
  [bulk |-> BulkActionBar({"list"}, {"list"}),
   create |-> CreateWorkloadModal({"list"}, {"list"}),
   yaml |-> EditYAMLModal({"list"}, {"list"}),
   edit |-> EditWorkloadModal({"list"}, {"list"}),
   delete |-> DeleteConfirmModal({"list"}, {"list"})]
Deployments ==
  [feeds |-> DeploymentsFeeds, screen |-> DeploymentsScreen,
   acts |-> DeploymentsActs @@ DeploymentsModals, rows |-> DeploymentsRows]

StatefulSetsFeeds == ListFeed(TRUE)
StatefulSetsView == View(TRUE, TRUE, 25, TRUE)
StatefulSetsActs ==
  [restart |-> ConfirmAction("actionLoading", {"list"}, {"list"}),
   scale |-> Panel("actionLoading", {"list"}, {"list"}),
   protect |-> ProtectToggle]
StatefulSetsScreen == ListScreen
StatefulSetsRows ==
  [a \in {"scale", "restart", "delete"} |-> ByRow("actionLoading")]
StatefulSetsModals ==
  [bulk |-> BulkActionBar({"list"}, {"list"}),
   create |-> CreateWorkloadModal({"list"}, {"list"}),
   yaml |-> EditYAMLModal({"list"}, {"list"}),
   edit |-> EditWorkloadModal({"list"}, {"list"}),
   delete |-> DeleteConfirmModal({"list"}, {"list"})]
StatefulSets ==
  [feeds |-> StatefulSetsFeeds, screen |-> StatefulSetsScreen,
   acts |-> StatefulSetsActs @@ StatefulSetsModals, rows |-> StatefulSetsRows]

DaemonSetsFeeds == ListFeed(TRUE)
DaemonSetsView == View(TRUE, TRUE, 25, TRUE)
DaemonSetsActs ==
  [restart |-> ConfirmAction("actionLoading", {"list"}, {"list"}),
   protect |-> ProtectToggle]
DaemonSetsScreen == ListScreen
DaemonSetsRows == [a \in {"restart", "delete"} |-> ByRow("actionLoading")]
DaemonSetsModals ==
  [bulk |-> BulkActionBar({"list"}, {"list"}),
   create |-> CreateWorkloadModal({"list"}, {"list"}),
   yaml |-> EditYAMLModal({"list"}, {"list"}),
   edit |-> EditWorkloadModal({"list"}, {"list"}),
   delete |-> DeleteConfirmModal({"list"}, {"list"})]
DaemonSets ==
  [feeds |-> DaemonSetsFeeds, screen |-> DaemonSetsScreen,
   acts |-> DaemonSetsActs @@ DaemonSetsModals, rows |-> DaemonSetsRows]

JobsFeeds == ListFeed(TRUE)
JobsView == View(TRUE, FALSE, 25, TRUE)
JobsScreen == ListScreen
JobsModals ==
  [bulk |-> BulkActionBar({"list"}, {"list"}),
   create |-> CreateWorkloadModal({"list"}, {"list"}),
   yaml |-> EditYAMLModal({"list"}, {"list"}),
   edit |-> EditJobModal({"list"}, {"list"}),
   delete |-> DeleteConfirmModal({"list"}, {"list"})]
Jobs == [feeds |-> JobsFeeds, screen |-> JobsScreen,
         acts |-> JobsModals, rows |-> NoRows]

CronJobsFeeds == ListFeed(TRUE)
CronJobsView == View(TRUE, FALSE, 25, TRUE)
\* handleSuspendToggle: no confirmation; the flag names one row.
CronJobsActs == [suspend |-> Button("suspendLoading", {"list"}, {"list"})]
CronJobsScreen == ListScreen
CronJobsRows == [suspend |-> ByRow("suspendLoading")]
CronJobsModals ==
  [bulk |-> BulkActionBar({"list"}, {"list"}),
   create |-> CreateWorkloadModal({"list"}, {"list"}),
   yaml |-> EditYAMLModal({"list"}, {"list"}),
   edit |-> EditCronJobModal({"list"}, {"list"}),
   delete |-> DeleteConfirmModal({"list"}, {"list"})]
CronJobs == [feeds |-> CronJobsFeeds, screen |-> CronJobsScreen,
             acts |-> CronJobsActs @@ CronJobsModals, rows |-> CronJobsRows]

HPAsFeeds == ListFeed(TRUE)
HPAsView == View(TRUE, FALSE, 25, FALSE)
HPAsScreen == ListScreen
HPAsModals ==
  [create |-> CreateHPAModal({"list"}, {"list"}),
   yaml |-> EditYAMLModal({"list"}, {"list"}),
   delete |-> DeleteConfirmModal({"list"}, {"list"})]
HPAs == [feeds |-> HPAsFeeds, screen |-> HPAsScreen,
         acts |-> HPAsModals, rows |-> NoRows]

-----------------------------------------------------------------------------
PodsFeeds == ListFeed(TRUE)
PodsView == View(TRUE, TRUE, 25, TRUE)
\* handleViewLogs: one panel, opened for one row after another.
PodsLogs == [logs |-> Once(Cleared(Fetch(TRUE)))]
PodsScreen == ListScreen
PodsLogPanel == [logs |-> LoadAndError]
PodsRows == NoRows
PodsModals ==
  [bulk |-> BulkActionBar({"list"}, {"list"}),
   delete |-> DeleteConfirmModal({"list"}, {"list"})]
Pods == [feeds |-> PodsFeeds @@ PodsLogs,
         screen |-> PodsScreen @@ PodsLogPanel, acts |-> PodsModals, rows |-> PodsRows]

PodDetailFeeds == [pod |-> UseResource(TRUE), metrics |-> UseResource(TRUE)]
\* fetchLogs: on opening the tab, for another container or length, by the
\* button and every five seconds.
PodDetailLogs == [logs |-> Fetch(TRUE)]
PodDetailEvents == [events |-> UseResource(TRUE)]
PodDetailYaml == [yaml |-> Once(Fetch(TRUE))]
PodDetailOverview == [pod |-> LoadAndError, metrics |-> {}]
PodDetailLogsTab == [logs |-> LoadAndError]
PodDetailTabs == [events |-> LoadAndError, yaml |-> LoadAndError]
PodDetail ==
  [feeds |-> PodDetailFeeds @@ PodDetailLogs @@ PodDetailEvents @@ PodDetailYaml,
   screen |-> PodDetailOverview @@ PodDetailLogsTab @@ PodDetailTabs,
   acts |-> NoActs, rows |-> NoRows]

-----------------------------------------------------------------------------
DeploymentDetailFeeds ==
  [deploy |-> UseResource(TRUE)]
    @@ [f \in {"pods", "revisions", "events"} |-> Once(UseResource(TRUE))]
DeploymentDetailYaml == [yaml |-> Once(Fetch(TRUE))]
\* What a deployment does next shows in its pods and revisions.
Rollout == {"deploy", "pods", "revisions", "yaml"}
DeploymentDetailActs ==
  [scale |-> PageDialog("actionLoading", {"deploy"}, Rollout),
   restart |-> ConfirmAction("actionLoading", {"deploy"}, Rollout),
   rollback |-> ConfirmAction("actionLoading", {"deploy"}, Rollout),
   save |-> SaveButton("saving", {"deploy"}, Rollout \ {"yaml"})]
DeploymentDetailRows ==
  [a \in {"scale", "restart", "rollback"} |-> ByFlag("actionLoading")]
DeploymentDetailOverview == [deploy |-> LoadAndError]
DeploymentDetailTabs ==
  [f \in {"pods", "revisions", "events", "yaml"} |-> LoadAndError]
DeploymentDetail ==
  [feeds |-> DeploymentDetailFeeds @@ DeploymentDetailYaml,
   screen |-> DeploymentDetailOverview @@ DeploymentDetailTabs,
   acts |-> DeploymentDetailActs, rows |-> DeploymentDetailRows]

WorkloadDetailFeeds ==
  [object |-> UseResource(TRUE), pods |-> UseResource(TRUE),
   jobs |-> Once(UseResource(TRUE)), events |-> Once(UseResource(TRUE))]
WorkloadDetailYaml == [yaml |-> Once(Fetch(TRUE))]
WorkloadDetailSave == [save |-> SaveButton("saving", {"object"}, {"object", "pods"})]
WorkloadDetailActs ==
  [scale |-> PageDialog("actionBusy", {"object"}, {"object", "pods", "yaml"})]
    @@ [a \in {"restart", "suspend"} |->
          ConfirmAction("actionBusy", {"object", "pods"}, {"object", "pods", "yaml"})]
WorkloadDetailRows ==
  [a \in {"scale", "restart", "suspend"} |-> ByFlag("actionBusy")]
WorkloadDetailOverview == [object |-> LoadAndError]
WorkloadDetailPods == [pods |-> LoadAndError, jobs |-> {"loading"}]
WorkloadDetailTabs == [events |-> LoadAndError, yaml |-> LoadAndError]
WorkloadDetail ==
  [feeds |-> WorkloadDetailFeeds @@ WorkloadDetailYaml,
   screen |-> WorkloadDetailOverview @@ WorkloadDetailPods @@ WorkloadDetailTabs,
   acts |-> WorkloadDetailSave @@ WorkloadDetailActs, rows |-> WorkloadDetailRows]

-----------------------------------------------------------------------------
WorkloadPages ==
  [Deployments |-> Deployments,
   StatefulSets |-> StatefulSets,
   DaemonSets |-> DaemonSets,
   Jobs |-> Jobs,
   CronJobs |-> CronJobs,
   HPAs |-> HPAs,
   Pods |-> Pods,
   PodDetail |-> PodDetail,
   DeploymentDetail |-> DeploymentDetail,
   WorkloadDetail |-> WorkloadDetail]
WorkloadViews ==
  {DeploymentsView, StatefulSetsView, DaemonSetsView, JobsView, CronJobsView,
   HPAsView, PodsView}
WorkloadUnsaid == {<<"PodDetail", "metrics">>, <<"WorkloadDetail", "jobs">>}
WorkloadOvertaken ==
  {<<"Pods", "logs">>, <<"PodDetail", "logs">>, <<"PodDetail", "yaml">>,
   <<"DeploymentDetail", "yaml">>, <<"WorkloadDetail", "yaml">>}
WorkloadUnasked ==
  {<<"DeploymentDetail", f, a>> :
     f \in {"pods", "revisions"}, a \in {"scale", "restart", "rollback", "save"}}
  \cup {<<"WorkloadDetail", "pods", a>> : a \in {"scale", "save"}}
WorkloadRepeats ==
  Retyped(WorkloadPages)
    \cup {<<"CronJobs", "suspend">>, <<"Deployments", "scale">>, <<"StatefulSets", "scale">>}
=============================================================================
