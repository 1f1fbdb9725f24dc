---------------------------- MODULE PagesConfig -----------------------------
(***************************************************************************)
(* The pages under web/src/pages/config, as records of module Page, in the *)
(* parts PagesWorkloads names.                                             *)
(***************************************************************************)
EXTENDS Widgets

\* Cluster and namespace, roles and bindings: four lists refreshed together.
RBACLists == {"clusterRoles", "clusterBindings", "nsRoles", "nsBindings"}
RBACFeeds == [f \in {"clusterRoles", "clusterBindings"} |-> UseResource(FALSE)]
               @@ [f \in {"nsRoles", "nsBindings"} |-> UseResource(TRUE)]
RBACView == View(FALSE, FALSE, 25, FALSE)
RBACScreen == [f \in RBACLists |-> LoadAndError]
RBACModals == [yaml |-> EditYAMLModal(RBACLists, RBACLists)]
RBAC == [feeds |-> RBACFeeds, screen |-> RBACScreen, acts |-> RBACModals, rows |-> NoRows]

\* scan reads every object of a namespace one by one; what it cannot read it
\* skips, so that a scan without an answer reports no drift.
DriftFeeds == [namespaces |-> Once(UseResource(FALSE)), tracked |-> Once(UseResource(FALSE))]
DriftScan == [scan |-> Alone(Cleared(Unnoted(Fetch(FALSE))))]
DriftActs ==
  [snap |-> SaveButton("snapping", {"tracked"}, {"tracked"}),
   revert |-> [PageDialog("open", {"scan"}, {"scan"}) EXCEPT !.lock = "always"]]
DriftScreen == [namespaces |-> {}, tracked |-> {}, scan |-> {"loading"}]
DriftTimeline == [timeline |-> Once(UseResource(FALSE))]
\* revertTo captures the namespace, applies the older snapshot by force, and
\* reads the timeline again.
DriftRevertTo ==
  [revertTo |-> [Dialog({"timeline"}, {"timeline", "tracked", "scan"}) EXCEPT !.closes = FALSE]]
DriftTimelineScreen == [timeline |-> {"loading"}]
Drift == [feeds |-> DriftFeeds @@ DriftScan @@ DriftTimeline,
          screen |-> DriftScreen @@ DriftTimelineScreen,
          acts |-> DriftActs @@ DriftRevertTo, rows |-> NoRows]

\* The detail of one row, of any: collapsing empties it, expanding fetches it,
\* again if the first answer is not there yet.  A failure is only a toast.
ConfigMapsFeeds == ListFeed(TRUE) @@ [namespaces |-> Once(UseResource(FALSE))]
ConfigMapsView == View(TRUE, TRUE, 25, TRUE)
ConfigMapsDetail == [detail |-> Toasted(Cleared(Fetch(FALSE)))]
ConfigMapsScreen == ListScreen @@ [namespaces |-> {}]
ConfigMapsRows == [detail |-> {"loading"}]
ConfigMapsShield == [protect |-> ProtectToggle]
ConfigMapsModals ==
  [bulk |-> BulkActionBar({"list"}, {"list"}),
   create |-> ConfigMapModal({"list"}, {"list"}),
   edit |-> ConfigMapModal({"list"}, {"list", "detail"}),
   yaml |-> EditYAMLModal({"list"}, {"list", "detail"}),
   delete |-> DeleteConfirmModal({"list"}, {"list"})]
ConfigMaps == [feeds |-> ConfigMapsFeeds @@ ConfigMapsDetail,
               screen |-> ConfigMapsScreen @@ ConfigMapsRows,
               acts |-> ConfigMapsShield @@ ConfigMapsModals, rows |-> NoRows]

SecretsFeeds == ListFeed(TRUE)
SecretsView == View(TRUE, TRUE, 25, TRUE)
SecretsScreen == ListScreen
SecretsRows == [protect |-> ProtectToggle]
SecretsModals ==
  [bulk |-> BulkActionBar({"list"}, {"list"}),
   create |-> CreateSecretModal({"list"}, {"list"}),
   yaml |-> EditYAMLModal({"list"}, {"list"}),
   edit |-> EditSecretModal({"list"}, {"list"}),
   delete |-> DeleteConfirmModal({"list"}, {"list"})]
Secrets == [feeds |-> SecretsFeeds, screen |-> SecretsScreen,
            acts |-> SecretsRows @@ SecretsModals, rows |-> NoRows]

\* handleCreate: Enter in the field sends whatever the button's state.
NamespacesFeeds == ListFeed(FALSE)
NamespacesView == View(TRUE, TRUE, 25, FALSE)
NamespacesCreate ==
  [create |-> [Panel("createLoading", {"list"}, {"list"}) EXCEPT !.lock = "always"]]
NamespacesScreen == ListScreen
NamespacesRows == [protect |-> ProtectToggle]
NamespacesModals ==
  [delete |-> DeleteConfirmModal({"list"}, {"list"}), yaml |-> EditYAMLModal({"list"}, {"list"})]
Namespaces == [feeds |-> NamespacesFeeds, screen |-> NamespacesScreen,
               acts |-> NamespacesCreate @@ NamespacesRows @@ NamespacesModals,
               rows |-> NoRows]

\* viewInstances: one dialog, opened for one definition after another.
CRDsFeeds == ListFeed(FALSE)
CRDsInstances == [instances |-> Once(Cleared(Fetch(TRUE)))]
CRDsView == View(TRUE, FALSE, 25, FALSE)
CRDsScreen == ListScreen
CRDsInstancesScreen == [instances |-> LoadAndError]
CRDs == [feeds |-> CRDsFeeds @@ CRDsInstances, screen |-> CRDsScreen @@ CRDsInstancesScreen,
         acts |-> NoActs, rows |-> NoRows]

-----------------------------------------------------------------------------
PDBsFeeds == ListFeed(TRUE)
PDBsView == View(FALSE, FALSE, 25, FALSE)
PDBsScreen == ListScreen
PDBsModals ==
  [create |-> CreateYAMLModal({"list"}, {"list"}),
   delete |-> DeleteConfirmModal({"list"}, {"list"}), yaml |-> EditYAMLModal({"list"}, {"list"})]
PDBs == [feeds |-> PDBsFeeds, screen |-> PDBsScreen, acts |-> PDBsModals, rows |-> NoRows]

ServiceAccountsFeeds == ListFeed(TRUE)
ServiceAccountsView == View(TRUE, FALSE, 25, FALSE)
ServiceAccountsScreen == ListScreen
ServiceAccountsModals ==
  [delete |-> DeleteConfirmModal({"list"}, {"list"}),
   create |-> CreateYAMLModal({"list"}, {"list"}), yaml |-> EditYAMLModal({"list"}, {"list"})]
ServiceAccounts == [feeds |-> ServiceAccountsFeeds, screen |-> ServiceAccountsScreen,
                    acts |-> ServiceAccountsModals, rows |-> NoRows]

\* Two lists whose loading and errors are shown as one.
WebhookLists == {"validating", "mutating"}
WebhooksFeeds == [f \in WebhookLists |-> UseResource(FALSE)]
WebhooksView == View(TRUE, FALSE, 25, FALSE)
WebhooksScreen == [f \in WebhookLists |-> LoadAndError]
WebhooksModals == [delete |-> DeleteConfirmModal(WebhookLists, WebhookLists)]
Webhooks == [feeds |-> WebhooksFeeds, screen |-> WebhooksScreen,
             acts |-> WebhooksModals, rows |-> NoRows]

\* Two reports that read as "none found" when they could not be fetched.
AccessReviewFeeds == [f \in {"risky", "reach"} |-> Once(UseResource(FALSE))]
AccessReviewCheck == [result |-> Alone(Cleared(Fetch(FALSE)))]
AccessReviewScreen == [f \in {"risky", "reach"} |-> {"loading"}]
AccessReviewForm == [result |-> LoadAndError]
AccessReview == [feeds |-> AccessReviewFeeds @@ AccessReviewCheck,
                 screen |-> AccessReviewScreen @@ AccessReviewForm,
                 acts |-> NoActs, rows |-> NoRows]

QuotasFeeds == ListFeed(TRUE)
QuotasView == View(FALSE, FALSE, 0, FALSE)
QuotasScreen == ListScreen
QuotasModals ==
  [create |-> CreateResourceQuotaModal({"list"}, {"list"}),
   yaml |-> EditYAMLModal({"list"}, {"list"}), delete |-> DeleteConfirmModal({"list"}, {"list"})]
Quotas == [feeds |-> QuotasFeeds, screen |-> QuotasScreen, acts |-> QuotasModals,
           rows |-> NoRows]

LimitRangesFeeds == ListFeed(TRUE)
LimitRangesView == View(FALSE, FALSE, 0, FALSE)
LimitRangesScreen == ListScreen
LimitRangesModals == [yaml |-> EditYAMLModal({"list"}, {"list"})]
LimitRanges == [feeds |-> LimitRangesFeeds, screen |-> LimitRangesScreen,
                acts |-> LimitRangesModals, rows |-> NoRows]

PodSecurityFeeds == ListFeed(FALSE)
PodSecurityView == View(TRUE, FALSE, 25, FALSE)
PodSecurityScreen == ListScreen
PodSecurity == [feeds |-> PodSecurityFeeds, screen |-> PodSecurityScreen,
                acts |-> NoActs, rows |-> NoRows]

PriorityClassesFeeds == ListFeed(FALSE)
PriorityClassesView == View(TRUE, FALSE, 25, FALSE)
PriorityClassesScreen == ListScreen
PriorityClassesModals ==
  [delete |-> DeleteConfirmModal({"list"}, {"list"}),
   create |-> CreateYAMLModal({"list"}, {"list"}), yaml |-> EditYAMLModal({"list"}, {"list"})]
PriorityClasses == [feeds |-> PriorityClassesFeeds, screen |-> PriorityClassesScreen,
                    acts |-> PriorityClassesModals, rows |-> NoRows]

-----------------------------------------------------------------------------
ConfigPages ==
  [RBAC |-> RBAC, Drift |-> Drift, ConfigMaps |-> ConfigMaps, Secrets |-> Secrets,
   Namespaces |-> Namespaces, CRDs |-> CRDs, PDBs |-> PDBs,
   ServiceAccounts |-> ServiceAccounts, Webhooks |-> Webhooks,
   AccessReview |-> AccessReview, Quotas |-> Quotas, LimitRanges |-> LimitRanges,
   PodSecurity |-> PodSecurity, PriorityClasses |-> PriorityClasses]
ConfigViews ==
  {RBACView, ConfigMapsView, SecretsView, NamespacesView, CRDsView, PDBsView,
   ServiceAccountsView, WebhooksView, QuotasView, LimitRangesView, PodSecurityView,
   PriorityClassesView}
ConfigUnsaid ==
  {<<"Drift", f>> : f \in {"namespaces", "tracked", "scan", "timeline"}}
    \cup {<<"ConfigMaps", f>> : f \in {"namespaces", "detail"}}
    \cup {<<"AccessReview", f>> : f \in {"risky", "reach"}}
ConfigOvertaken ==
  {<<"CRDs", "instances">>, <<"Drift", "scan">>, <<"ConfigMaps", "detail">>}
ConfigUnasked == {<<"ConfigMaps", "detail", a>> : a \in {"edit", "yaml"}}
ConfigRepeats ==
  Retyped(ConfigPages) \cup {<<"Drift", "revert">>, <<"Namespaces", "create">>}
=============================================================================
