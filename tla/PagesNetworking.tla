-------------------------- MODULE PagesNetworking ---------------------------
(***************************************************************************)
(* The pages under web/src/pages/networking and .../storage, as records of *)
(* module Page, in the parts PagesWorkloads names.                         *)
(***************************************************************************)
EXTENDS Widgets

\* The health of a service is read from the endpoints, fetched once.
ServicesFeeds == ListFeed(TRUE) @@ [endpoints |-> Once(UseResource(TRUE))]
ServicesView == View(TRUE, TRUE, 25, TRUE)
ServicesScreen == ListScreen @@ [endpoints |-> {}]
ServicesRows == [protect |-> ProtectToggle]
Both == {"list", "endpoints"}
ServicesModals ==
  [bulk |-> BulkActionBar({"list"}, Both),
   create |-> CreateServiceModal({"list"}, Both),
   edit |-> CreateServiceModal({"list"}, Both),
   yaml |-> EditYAMLModal({"list"}, Both),
   pool |-> EditLBPoolModal({"list"}, {"list"}),
   delete |-> DeleteConfirmModal({"list"}, Both)]
Services == [feeds |-> ServicesFeeds, screen |-> ServicesScreen,
             acts |-> ServicesRows @@ ServicesModals, rows |-> NoRows]

LoadBalancerFeeds == ListFeed(TRUE) @@ [endpoints |-> Once(UseResource(TRUE))]
LoadBalancerView == View(TRUE, FALSE, 25, FALSE)
LoadBalancerScreen == ListScreen @@ [endpoints |-> {}]
LoadBalancerModals ==
  [yaml |-> EditYAMLModal({"list"}, Both),
   pool |-> EditLBPoolModal({"list"}, {"list"}),
   create |-> CreateServiceModal({"list"}, Both),
   edit |-> CreateServiceModal({"list"}, Both),
   delete |-> DeleteConfirmModal({"list"}, Both)]
LoadBalancer == [feeds |-> LoadBalancerFeeds, screen |-> LoadBalancerScreen,
                 acts |-> LoadBalancerModals, rows |-> NoRows]

IngressFeeds == ListFeed(TRUE)
IngressView == View(TRUE, TRUE, 25, TRUE)
IngressScreen == ListScreen
IngressModals ==
  [bulk |-> BulkActionBar({"list"}, {"list"}),
   create |-> CreateIngressModal({"list"}, {"list"}),
   edit |-> CreateIngressModal({"list"}, {"list"}),
   yaml |-> EditYAMLModal({"list"}, {"list"}),
   delete |-> DeleteConfirmModal({"list"}, {"list"})]
Ingress == [feeds |-> IngressFeeds, screen |-> IngressScreen,
            acts |-> IngressModals, rows |-> NoRows]

NetPoliciesFeeds == ListFeed(TRUE)
NetPoliciesView == View(TRUE, FALSE, 25, TRUE)
NetPoliciesScreen == ListScreen
NetPoliciesModals ==
  [bulk |-> BulkActionBar({"list"}, {"list"}),
   create |-> CreateNetworkPolicyModal({"list"}, {"list"}),
   yaml |-> EditYAMLModal({"list"}, {"list"}),
   delete |-> DeleteConfirmModal({"list"}, {"list"})]
NetPolicies == [feeds |-> NetPoliciesFeeds, screen |-> NetPoliciesScreen,
                acts |-> NetPoliciesModals, rows |-> NoRows]

EndpointsFeeds == ListFeed(TRUE)
EndpointsView == View(TRUE, FALSE, 25, FALSE)
EndpointsScreen == ListScreen
Endpoints == [feeds |-> EndpointsFeeds, screen |-> EndpointsScreen,
              acts |-> NoActs, rows |-> NoRows]

\* A coverage report that could not be fetched reads as full coverage.
ExposureCoverage == [coverage |-> Once(UseResource(FALSE))]
ExposureFeeds == [exposure |-> UseResource(FALSE)]
ExposureScreen == [exposure |-> LoadAndError, coverage |-> {"loading"}]
Exposure == [feeds |-> ExposureFeeds @@ ExposureCoverage, screen |-> ExposureScreen,
             acts |-> NoActs, rows |-> NoRows]

-----------------------------------------------------------------------------
\* Three lists under three tabs, refreshed together; the suggestions of the
\* form are fetched once and fall back to nothing.
L2Lists == {"pools", "l2", "nads"}
L2NetworksFeeds ==
  [pools |-> UseResource(FALSE), l2 |-> UseResource(FALSE), nads |-> UseResource(TRUE)]
    @@ [f \in {"hciNets", "hostIfaces"} |-> Once(Unnoted(UseResource(FALSE)))]
L2NetworksCreate == [create |-> PageDialog("creating", L2Lists, L2Lists)]
L2NetworksScreen == [f \in L2Lists |-> LoadAndError]
L2NetworksForm == [f \in {"hciNets", "hostIfaces"} |-> {}]
L2NetworksModals ==
  [yaml |-> EditYAMLModal(L2Lists, L2Lists), delete |-> DeleteConfirmModal(L2Lists, L2Lists)]
L2Networks == [feeds |-> L2NetworksFeeds, screen |-> L2NetworksScreen @@ L2NetworksForm,
               acts |-> L2NetworksCreate @@ L2NetworksModals, rows |-> NoRows]

ServiceTabs == {"endpoints", "pods", "events"}
ServiceDetailFeeds ==
  [service |-> UseResource(TRUE)] @@ [f \in ServiceTabs |-> Once(UseResource(TRUE))]
ServiceDetailYaml == [yaml |-> Once(Fetch(TRUE))]
ServiceDetailSave ==
  [save |-> SaveButton("saving", {"service"}, {"service", "endpoints"})]
ServiceDetailOverview == [service |-> LoadAndError]
ServiceDetailTabs == [f \in ServiceTabs |-> LoadAndError]
ServiceDetailYamlTab == [yaml |-> LoadAndError]
ServiceDetail ==
  [feeds |-> ServiceDetailFeeds @@ ServiceDetailYaml,
   screen |-> ServiceDetailOverview @@ ServiceDetailTabs @@ ServiceDetailYamlTab,
   acts |-> ServiceDetailSave, rows |-> NoRows]

-----------------------------------------------------------------------------
\* ExpandModal: whether the class allows it is asked when it opens.
ExpandModal(asks, shows) == Dialog(asks, shows)

PVCsFeeds == ListFeed(TRUE)
PVCsView == View(TRUE, FALSE, 25, TRUE)
PVCsScreen == ListScreen
PVCsModals ==
  [bulk |-> BulkActionBar({"list"}, {"list"}),
   create |-> CreatePVCModal({"list"}, {"list"}),
   yaml |-> EditYAMLModal({"list"}, {"list"}),
   expand |-> ExpandModal({"list"}, {"list"}),
   delete |-> DeleteConfirmModal({"list"}, {"list"})]
PVCs == [feeds |-> PVCsFeeds, screen |-> PVCsScreen, acts |-> PVCsModals, rows |-> NoRows]

PVsFeeds == ListFeed(FALSE)
PVsView == View(TRUE, FALSE, 25, FALSE)
PVsScreen == ListScreen
PVs == [feeds |-> PVsFeeds, screen |-> PVsScreen, acts |-> NoActs, rows |-> NoRows]

StorageClassesFeeds == ListFeed(FALSE)
StorageClassesView == View(TRUE, FALSE, 25, FALSE)
StorageClassesScreen == ListScreen
StorageClassesModals == [yaml |-> EditYAMLModal({"list"}, {"list"})]
StorageClasses == [feeds |-> StorageClassesFeeds, screen |-> StorageClassesScreen,
                   acts |-> StorageClassesModals, rows |-> NoRows]

-----------------------------------------------------------------------------
NetworkingPages ==
  [Services |-> Services, LoadBalancer |-> LoadBalancer, Ingress |-> Ingress,
   NetPolicies |-> NetPolicies, Endpoints |-> Endpoints, Exposure |-> Exposure,
   L2Networks |-> L2Networks, ServiceDetail |-> ServiceDetail,
   PVCs |-> PVCs, PVs |-> PVs, StorageClasses |-> StorageClasses]
NetworkingViews ==
  {ServicesView, LoadBalancerView, IngressView, NetPoliciesView, EndpointsView,
   PVCsView, PVsView, StorageClassesView}
NetworkingUnsaid ==
  {<<"Services", "endpoints">>, <<"LoadBalancer", "endpoints">>,
   <<"Exposure", "coverage">>, <<"L2Networks", "hciNets">>, <<"L2Networks", "hostIfaces">>}
NetworkingOvertaken == {<<"ServiceDetail", "yaml">>}
NetworkingUnasked == {<<"ServiceDetail", "endpoints", "save">>}
NetworkingRepeats == Retyped(NetworkingPages)
=============================================================================
