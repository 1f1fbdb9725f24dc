------------------------------ MODULE Widgets -------------------------------
(***************************************************************************)
(* The hooks and dialogs the pages are put together from, as constructors  *)
(* of the feeds and acts of module Page.                                   *)
(*                                                                         *)
(* A feed says which fetch it is:                                          *)
(*   rescoped - something that changes while the page is mounted (the      *)
(*              namespace, a tab, a row) decides what is fetched           *)
(*   drops    - the answer to an older fetch is ignored                    *)
(*   clears   - what is shown is emptied when a fetch starts               *)
(*   waits    - when its loading flag is set: for "every" fetch, the       *)
(*              "first" one, "never"                                       *)
(*   notes    - a failure sets its error                                   *)
(*   again    - a button, a timer or a watch fetches again                 *)
(*   alone    - but not while a fetch is on its way                        *)
(*   manual   - only a button or a timer fetches                           *)
(*   forgets  - a failure empties what is shown                            *)
(* An act says how the user comes to send a write:                         *)
(*   dialog, modal - from a dialog, which covers the page                  *)
(*   leave    - the dialog can be closed while the write is on its way     *)
(*   lock     - when the button that sends is disabled: "always" enabled,  *)
(*              disabled for the "row" its flag names, only enabled when   *)
(*              the flag is "idle", or disabled by an "instance"'s own flag *)
(*   key      - the flag                                                   *)
(*   closes   - success closes the dialog                                  *)
(*   asks     - the feeds success refreshes                                *)
(*   shows    - the feeds the write changes                                *)
(***************************************************************************)
EXTENDS TLC

\* useResource
UseResource(rescoped) ==
  [rescoped |-> rescoped, drops |-> TRUE, clears |-> FALSE, waits |-> "first",
   notes |-> TRUE, again |-> TRUE, alone |-> FALSE,
   manual |-> FALSE, forgets |-> FALSE]

\* useLiveResource: useResource, fetched again on every signal of its watch
UseLiveResource(rescoped) == UseResource(rescoped)

\* A fetch in an effect or a handler, without a cancelled flag, that sets a
\* loading flag each time and an error on failure.
Fetch(rescoped) ==
  [rescoped |-> rescoped, drops |-> FALSE, clears |-> FALSE, waits |-> "every",
   notes |-> TRUE, again |-> TRUE, alone |-> FALSE,
   manual |-> FALSE, forgets |-> FALSE]

\* The same, with neither: catch swallows the failure.
QuietFetch(rescoped) ==
  [rescoped |-> rescoped, drops |-> FALSE, clears |-> FALSE, waits |-> "never",
   notes |-> FALSE, again |-> TRUE, alone |-> FALSE,
   manual |-> FALSE, forgets |-> FALSE]

\* Variants: with a cancelled flag; never fetched again; by a button that is
\* disabled meanwhile; emptied first; fetched by a button alone; with a failure
\* that is only a toast; with one that empties it; with one that reads as an
\* empty answer.
Cancelled(f) == [f EXCEPT !.drops = TRUE]
Once(f) == [f EXCEPT !.again = FALSE]
Alone(f) == [f EXCEPT !.alone = TRUE]
Cleared(f) == [f EXCEPT !.clears = TRUE]
Manual(f) == [f EXCEPT !.manual = TRUE]
Toasted(f) == [f EXCEPT !.notes = FALSE]
Forgetful(f) == [f EXCEPT !.forgets = TRUE]
Unnoted(f) == Toasted(Forgetful(f))

\* The live list of a page, and what is rendered of it.
LoadAndError == {"loading", "error"}
ListFeed(rescoped) == [list |-> UseLiveResource(rescoped)]
ListScreen == [list |-> LoadAndError]

-----------------------------------------------------------------------------
\* A dialog that is mounted when its slot is set, and unmounted by its own
\* Cancel whatever it has sent.
Dialog(asks, shows) ==
  [dialog |-> TRUE, modal |-> TRUE, leave |-> TRUE, lock |-> "instance",
   key |-> "own", closes |-> TRUE, asks |-> asks, shows |-> shows]

\* A panel in the page, with a flag it shares with the page.
Panel(key, asks, shows) ==
  [Dialog(asks, shows) EXCEPT !.modal = FALSE, !.lock = "idle", !.key = key]

\* A button of a row that sends at once.
Button(key, asks, shows) ==
  [Panel(key, asks, shows) EXCEPT !.dialog = FALSE, !.lock = "always", !.closes = FALSE]

\* A dialog of the page itself, with a flag it shares with the page's buttons.
PageDialog(key, asks, shows) == [Panel(key, asks, shows) EXCEPT !.modal = TRUE]

\* A Save button in the page.
SaveButton(key, asks, shows) == [Button(key, asks, shows) EXCEPT !.lock = "idle"]

NoActs == [a \in {} |-> Dialog({}, {})]

\* The button of a row that a flag of the page disables: while it names the row,
\* or while it is set.
ByRow(key) == [lock |-> "row", key |-> key]
ByFlag(key) == [lock |-> "idle", key |-> key]
NoRows == [a \in {} |-> ByFlag("none")]

ConfirmModal(key, asks, shows) ==
  [Dialog(asks, shows) EXCEPT !.leave = FALSE, !.key = key]

\* useConfirmAction: one pending action, run by ConfirmModal.
ConfirmAction(key, asks, shows) == ConfirmModal(key, asks, shows)

\* Always mounted.  Cancel is not disabled while it deletes, and Enter in the
\* field sends whatever the button's state.
DeleteConfirmModal(asks, shows) ==
  [Dialog(asks, shows) EXCEPT !.lock = "always", !.key = "deleting"]

\* The forms: the flag disables the button that sends; Escape is ignored while
\* it is set, Cancel and the cross are not.
CreateYAMLModal(asks, shows) == Dialog(asks, shows)
CreateWorkloadModal(asks, shows) == Dialog(asks, shows)
CreateHPAModal(asks, shows) == Dialog(asks, shows)
CreateServiceModal(asks, shows) == Dialog(asks, shows)
CreateIngressModal(asks, shows) == Dialog(asks, shows)
CreateNetworkPolicyModal(asks, shows) == Dialog(asks, shows)
CreatePVCModal(asks, shows) == Dialog(asks, shows)
CreateSecretModal(asks, shows) == Dialog(asks, shows)
CreateResourceQuotaModal(asks, shows) == Dialog(asks, shows)
EditYAMLModal(asks, shows) == Dialog(asks, shows)
EditWorkloadModal(asks, shows) == Dialog(asks, shows)
EditSecretModal(asks, shows) == Dialog(asks, shows)
EditJobModal(asks, shows) == Dialog(asks, shows)
EditCronJobModal(asks, shows) == Dialog(asks, shows)
ConfigMapModal(asks, shows) == Dialog(asks, shows)

\* Cancel and the cross are disabled while it saves.
EditLBPoolModal(asks, shows) == [Dialog(asks, shows) EXCEPT !.leave = FALSE]

\* Escape and the backdrop close it at any time; its report stays open.
DrainModal(asks, shows) == [Dialog(asks, shows) EXCEPT !.closes = FALSE]

\* The bar of a selection: one action at a time, which it does not leave.
BulkActionBar(asks, shows) ==
  [Dialog(asks, shows) EXCEPT !.modal = FALSE, !.leave = FALSE, !.key = "running"]

\* The shield of a row: no feed shows its state, the answer to its own write
\* does.
ProtectToggle == [Dialog({}, {}) EXCEPT !.dialog = FALSE, !.closes = FALSE]

\* The table of a list page: URL-backed or local, filtered by labels or not,
\* rows per page (0: not paged), rows selectable for bulk actions or not.
View(url, labels, size, selects) ==
  [url |-> url, labels |-> labels, size |-> size, selects |-> selects]

\* In these pages, Enter in the delete dialog sends again what it is sending.
Retyped(pages) ==
  {<<p, "delete">> : p \in {q \in DOMAIN pages : "delete" \in DOMAIN pages[q].acts}}
=============================================================================
