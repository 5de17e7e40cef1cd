----------------------------- MODULE RefundDrawer -----------------------------
(* The drawer of the Stripe app while one user looks at one account: the tabs *)
(* over the refund requests, the list of external alerts, the pages of both,  *)
(* and the mutations that refresh them. Another user, account or mode mounts  *)
(* a new drawer (viewContextKey); the same one may be rendered again with a   *)
(* new context object, which runs its effects again.                          *)
(*                                                                            *)
(* Handlers run to their next await; React runs an effect some time after the *)
(* state it depends on changed. A load is current while no later one has      *)
(* taken a number from requestSequence or alertSequence. What the server does *)
(* with a mutation is in SignedMutations.                                     *)
EXTENDS Integers, Sequences

CONSTANTS
    Slots,        \* slots for the loads under way of one list
    MaxPages,     \* bound: pages of a list
    MaxChanges    \* bound: changes of the tab and of the context object

ASSUME DrawerAssumption == {MaxPages, MaxChanges} \subseteq Nat

VARIABLES
    scope,      \* the selected tab
    mayApprove,   \* currentUserIsApprover
    sync,       \* whether an active context effect waits for syncContext
    due,        \* the effects React has yet to run
    list,       \* per list: the pages shown, of which tab, and whether there is a cursor
    loading,    \* per list: loading, alertLoading
    load,       \* per list and slot: the load under way
    mutation,   \* the step of the mutation under way, what it refreshes and in which tab
    busy,       \* busyId is set
    changes

drawerVars == <<scope, mayApprove, sync, due, list, loading, load, mutation, busy, changes>>

(* The third tab, all_activity, is open to the same users as the second.      *)
Tabs == {"my_requests", "awaiting_my_approval"}
Lists == {"requests", "alerts"}
NoLoad == [on |-> FALSE, tab |-> "my_requests", page |-> 1, current |-> FALSE, awaited |-> FALSE]
EmptyList(tab) == [tab |-> tab, pages |-> <<>>, more |-> FALSE]
NoMutation == [step |-> "none", list |-> "requests", tab |-> "my_requests"]

DrawerInit ==
    /\ scope = "my_requests" /\ mayApprove = FALSE /\ sync = FALSE
    /\ due = {"requests", "context"}
    /\ list = [l \in Lists |-> EmptyList("my_requests")]
    /\ loading = [l \in Lists |-> l = "requests"]
    /\ load = [l \in Lists |-> [s \in Slots |-> NoLoad]]
    /\ mutation = NoMutation /\ busy = FALSE
    /\ changes = 0

-------------------------------------------------------------------------------
(* Loading a page.                                                            *)

Superseded(l) == [s \in Slots |-> [load[l][s] EXCEPT !.current = FALSE]]

(* loadRequests, loadAlerts: the load takes the next number, which makes it   *)
(* the current one. With no slot left, a superseded load that nobody awaits   *)
(* has come to its end before.                                                *)
Free(l, s) ==
    \/ ~load[l][s].on
    \/ (\A z \in Slots : load[l][z].on) /\ ~load[l][s].current /\ ~load[l][s].awaited
LoadPage(l, tab, page, awaited) ==
    /\ \E s \in Slots : Free(l, s)
    /\ load' = [load EXCEPT ![l] = [Superseded(l) EXCEPT ![CHOOSE s \in Slots : Free(l, s)] =
                    [on |-> TRUE, tab |-> tab, page |-> page, current |-> TRUE,
                     awaited |-> awaited]]]
    /\ loading' = [loading EXCEPT ![l] = TRUE]

LoadIsOver(l, s) == load' = [load EXCEPT ![l][s] = NoLoad]

Shows(l, s) == load[l][s].current

(* A page replaces what is shown, or is appended to it.                       *)
loadReturns(l, s) ==
    LET it == load[l][s] IN
    /\ it.on
    /\ LoadIsOver(l, s)
    /\ IF Shows(l, s)
       THEN /\ \E more \in BOOLEAN :
                list' = [list EXCEPT ![l] =
                    [tab |-> it.tab, more |-> more /\ it.page < MaxPages,
                     pages |-> IF it.page = 1 THEN <<1>> ELSE Append(@.pages, it.page)]]
            /\ loading' = [loading EXCEPT ![l] = FALSE]
       ELSE UNCHANGED <<list, loading>>
    /\ UNCHANGED <<scope, mayApprove, sync, due, mutation, busy, changes>>

(* The request cannot be signed or sent, is refused, or its answer is         *)
(* unreadable.                                                                *)
loadFails(l, s) ==
    /\ load[l][s].on
    /\ LoadIsOver(l, s)
    /\ loading' = IF Shows(l, s) THEN [loading EXCEPT ![l] = FALSE] ELSE loading
    /\ UNCHANGED <<scope, mayApprove, sync, due, list, mutation, busy, changes>>

-------------------------------------------------------------------------------
(* Effects.                                                                   *)

NewContext ==
    /\ changes < MaxChanges
    /\ changes' = changes + 1
    /\ due' = {"requests", "context"}
    /\ UNCHANGED <<scope, mayApprove, sync, list, loading, load, mutation, busy>>

requestsEffect ==
    /\ "requests" \in due
    /\ due' = due \ {"requests"}
    /\ LoadPage("requests", scope, 1, FALSE)
    /\ UNCHANGED <<scope, mayApprove, sync, list, mutation, busy, changes>>

(* The clean-up makes the sync of the last effect inactive.                   *)
contextEffect ==
    /\ "context" \in due
    /\ due' = due \ {"context"}
    /\ sync' = TRUE
    /\ UNCHANGED <<scope, mayApprove, list, loading, load, mutation, busy, changes>>

syncReturns(isApprover) ==
    /\ sync
    /\ sync' = FALSE
    /\ mayApprove' = isApprover
    /\ IF isApprover THEN LoadPage("alerts", "my_requests", 1, FALSE) ELSE UNCHANGED <<load, loading>>
    /\ UNCHANGED <<scope, due, list, mutation, busy, changes>>

syncFails ==
    /\ sync
    /\ sync' = FALSE
    /\ UNCHANGED <<scope, mayApprove, due, list, loading, load, mutation, busy, changes>>

-------------------------------------------------------------------------------
(* The user.                                                                  *)

(* Mutants: the tab may be changed during a mutation; the selected tab is     *)
(* selected again.                                                            *)
CanSelect_busy(tab) == tab # scope /\ (tab = "my_requests" \/ mayApprove)
CanSelect_same(tab) == ~busy /\ (tab = "my_requests" \/ mayApprove)

CanSelect(tab) == ~busy /\ tab # scope /\ (tab = "my_requests" \/ mayApprove)

(* The list is emptied and its loads are superseded at once; the effect loads *)
(* the new tab when the scope has really changed.                             *)
selectTab(tab) ==
    /\ CanSelect(tab)
    /\ load' = [load EXCEPT !["requests"] = Superseded("requests")]
    /\ list' = [list EXCEPT !["requests"] = EmptyList(tab)]
    /\ changes < MaxChanges /\ changes' = changes + 1
    /\ loading' = [loading EXCEPT !["requests"] = TRUE]
    /\ scope' = tab /\ due' = IF tab = scope THEN due ELSE due \cup {"requests"}
    /\ UNCHANGED <<mayApprove, sync, mutation, busy>>

loadMore(l) ==
    /\ list[l].more /\ ~loading[l] /\ (l = "alerts" => ~busy)
    /\ LoadPage(l, IF l = "requests" THEN scope ELSE list[l].tab, Len(list[l].pages) + 1, FALSE)
    /\ UNCHANGED <<scope, mayApprove, sync, due, list, mutation, busy, changes>>

refresh ==
    /\ ~loading["requests"] /\ ~busy
    /\ LoadPage("requests", scope, 1, FALSE)
    /\ UNCHANGED <<scope, mayApprove, sync, due, list, mutation, busy, changes>>

(* decide, cancel, acknowledge and exportAudit from their press to the call;  *)
(* the registry starts one at a time. What is refreshed afterwards belongs to *)
(* the tab of the press. The export refreshes nothing; that it also waits for *)
(* the first sync to end is left out.                                         *)
beginMutation(refreshes) ==
    /\ mutation.step = "none" /\ ~busy
    /\ refreshes \in Lists => list[refreshes].pages # <<>>
    /\ mutation' = [step |-> "calling", list |-> refreshes, tab |-> scope]
    /\ busy' = TRUE
    /\ UNCHANGED <<scope, mayApprove, sync, due, list, loading, load, changes>>

MutationIsOver == mutation' = NoMutation /\ busy' = FALSE

(* The call succeeded, and the list is loaded before the buttons come back.   *)
mutationReturns ==
    /\ mutation.step = "calling"
    /\ IF mutation.list \in Lists
       THEN /\ LoadPage(mutation.list, mutation.tab, 1, TRUE)
            /\ mutation' = [mutation EXCEPT !.step = "refreshing"]
            /\ UNCHANGED busy
       ELSE MutationIsOver /\ UNCHANGED <<load, loading>>
    /\ UNCHANGED <<scope, mayApprove, sync, due, list, changes>>

mutationFails ==
    /\ mutation.step = "calling"
    /\ MutationIsOver
    /\ UNCHANGED <<scope, mayApprove, sync, due, list, loading, load, changes>>

(* The refresh is through when the load it awaits is, current or not.         *)
refreshEnds ==
    /\ mutation.step = "refreshing"
    /\ \A s \in Slots : ~load[mutation.list][s].awaited
    /\ MutationIsOver
    /\ UNCHANGED <<scope, mayApprove, sync, due, list, loading, load, changes>>

-------------------------------------------------------------------------------
UserActs ==
    \/ \E tab \in Tabs : selectTab(tab)
    \/ \E l \in Lists : loadMore(l)
    \/ refresh
    \/ \E refreshes \in Lists \cup {"nothing"} : beginMutation(refreshes)

SyncEnds == (\E isApprover \in BOOLEAN : syncReturns(isApprover)) \/ syncFails
LoadEnds(l, s) == loadReturns(l, s) \/ loadFails(l, s)
MutationEnds == mutationReturns \/ mutationFails \/ refreshEnds

DrawerNext ==
    \/ NewContext \/ requestsEffect \/ contextEffect \/ SyncEnds \/ UserActs \/ MutationEnds
    \/ \E l \in Lists, s \in Slots : LoadEnds(l, s)

DrawerSpec == DrawerInit /\ [][DrawerNext]_drawerVars

-------------------------------------------------------------------------------
DrawerTypeOK ==
    /\ scope \in Tabs /\ mayApprove \in BOOLEAN /\ sync \in BOOLEAN /\ busy \in BOOLEAN
    /\ due \subseteq {"requests", "context"}
    /\ list \in [Lists -> [tab : Tabs, pages : Seq(Nat), more : BOOLEAN]]
    /\ loading \in [Lists -> BOOLEAN]
    /\ load \in [Lists -> [Slots -> {NoLoad} \cup [on : {TRUE}, tab : Tabs, page : Nat,
                                                    current : BOOLEAN, awaited : BOOLEAN]]]
    /\ mutation \in [step : {"none", "calling", "refreshing"}, list : Lists \cup {"nothing"}, tab : Tabs]
    /\ changes \in Nat

(* The requests under a tab are those of that tab, whatever was loaded, and   *)
(* for which tab, when the user changed it: "keeps the current request scope  *)
(* fixed while a decision is in flight" (views.test.tsx:412) is one case of   *)
(* it (RefundDrawer.tsx loadRequests, onSelectionChange).                     *)
ListIsOfTab == list["requests"].pages # <<>> => list["requests"].tab = scope

(* What is shown is the first pages of the list, each of them once and in     *)
(* order, although refreshes and further pages overtake one another           *)
(* (requestSequence, alertSequence).                                          *)
PagesInOrder ==
    \A l \in Lists : \A i \in 1..Len(list[l].pages) : list[l].pages[i] = i

(* What the user sees under a tab is the beginning of the list of that tab.    *)
ListIsTrue == ListIsOfTab /\ PagesInOrder

(* Nothing on the screen waits for nobody: a spinner is on only while the     *)
(* load that will end it is under way or its effect is due, and the buttons   *)
(* are off only while a mutation will bring them back. Loads that were        *)
(* superseded end without a word (RefundDrawer.tsx, the finally blocks).      *)
NoOrphanSpinner ==
    /\ \A l \in Lists : loading[l] =>
           \/ \E s \in Slots : load[l][s].on /\ load[l][s].current
           \/ l = "requests" /\ "requests" \in due
    /\ busy => mutation.step # "none"
===============================================================================
