--------------------------- MODULE SkillConsole ---------------------------
(***************************************************************************)
(* One tab of the web console at the Skills center: WorkspaceSkillsControl *)
(* with its authority token, and the revisions its API client remembers    *)
(* for the If-Match headers. Together with SkillCenter, other clients of   *)
(* the operator profile and OperationReceipts it is the whole system.      *)
(*                                                                         *)
(* The token of an operation is kept as the flag that it is still current: *)
(* entering a Workspace clears it. Likewise a refresh is current until a   *)
(* later one starts. A refresh reads the catalog and the selection at two  *)
(* instants and decodes them at a third.                                   *)
(***************************************************************************)
EXTENDS OperationReceipts

CONSTANTS
    Scenarios,     \* the keys of the tab, of the clients (and the requests they
                   \* make) and of the operations, and how often the Core restarts
    MaxEnters      \* Workspace switches of the tab

ASSUME SkillConsoleAssumption ==
    \A s \in Scenarios :
        /\ s.console \cup s.clients \subseteq Keys /\ s.operations \subseteq OpKeys
        /\ s.console \cap s.clients = {}

VARIABLES
    tab,           \* what the component shows and its client remembers
    fetches,       \* refreshes in progress
    job,           \* the mutation behind busyRef, or None
    scenario, enters, restarts    \* bounds

consoleVars == <<tab, fetches, job, enters>>
vars == <<centerVars, opVars, consoleVars, scenario, restarts>>

(* Keys are fresh random ids, so the next unused one stands for any.       *)
FreshKeys(keys) ==
    LET unused == { k \in keys : asked[k] = None }
    IN IF unused = {} THEN {} ELSE {CHOOSE k \in unused : TRUE}

ConsoleKeys == FreshKeys(scenario.console)

CenterIdle == UNCHANGED <<db, disk, receipts, handlers, runs>>
Mine == UNCHANGED <<opVars, scenario, restarts>>

NewFetch(w, awaited) ==
    [ws |-> w, current |-> TRUE, awaited |-> awaited, catalog |-> None, selection |-> None]

(* refresh: a new generation makes every earlier refresh stale.            *)
WithRefresh(fs, w, awaited) ==
    { [f EXCEPT !.current = FALSE] : f \in fs } \cup {NewFetch(w, awaited)}

(* The revisions the client learns from a catalog page.                    *)
Learn(t, c) ==
    [t EXCEPT !.catalogRev = c.revision,
              !.skillRev = [id \in DOMAIN @ \cup DOMAIN c.rows |->
                               IF id \in DOMAIN c.rows THEN c.rows[id].revision ELSE @[id]]]

CatalogPage == [revision |-> db.catalog, rows |-> db.rows]
SelectionPage(w) == [ids |-> db.binds[w], revision |-> db.bindRev[w]]

EnterWorkspace(w) ==
    /\ enters < MaxEnters /\ w # tab.ws
    /\ enters' = enters + 1
    /\ tab' = [tab EXCEPT !.ws = w, !.shown = {}, !.shownFor = None, !.editor = None]
    /\ fetches' = WithRefresh(fetches, w, FALSE)
    /\ job' = IF job = None THEN None ELSE [job EXCEPT !.current = FALSE]
    /\ UNCHANGED <<asked, reply>> /\ CenterIdle /\ Mine

ServeCatalog(f) ==
    /\ f.catalog = None
    /\ fetches' = (fetches \ {f}) \cup {[f EXCEPT !.catalog = CatalogPage]}
    /\ UNCHANGED <<tab, job, enters, asked, reply>> /\ CenterIdle /\ Mine

ServeSelection(f) ==
    /\ f.selection = None
    /\ fetches' = (fetches \ {f}) \cup {[f EXCEPT !.selection = SelectionPage(f.ws)]}
    /\ UNCHANGED <<tab, job, enters, asked, reply>> /\ CenterIdle /\ Mine

(* Mutant: an answer is shown whatever Workspace the tab moved to. *)
CurrentAlways(x) == TRUE

(* authority.isCurrent, and for a refresh the refresh generation.          *)
IsCurrent(x) == x.current

(* Both answers are decoded: the client's revisions move in any case, the  *)
(* lists only when the refresh is current.                                 *)
ApplyRefresh(f) ==
    /\ f.catalog # None /\ f.selection # None
    /\ LET t == [Learn(tab, f.catalog) EXCEPT !.bindRev[f.ws] = f.selection.revision] IN
       tab' = IF IsCurrent(f)
              THEN [t EXCEPT !.entries = DOMAIN f.catalog.rows,
                             !.shown = f.selection.ids, !.shownFor = f.ws]
              ELSE t
    /\ fetches' = fetches \ {f}
    /\ job' = IF f.awaited THEN None ELSE job
    /\ UNCHANGED <<enters, asked, reply>> /\ CenterIdle /\ Mine

(* The request fails: reported, nothing shown.                             *)
RefreshFails(f) ==
    /\ fetches' = fetches \ {f}
    /\ job' = IF f.awaited THEN None ELSE job
    /\ UNCHANGED <<tab, enters, asked, reply>> /\ CenterIdle /\ Mine

(***************************************************************************)
(* Mutations. beginMutation admits one at a time; each sends a request     *)
(* under a new key with the revision the client remembers.                 *)
(***************************************************************************)
Send(k, kind, r, e) ==
    /\ job = None
    /\ asked[k] = None
    /\ asked' = [asked EXCEPT ![k] = [request |-> r, expected |-> e]]
    /\ job' = [kind |-> kind, key |-> k, ws |-> tab.ws, current |-> TRUE, step |-> "sent"]
    /\ UNCHANGED <<tab, fetches, enters, reply>> /\ CenterIdle /\ Mine

SkillRev(id) == IF id \in DOMAIN tab.skillRev THEN tab.skillRev[id] ELSE 1

Toggle(k, id) ==
    /\ id \in tab.entries
    /\ Send(k, "toggle",
            [op |-> "replace", ws |-> tab.ws,
             ids |-> IF id \in tab.shown THEN tab.shown \ {id} ELSE tab.shown \cup {id}],
            tab.bindRev[tab.ws])

Upload(k, u) == Send(k, "upload", [op |-> "create", upload |-> u], tab.catalogRev)

RemoveSkill(k, id) ==
    /\ id \in tab.entries
    /\ Send(k, "remove", [op |-> "delete", skill |-> id], SkillRev(id))

Save(k, edit) ==
    /\ tab.editor # None
    /\ Send(k, "save", [op |-> "update", skill |-> tab.editor, edit |-> edit],
            SkillRev(tab.editor))

(* editSkill reads the Skill and opens the editor on it.                   *)
BeginEdit(id) ==
    /\ job = None /\ id \in tab.entries /\ tab.editor = None
    /\ ConsoleKeys # {}
    /\ job' = [kind |-> "edit", key |-> None, ws |-> tab.ws, current |-> TRUE, step |-> "read", skill |-> id]
    /\ UNCHANGED <<tab, fetches, enters, asked, reply>> /\ CenterIdle /\ Mine

OpenEditor ==
    /\ job # None /\ job.kind = "edit"
    /\ LET id == job.skill IN
       tab' = IF id \in SkillIds(db)
              THEN [Learn(tab, [revision |-> db.catalog, rows |-> Restrict(db.rows, {id})])
                    EXCEPT !.editor = IF IsCurrent(job) THEN id ELSE @]
              ELSE tab
    /\ job' = None
    /\ UNCHANGED <<fetches, enters, asked, reply>> /\ CenterIdle /\ Mine

CloseEditor ==
    /\ tab.editor # None
    /\ tab' = [tab EXCEPT !.editor = None]
    /\ UNCHANGED <<fetches, job, enters, asked, reply>> /\ CenterIdle /\ Mine

(* The answer to the running mutation: a failure ends it.                  *)
Answered == job # None /\ job.step = "sent" /\ reply[job.key] # None

MutationFails ==
    /\ Answered /\ reply[job.key].status # "succeeded"
    /\ job' = None
    /\ UNCHANGED <<tab, fetches, enters, asked, reply>> /\ CenterIdle /\ Mine

ToggleSucceeds ==
    /\ Answered /\ job.kind = "toggle" /\ reply[job.key].status = "succeeded"
    /\ LET v == reply[job.key].value
           t == [tab EXCEPT !.bindRev[job.ws] = v.revision] IN
       IF IsCurrent(job)
       THEN /\ tab' = [t EXCEPT !.shown = v.ids, !.shownFor = job.ws]
            /\ job' = [job EXCEPT !.step = "catalog"]
       ELSE tab' = t /\ job' = None
    /\ UNCHANGED <<fetches, enters, asked, reply>> /\ CenterIdle /\ Mine

ToggleCatalog ==
    /\ job # None /\ job.step = "catalog"
    /\ LET t == Learn(tab, CatalogPage) IN
       tab' = IF IsCurrent(job) THEN [t EXCEPT !.entries = SkillIds(db)] ELSE t
    /\ job' = None
    /\ UNCHANGED <<fetches, enters, asked, reply>> /\ CenterIdle /\ Mine

(* An upload, a save or a deletion refreshes the Workspace now shown.      *)
CatalogChanged ==
    /\ Answered /\ job.kind # "toggle" /\ reply[job.key].status = "succeeded"
    /\ LET v == reply[job.key].value
           t == IF job.kind = "remove" THEN tab
                ELSE Learn(tab, [revision |-> v.catalog,
                                 rows |-> [id \in {v.skill} |-> [revision |-> v.revision]]])
       IN tab' = [t EXCEPT !.editor = IF job.kind = "save" THEN None ELSE @]
    /\ job' = [job EXCEPT !.step = "refresh"]
    /\ fetches' = WithRefresh(fetches, tab.ws, TRUE)
    /\ UNCHANGED <<enters, asked, reply>> /\ CenterIdle /\ Mine

Console ==
    \/ \E w \in Workspaces : EnterWorkspace(w)
    \/ \E f \in fetches : \/ ServeCatalog(f) \/ ServeSelection(f)
                          \/ ApplyRefresh(f) \/ RefreshFails(f)
    \/ \E k \in ConsoleKeys :
          \/ \E id \in tab.entries : Toggle(k, id) \/ RemoveSkill(k, id)
          \/ \E u \in Uploads : Upload(k, u)
          \/ \E edit \in Edits : Save(k, edit)
    \/ \E id \in tab.entries : BeginEdit(id)
    \/ OpenEditor \/ CloseEditor
    \/ MutationFails \/ ToggleSucceeds \/ ToggleCatalog \/ CatalogChanged

(***************************************************************************)
(* The other clients ask with the revision they have just read.            *)
(***************************************************************************)
ClientRequests ==
    { r \in [op : {"create"}, upload : Uploads]
              \cup [op : {"update"}, skill : SkillIds(db), edit : Edits]
              \cup [op : {"delete"}, skill : SkillIds(db)]
              \cup [op : {"replace"}, ws : Workspaces, ids : SUBSET SkillIds(db)]
        : r.op \in scenario.requests }

Client ==
    \/ \E k \in FreshKeys(scenario.clients), r \in ClientRequests : Ask(k, r, CurrentRevision(db, r))
    \/ \E k \in scenario.clients : Rebase(k)

Init ==
    /\ CenterInit /\ OperationInit
    /\ scenario \in Scenarios
    /\ LET w == CHOOSE w \in Workspaces : TRUE IN
         /\ tab = [ws |-> w, shown |-> {}, shownFor |-> None, entries |-> {}, editor |-> None,
                   catalogRev |-> 1, skillRev |-> << >>, bindRev |-> [v \in Workspaces |-> 1]]
         /\ fetches = IF scenario.console = {} THEN {} ELSE {NewFetch(w, FALSE)}
    /\ job = None
    /\ enters = 0 /\ restarts = 0

RestartCore ==
    /\ restarts < scenario.restarts
    /\ restarts' = restarts + 1
    /\ Restart \/ \E k \in scenario.operations : RestartAfterClaim(k)
    /\ UNCHANGED <<consoleVars, scenario>>

Next ==
    \/ Serve /\ UNCHANGED <<opVars, consoleVars, scenario, restarts>>
    \/ Client /\ UNCHANGED <<opVars, consoleVars, scenario, restarts>>
    \/ \E k \in scenario.operations :
          /\ Operate(k)
          /\ UNCHANGED <<db, disk, receipts, asked, reply, handlers, consoleVars, scenario, restarts>>
    \/ scenario.console # {} /\ Console
    \/ RestartCore

Spec == Init /\ [][Next]_vars

(* The selection the tab shows is the answer for the Workspace it shows,   *)
(* whatever answers arrive after a switch (workspace-skill-authority.ts):  *)
(* a toggle sends the shown list back as the Workspace's references.       *)
ShownSelectionIsHere == tab.shownFor \in {None, tab.ws}
============================================================================
