---------------------------- MODULE SkillCenter ----------------------------
(***************************************************************************)
(* The shared Skills center behind the operator profile routes: the        *)
(* catalog tables, the content-addressed bundles on disk, the references   *)
(* of each Workspace, the snapshots TaskRuns freeze, and the receipts that *)
(* make every mutation idempotent and conditional on a revision.           *)
(*                                                                         *)
(* A bundle is [name, body, extra]: the name and the instructions parsed   *)
(* from SKILL.md and the supporting files. The bundle stands for its own   *)
(* content hash and for the directory name/hash it is published under.     *)
(* An upload is a Markdown file or an archive of entries, each with its    *)
(* directory, file name, size, link flag and data; the data of a SKILL.md  *)
(* is the name and body of its frontmatter, or None when it is malformed.  *)
(*                                                                         *)
(* A request is bound to an idempotency key and carries the revision the   *)
(* client read. It may be delivered any number of times, also while an     *)
(* earlier delivery is still being handled, and a client that is told its  *)
(* revision is stale may send the same key again with a fresh one.         *)
(***************************************************************************)
EXTENDS Naturals, FiniteSets, FiniteSetsExt, Sequences, SequencesExt, Functions

CONSTANTS
    Workspaces,    \* Workspaces (Sessions) that can reference Skills
    Keys,          \* idempotency keys, each used for one request
    MaxHandlers,   \* concurrent handlers of uploads and edits
    Uploads,       \* the files and archives clients upload
    Edits,         \* the [name, body] pairs clients save in an editor
    Seed,          \* the bundle of the Skill the catalog starts with
    MaxFiles,      \* entries an archive may hold
    MaxFileSize,   \* size of one entry
    MaxExpanded,   \* size of all entries
    None           \* "absent", a model value

VARIABLES
    db,            \* skills, skill_revisions, catalog, bindings and their revisions
    disk,          \* published bundle directories
    receipts,      \* profile_mutation_receipts by key
    asked,         \* the request each key was first used for
    reply,         \* the last answer the client of each key received
    handlers,      \* uploads and edits in progress
    runs           \* the Skills each admitted TaskRun froze

centerVars == <<db, disk, receipts, asked, reply, handlers, runs>>

(***************************************************************************)
(* Upload validation: what extractBundle and parseSkill accept, and the    *)
(* bundle they make of it.                                                 *)
(***************************************************************************)
SafeArchivePath(e) == e.dir \notin {"..", "/"}

SkillFiles(u) == { e \in u.entries : e.file = "SKILL.md" }

InsideRoot(u, e) == \A skill \in SkillFiles(u) : skill.dir \in {".", e.dir}

Accepted(u) ==
    /\ u.kind = "zip" =>
         /\ \A e \in u.entries : ~e.link /\ SafeArchivePath(e) /\ e.size <= MaxFileSize
         /\ \A e, f \in u.entries : e.dir = f.dir /\ e.file = f.file => e = f
         /\ Cardinality(u.entries) <= MaxFiles
         /\ MapThenSumSet(LAMBDA e : e.size, u.entries) <= MaxExpanded
    /\ Cardinality(SkillFiles(u)) = 1
    /\ \A e \in u.entries : InsideRoot(u, e)
    /\ \A e \in SkillFiles(u) : e.data # None

Extracted(u) ==
    LET skill == CHOOSE e \in SkillFiles(u) : TRUE
    IN [name |-> skill.data.name, body |-> skill.data.body,
        extra |-> { <<e.file, e.data>> : e \in u.entries \ {skill} }]

SkillIds(d) == DOMAIN d.rows
Latest(d, id) == Last(d.revs[id])

(* The Skills a TaskRun of Workspace w would freeze now: the name is the   *)
(* catalog row's, the instructions and the path the latest revision's.     *)
ListWorkspaceSkills(d, w) ==
    { [skill |-> id, name |-> d.rows[id].name, bundle |-> Latest(d, id)] : id \in d.binds[w] }

(***************************************************************************)
(* Catalog transactions. Each maps the tables to the tables it commits.    *)
(***************************************************************************)
RevisionTarget(d, r, b) ==
    IF r.op = "update" THEN r.skill
    ELSE LET same == { id \in SkillIds(d) : d.rows[id].name = b.name }
         IN IF same # {} THEN CHOOSE id \in same : TRUE ELSE d.next

(* skills.name is UNIQUE: a rename onto another Skill's name rolls back.   *)
NameTaken(d, id, name) == \E other \in SkillIds(d) \ {id} : d.rows[other].name = name

\* f, with v at x
With(f, x, v) == [y \in DOMAIN f \cup {x} |-> IF y = x THEN v ELSE f[y]]

CreateRevision(d, id, b) ==
    IF id \notin SkillIds(d)
    THEN [d EXCEPT !.rows = With(@, id, [name |-> b.name, revision |-> 1]),
                   !.revs = With(@, id, <<b>>),
                   !.next = @ + 1, !.catalog = @ + 1]
    ELSE IF b \notin Range(d.revs[id])
    THEN [d EXCEPT !.rows[id] = [name |-> b.name, revision |-> @.revision + 1],
                   !.revs[id] = Append(@, b), !.catalog = @ + 1]
    ELSE IF d.rows[id].name # b.name
    THEN [d EXCEPT !.rows[id] = [name |-> b.name, revision |-> @.revision + 1],
                   !.catalog = @ + 1]
    ELSE d

DeleteSkill(d, id) ==
    [d EXCEPT !.rows = Restrict(@, SkillIds(d) \ {id}),
              !.revs = Restrict(@, SkillIds(d) \ {id}),
              !.binds = [w \in Workspaces |-> @[w] \ {id}],
              !.bindRev = [w \in Workspaces |-> @[w] + (IF id \in d.binds[w] THEN 1 ELSE 0)],
              !.catalog = @ + 1]

ReplaceWorkspaceSkills(d, w, ids) ==
    [d EXCEPT !.binds[w] = ids, !.bindRev[w] = @ + 1]

(* The revision an If-Match header is compared with; 0 when not found.     *)
CurrentRevision(d, r) ==
    CASE r.op = "create"  -> d.catalog
      [] r.op = "replace" -> d.bindRev[r.ws]
      [] OTHER            -> IF r.skill \in SkillIds(d) THEN d.rows[r.skill].revision ELSE 0

Perform(d, r, b) ==
    CASE r.op = "delete"  -> DeleteSkill(d, r.skill)
      [] r.op = "replace" -> ReplaceWorkspaceSkills(d, r.ws, r.ids)
      [] OTHER            -> CreateRevision(d, RevisionTarget(d, r, b), b)

(* The value a receipt keeps and every replay returns.                     *)
MutationValue(d, r, b) ==
    CASE r.op = "delete"  -> [catalog |-> d.catalog]
      [] r.op = "replace" -> [ids |-> r.ids, revision |-> d.bindRev[r.ws]]
      [] OTHER            -> LET id == CHOOSE i \in SkillIds(d) : d.rows[i].name = b.name
                             IN [skill |-> id, bundle |-> b,
                                 revision |-> d.rows[id].revision, catalog |-> d.catalog]

(***************************************************************************)
(* Receipts.                                                               *)
(***************************************************************************)
Answer(status, value) == [status |-> status, value |-> value]

(* What the receipt of a key answers to a request with expected revision e. *)
Replay(k, e) ==
    IF receipts[k].expected = e THEN Answer("succeeded", receipts[k].value)
    ELSE Answer("idempotency_conflict", None)

(* An If-Match header that is not compared with the current revision. *)
RevisionRefusesNothing(d, r, e) == FALSE

RevisionRefuses(d, r, e) == CurrentRevision(d, r) # e

Precondition(d, r, b) ==
    CASE r.op = "replace" -> r.ids \subseteq SkillIds(d)
      [] r.op = "delete"  -> TRUE
      [] OTHER            -> ~NameTaken(d, RevisionTarget(d, r, b), b.name)

(* runSkillProfileMutation: replay, not found, stale, refused, or perform  *)
(* and record the receipt, all in one transaction.                         *)
Transact(k, r, e, b) ==
    IF receipts[k] # None
    THEN /\ reply' = [reply EXCEPT ![k] = Replay(k, e)]
         /\ UNCHANGED <<db, receipts>>
    ELSE IF \/ CurrentRevision(db, r) = 0
            \/ RevisionRefuses(db, r, e)
            \/ ~Precondition(db, r, b)
    THEN /\ reply' = [reply EXCEPT ![k] =
                 Answer(CASE CurrentRevision(db, r) = 0 -> "not_found"
                          [] RevisionRefuses(db, r, e) -> "concurrency_conflict"
                          [] r.op = "replace" -> "state_conflict"
                          [] OTHER -> "rejected", None)]
         /\ UNCHANGED <<db, receipts>>
    ELSE LET value == MutationValue(db', r, b) IN
         /\ db' = Perform(db, r, b)
         /\ receipts' = [receipts EXCEPT ![k] = [expected |-> e, value |-> value]]
         /\ reply' = [reply EXCEPT ![k] = Answer("succeeded", value)]

(***************************************************************************)
(* Requests and their deliveries.                                          *)
(***************************************************************************)
Async(r) == r.op \in {"create", "update"}

Ask(k, r, e) ==
    /\ asked[k] = None
    /\ asked' = [asked EXCEPT ![k] = [request |-> r, expected |-> e]]
    /\ UNCHANGED <<db, disk, receipts, reply, handlers, runs>>

(* A client told that its revision is stale reads it again and retries     *)
(* under the same key.                                                     *)
Rebase(k) ==
    /\ asked[k] # None /\ reply[k] # None
    /\ reply[k].status = "concurrency_conflict"
    /\ CurrentRevision(db, asked[k].request) \notin {0, asked[k].expected}
    /\ asked' = [asked EXCEPT ![k].expected = CurrentRevision(db, asked[k].request)]
    /\ reply' = [reply EXCEPT ![k] = None]
    /\ UNCHANGED <<db, disk, receipts, handlers, runs>>

(* DELETE and PUT: the whole handler is one synchronous transaction.       *)
DeliverSync(k) ==
    /\ asked[k] # None /\ ~Async(asked[k].request)
    /\ Transact(k, asked[k].request, asked[k].expected, None)
    /\ UNCHANGED <<disk, asked, handlers, runs>>

(* replayProfileMutation, before any validation or staging.                *)
ReplayedFirst(k) == receipts[k] # None

(* The synchronous part of an upload or an edit: up to its first await.    *)
Refused(r) ==
    \/ r.op = "create" /\ ~Accepted(r.upload)
    \/ r.op = "update" /\ (r.skill \notin SkillIds(db) \/ NameTaken(db, r.skill, r.edit.name))

Begun(k, r) ==
    [key |-> k, request |-> r, expected |-> asked[k].expected,
     pc |-> IF r.op = "create" THEN "staging" ELSE "reading",
     bundle |-> IF r.op = "create" THEN Extracted(r.upload) ELSE Latest(db, r.skill)]

Deliver(k) ==
    /\ asked[k] # None /\ Async(asked[k].request)
    /\ LET r == asked[k].request IN
       \/ /\ ReplayedFirst(k)
          /\ reply' = [reply EXCEPT ![k] = Replay(k, asked[k].expected)]
          /\ UNCHANGED handlers
       \/ /\ ~ReplayedFirst(k) /\ Refused(r)
          /\ reply' = [reply EXCEPT ![k] = Answer("rejected", None)]
          /\ UNCHANGED handlers
       \/ /\ ~ReplayedFirst(k) /\ ~Refused(r)
          /\ Cardinality(handlers) < MaxHandlers
          /\ handlers' = handlers \cup {Begun(k, r)}
          /\ UNCHANGED reply
    /\ UNCHANGED <<db, disk, receipts, asked, runs>>

Becomes(h, h2) == handlers' = (handlers \ {h}) \cup {h2}
Ends(h) == handlers' = handlers \ {h}

(* editorSkillFile writes a new SKILL.md beside the files that were read.  *)
EditedBundle(h) ==
    [name |-> h.request.edit.name, body |-> h.request.edit.body, extra |-> h.bundle.extra]

(* An edit reads the files of the revision that was latest when it began,  *)
(* and keeps all of them but SKILL.md.                                     *)
ReadManagedBundle(h) ==
    /\ h.pc = "reading"
    /\ IF h.bundle \in disk
       THEN /\ Becomes(h, [h EXCEPT !.pc = "staging", !.bundle = EditedBundle(h)])
            /\ UNCHANGED reply
       ELSE Ends(h) /\ reply' = [reply EXCEPT ![h.key] = Answer("rejected", None)]
    /\ UNCHANGED <<db, disk, receipts, asked, runs>>

(* The staged files are renamed to name/hash in one step; a directory that *)
(* exists already is verified, file by file, to be the same bundle.        *)
Published(d, bundle) == IF bundle \in d THEN d ELSE d \cup {bundle}

PublishBundle(h) ==
    /\ h.pc = "staging"
    /\ disk' = Published(disk, h.bundle)
    /\ Becomes(h, [h EXCEPT !.pc = "published"])
    /\ UNCHANGED <<db, receipts, asked, reply, runs>>

CommitReady(h) == h.pc = "published"

(* createRevisionProfile, once the bundle is on disk.                      *)
CommitRevision(h) ==
    /\ CommitReady(h)
    /\ Transact(h.key, h.request, h.expected, h.bundle)
    /\ Ends(h)
    /\ UNCHANGED <<disk, asked, runs>>

(* createRun freezes the complete resolved set into the contract.          *)
Freeze(w) == runs' = Append(runs, ListWorkspaceSkills(db, w))

(* The process ends with handlers in progress: their clients get no        *)
(* answer, staging directories are left over, tables and bundles stay.     *)
HandlersLost == handlers' = {}

CenterInit ==
    /\ db = [rows |-> [id \in {1} |-> [name |-> Seed.name, revision |-> 1]],
             revs |-> [id \in {1} |-> <<Seed>>], next |-> 2, catalog |-> 2,
             binds |-> [w \in Workspaces |-> {1}],
             bindRev |-> [w \in Workspaces |-> 2]]
    /\ disk = {Seed}
    /\ receipts = [k \in Keys |-> None]
    /\ asked = [k \in Keys |-> None]
    /\ reply = [k \in Keys |-> None]
    /\ handlers = {}
    /\ runs = <<>>

Serve ==
    \/ \E k \in Keys : DeliverSync(k) \/ Deliver(k)
    \/ \E h \in handlers : ReadManagedBundle(h) \/ PublishBundle(h) \/ CommitRevision(h)

(***************************************************************************)
(* Properties.                                                             *)
(***************************************************************************)

(* A committed edit keeps the supporting files of the revision it          *)
(* supersedes, although it read them several awaits before its commit and  *)
(* other clients upload and edit the same Skill meanwhile.                 *)
EditKeepsSupportingFiles ==
    [][ \A h \in handlers \ handlers' :
          LET id == h.request.skill IN
          ( /\ h.request.op = "update"
            /\ id \in SkillIds(db) \cap SkillIds(db')
            /\ db'.revs[id] # db.revs[id] )
          => Latest(db', id).extra = Latest(db, id).extra ]_<<db, handlers>>

(* "An edit creates a new immutable revision ... Every Workspace that      *)
(* references that Skill identity automatically resolves the new revision  *)
(* for its next admitted TaskRun" (docs/SKILLS.md): after an edit is       *)
(* committed, the latest revision is what the edit submitted.              *)
EditTakesEffect ==
    [][ \A h \in handlers \ handlers' :
          ( /\ h.request.op = "update"
            /\ receipts[h.key] = None /\ receipts'[h.key] # None )
          => Latest(db', h.request.skill) = h.bundle ]_<<handlers, receipts>>
============================================================================
