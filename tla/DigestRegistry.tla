----------------------------- MODULE DigestRegistry -----------------------------
(***************************************************************************)
(* The templates of apps and the digest registry.  Templates are files in  *)
(* two directories, read into a map behind a lock; a reconciler brings the *)
(* table digest_registry in line with the map, one statement at a time;    *)
(* users write templates, and switch off and delete rows, meanwhile.       *)
(***************************************************************************)
EXTENDS Naturals, FiniteSets

CONSTANTS
    Templates,      \* ids of templates, the stems of their files
    Builtins,       \* the ids of those the binary carries
    Cards,          \* names of the digest entries a template may declare
    Loaders,        \* requests that reload: the job, the page, a custom template
    Reconcilers,    \* reconciliations, one at a time each
    MaxHands        \* bound: edits, requests on rows, restarts and failures

ASSUME RegistryConstants == /\ Builtins \subseteq Templates /\ MaxHands \in Nat
                            /\ "nobody" \notin Loaders

VARIABLES
    files,      \* the files of both directories
    loaded,     \* Registry.templates
    lock,       \* the loader that holds Registry.mu for writing
    loader,     \* the requests that reload
    unread,     \* history: since a load last began, a file was edited or a load failed
    rows,       \* digest_registry
    recon,      \* the reconciliations
    removal,    \* the rows that a Delete has found inactive and is about to delete
    hands

registryVars == <<files, loaded, lock, loader, unread, rows, recon, removal, hands>>

File    == [state : {"none", "bad", "good"}, cards : SUBSET Cards]
NoFile  == [state |-> "none", cards |-> {}]
Bad     == [state |-> "bad", cards |-> {}]      \* parses or validates not
Good(C) == [state |-> "good", cards |-> C]
NoFiles == [t \in Templates |-> NoFile]

Entries  == Templates \X Cards
Nobody   == "nobody"
NoLoader == [pc |-> "idle", read |-> NoFiles, to |-> "nothing"]
NoRecon  == [pc |-> "idle", map |-> NoFiles, todo |-> {}, set |-> {}, off |-> {}, quiet |-> {}]

Hand == hands < MaxHands /\ hands' = hands + 1

\* ExportBuiltins: at every start the files the binary carries are written again.
Exported(fs) == [fs EXCEPT !["builtin"] = [t \in Templates |-> IF t \in Builtins THEN Good(Cards) ELSE @[t]]]

\* Mutated MergeDir: the templates read first are kept.
MergeDirFirst(map, dir) ==
    [t \in Templates |-> IF dir[t].state = "good" /\ map[t] = NoFile THEN dir[t] ELSE map[t]]

\* loadDirIntoMap: a file that is no template is skipped, the others are set in the map.
MergeDir(map, dir) == [t \in Templates |-> IF dir[t].state = "good" THEN dir[t] ELSE map[t]]

\* What custom files are laid over what builtin ones; a skipped one covers nothing.
OnDisk == [t \in Templates |-> CASE files["custom"][t].state = "good" -> files["custom"][t]
                                 [] files["custom"][t].state # "good" /\ files["builtin"][t].state = "good"
                                        -> files["builtin"][t]
                                 [] OTHER -> NoFile]

Begin(map) == [NoRecon EXCEPT !.pc = "next", !.map = map, !.todo = {t \in Templates : map[t].state = "good"},
                              !.quiet = Entries]

RegistryInit ==
    /\ files = Exported([d \in {"builtin", "custom"} |-> NoFiles])
    /\ loaded = MergeDir(NoFiles, files["builtin"])
    /\ lock = Nobody
    /\ loader = [l \in Loaders |-> NoLoader]
    /\ unread = FALSE
    /\ rows = [e \in Entries |-> "none"]
    /\ recon = [r \in Reconcilers |-> NoRecon]
    /\ removal = {}
    /\ hands = 0

-----------------------------------------------------------------------------
(* Reloading the map *)

\* The job and POST /app-templates/reload.
AskReload(l) ==
    /\ loader[l].pc = "idle" /\ Hand
    /\ loader' = [loader EXCEPT ![l] = [@ EXCEPT !.pc = "wait"]]
    /\ UNCHANGED <<files, loaded, lock, unread, rows, recon, removal>>

\* CreateCustom: a file under a new id, which validateAppTemplateYAML let through;
\* the stricter validate may yet skip it.  The file is there before it is whole.
CreateCustom(l, t) ==
    /\ loader[l].pc = "idle" /\ Hand
    /\ t \notin Builtins /\ files["custom"][t] = NoFile
    /\ files' = [files EXCEPT !["custom"][t] = Bad]
    /\ loader' = [loader EXCEPT ![l] = [@ EXCEPT !.pc = "write", !.to = t]]
    /\ UNCHANGED <<loaded, lock, unread, rows, recon, removal>>
WriteCustom(l) ==
    /\ loader[l].pc = "write"
    /\ \E f \in {Bad} \cup {Good(C) : C \in SUBSET Cards} :
          files' = [files EXCEPT !["custom"][loader[l].to] = f]
    /\ loader' = [loader EXCEPT ![l] = [@ EXCEPT !.pc = "wait", !.to = "nothing"]]
    /\ UNCHANGED <<loaded, lock, unread, rows, recon, removal, hands>>

DeleteCustom(l, t) ==
    /\ loader[l].pc = "idle" /\ Hand
    /\ files["custom"][t] # NoFile /\ \A k \in Loaders : loader[k].to # t
    /\ files' = [files EXCEPT !["custom"][t] = NoFile]
    /\ loader' = [loader EXCEPT ![l] = [@ EXCEPT !.pc = "wait"]]
    /\ UNCHANGED <<loaded, lock, unread, rows, recon, removal>>

\* Reload takes the mutex before it reads a file.
Lock(l) ==
    /\ loader[l].pc = "wait" /\ lock = Nobody
    /\ lock' = l /\ unread' = FALSE
    /\ loader' = [loader EXCEPT ![l] = [@ EXCEPT !.pc = "builtin"]]
    /\ UNCHANGED <<files, loaded, rows, recon, removal, hands>>

ReadBuiltin(l) ==
    /\ loader[l].pc = "builtin"
    /\ loader' = [loader EXCEPT ![l] = [@ EXCEPT !.pc = "custom", !.read = MergeDir(NoFiles, files["builtin"])]]
    /\ UNCHANGED <<files, loaded, lock, unread, rows, recon, removal, hands>>
ReadCustom(l) ==
    /\ loader[l].pc = "custom"
    /\ loader' = [loader EXCEPT ![l] = [@ EXCEPT !.pc = "swap", !.read = MergeDir(loader[l].read, files["custom"])]]
    /\ UNCHANGED <<files, loaded, lock, unread, rows, recon, removal, hands>>

Swap(l) ==
    /\ loader[l].pc = "swap"
    /\ loaded' = loader[l].read
    /\ lock' = Nobody
    /\ loader' = [loader EXCEPT ![l] = NoLoader]
    /\ UNCHANGED <<files, unread, rows, recon, removal, hands>>

\* A directory or file that cannot be read: the old map stays, whoever asked.
LoadFails(l) ==
    /\ loader[l].pc \in {"builtin", "custom"} /\ Hand
    /\ lock' = Nobody /\ unread' = TRUE
    /\ loader' = [loader EXCEPT ![l] = NoLoader]
    /\ UNCHANGED <<files, loaded, rows, recon, removal>>

\* Someone edits a file in place, or lays one of their own over that of a builtin.
EditFile(t) ==
    /\ Hand
    /\ \E d \in {"builtin", "custom"} :
          /\ files[d][t] # NoFile \/ (d = "custom" /\ t \in Builtins)
          /\ \A k \in Loaders : loader[k].to # t
          /\ \E f \in {NoFile, Bad} \cup {Good(C) : C \in SUBSET Cards} :
                files' = [files EXCEPT ![d][t] = f]
    /\ unread' = TRUE
    /\ UNCHANGED <<loaded, lock, loader, rows, recon, removal>>

-----------------------------------------------------------------------------
(* Reconcile *)

\* The templates are listed once, under the read lock.
RecBegin(r) ==
    /\ recon[r].pc = "idle" /\ lock = Nobody /\ Hand
    /\ recon' = [recon EXCEPT ![r] = Begin(loaded)]
    /\ UNCHANGED <<files, loaded, lock, loader, unread, rows, removal>>

\* The next template of the map, in no order; one without entries is passed over.
RecTake(r, t) ==
    /\ recon[r].pc = "next" /\ t \in recon[r].todo
    /\ IF recon[r].map[t].cards = {}
       THEN recon' = [recon EXCEPT ![r].todo = @ \ {t}]
       ELSE recon' = [recon EXCEPT ![r] = [@ EXCEPT !.pc = "upsert", !.todo = recon[r].todo \ {t},
                        !.set = {t} \X recon[r].map[t].cards, !.off = {t} \X Cards]]
    /\ UNCHANGED <<files, loaded, lock, loader, unread, rows, removal, hands>>

\* What another did to the row is noted, for the properties.
Disturb(r, e) == [q \in Reconcilers |-> IF q = r THEN recon[q]
                                         ELSE [recon[q] EXCEPT !.quiet = @ \ {e}]]

\* ON CONFLICT the row is active again.
RecUpsert(r, e) ==
    /\ recon[r].pc = "upsert" /\ e \in recon[r].set
    /\ rows' = [rows EXCEPT ![e] = "on"]
    /\ recon' = [Disturb(r, e) EXCEPT ![r].set = @ \ {e}]
    /\ UNCHANGED <<files, loaded, lock, loader, unread, removal, hands>>

On == {e \in Entries : rows[e] = "on"}

\* ListByProfile: the active rows the template does not declare.
RecList(r) ==
    /\ recon[r].pc = "upsert" /\ recon[r].set = {}
    /\ recon' = [recon EXCEPT ![r] = [@ EXCEPT !.pc = "off",
                    !.off = {e \in recon[r].off \cap On : e[2] \notin recon[r].map[e[1]].cards}]]
    /\ UNCHANGED <<files, loaded, lock, loader, unread, rows, removal, hands>>

\* SetActive goes by profile and name, and finds the row or not.
RecOff(r, e) ==
    /\ recon[r].pc \in {"off", "orphans"} /\ e \in recon[r].off
    /\ rows' = [rows EXCEPT ![e] = IF @ = "none" THEN "none" ELSE "off"]
    /\ recon' = [Disturb(r, e) EXCEPT ![r].off = @ \ {e}]
    /\ UNCHANGED <<files, loaded, lock, loader, unread, removal, hands>>
RecNext(r) ==
    /\ recon[r].pc = "off" /\ recon[r].off = {}
    /\ recon' = [recon EXCEPT ![r].pc = "next"]
    /\ UNCHANGED <<files, loaded, lock, loader, unread, rows, removal, hands>>

\* Mutated RecOrphans: rows of templates that are gone are not looked for.
RecOrphansNone(r) ==
    /\ recon[r].pc = "next" /\ recon[r].todo = {}
    /\ recon' = [recon EXCEPT ![r] = [@ EXCEPT !.pc = "orphans", !.off = {}]]
    /\ UNCHANGED <<files, loaded, lock, loader, unread, rows, removal, hands>>

\* List: the active rows of templates that are not loaded.
RecOrphans(r) ==
    /\ recon[r].pc = "next" /\ recon[r].todo = {}
    /\ recon' = [recon EXCEPT ![r] = [@ EXCEPT !.pc = "orphans",
                    !.off = {e \in On : recon[r].map[e[1]] = NoFile}]]
    /\ UNCHANGED <<files, loaded, lock, loader, unread, rows, removal, hands>>
RecDone(r) ==
    /\ recon[r].pc = "orphans" /\ recon[r].off = {}
    /\ recon' = [recon EXCEPT ![r].pc = "done"]
    /\ UNCHANGED <<files, loaded, lock, loader, unread, rows, removal, hands>>
RecReturn(r) ==
    /\ recon[r].pc = "done"
    /\ recon' = [recon EXCEPT ![r] = NoRecon]
    /\ UNCHANGED <<files, loaded, lock, loader, unread, rows, removal, hands>>

\* A statement fails: what was written stays, the rest is not done.
RecFails(r) ==
    /\ recon[r].pc \in {"upsert", "off", "orphans"} /\ Hand
    /\ recon' = [recon EXCEPT ![r] = NoRecon]
    /\ UNCHANGED <<files, loaded, lock, loader, unread, rows, removal>>

-----------------------------------------------------------------------------
(* The rows on request *)

Touch(E) == recon' = [r \in Reconcilers |-> [recon[r] EXCEPT !.quiet = @ \ E]]

SetActiveByID(e) ==
    /\ rows[e] # "none" /\ Hand
    /\ \E on \in {"on", "off"} : rows' = [rows EXCEPT ![e] = on]
    /\ Touch({e})
    /\ UNCHANGED <<files, loaded, lock, loader, unread, removal>>

\* Two statements, by the id of the row: one made anew in between has another.
DeleteEntry(e) ==
    /\ rows[e] = "off" /\ Hand
    /\ removal' = removal \cup {e}
    /\ UNCHANGED <<files, loaded, lock, loader, unread, rows, recon>>
DeleteEnds(e) ==
    /\ e \in removal
    /\ rows' = [rows EXCEPT ![e] = "none"]
    /\ removal' = removal \ {e}
    /\ Touch({e})
    /\ UNCHANGED <<files, loaded, lock, loader, unread, hands>>

\* The cleanup job; one statement.
DeleteAllInactive ==
    LET gone == {e \in Entries : rows[e] = "off"} IN
    /\ gone # {} /\ Hand
    /\ rows' = [e \in Entries |-> IF e \in gone THEN "none" ELSE rows[e]]
    /\ removal' = removal \ gone
    /\ Touch(gone)
    /\ UNCHANGED <<files, loaded, lock, loader, unread>>

\* The process ends and starts again: the builtin files are written, the files
\* read, and the reconciler runs before the server does.
RestartRegistry ==
    /\ Hand
    /\ files' = Exported(files)
    /\ loaded' = MergeDir(MergeDir(NoFiles, files'["builtin"]), files'["custom"])
    /\ lock' = Nobody /\ unread' = FALSE
    /\ loader' = [l \in Loaders |-> NoLoader]
    /\ \E r \in Reconcilers : recon' = [q \in Reconcilers |-> IF q = r THEN Begin(loaded') ELSE NoRecon]
    /\ removal' = {}
    /\ UNCHANGED rows

Loading(l) == WriteCustom(l) \/ Lock(l) \/ ReadBuiltin(l) \/ ReadCustom(l) \/ Swap(l)

RegistryNext ==
    \/ \E l \in Loaders : AskReload(l) \/ Loading(l) \/ LoadFails(l)
    \/ \E l \in Loaders, t \in Templates : CreateCustom(l, t) \/ DeleteCustom(l, t)
    \/ \E t \in Templates : EditFile(t)
    \/ \E r \in Reconcilers :
        \/ RecBegin(r) \/ RecList(r) \/ RecNext(r) \/ RecOrphans(r) \/ RecDone(r) \/ RecReturn(r) \/ RecFails(r)
        \/ \E t \in Templates : RecTake(r, t)
        \/ \E e \in Entries : RecUpsert(r, e) \/ RecOff(r, e)
    \/ \E e \in Entries : SetActiveByID(e) \/ DeleteEntry(e) \/ DeleteEnds(e)
    \/ DeleteAllInactive \/ RestartRegistry

RegistrySpec == RegistryInit /\ [][RegistryNext]_registryVars

-----------------------------------------------------------------------------
(* Properties *)

\* Every variable keeps its type; only good templates are in a map.
Map == [Templates -> {NoFile} \cup {Good(C) : C \in SUBSET Cards}]
RegistryTypeOK ==
    /\ files \in [{"builtin", "custom"} -> [Templates -> File]]
    /\ loaded \in Map
    /\ lock \in Loaders \cup {Nobody}
    /\ loader \in [Loaders -> [pc : {"idle", "write", "wait", "builtin", "custom", "swap"}, read : Map,
                               to : Templates \cup {"nothing"}]]
    /\ unread \in BOOLEAN
    /\ rows \in [Entries -> {"none", "on", "off"}]
    /\ recon \in [Reconcilers -> [pc : {"idle", "next", "upsert", "off", "orphans", "done"}, map : Map,
                    todo : SUBSET Templates, set : SUBSET Entries, off : SUBSET Entries, quiet : SUBSET Entries]]
    /\ removal \subseteq Entries
    /\ hands \in 0 .. MaxHands

\* Whatever loads and writes of templates overlapped, once they have ended the map
\* is that of the files: a late reload does not bring back an older one, and a
\* custom file that is skipped leaves the builtin it would override.
LoadedIsOnDisk ==
    lock = Nobody /\ (\A l \in Loaders : loader[l].pc = "idle") /\ ~unread => loaded = OnDisk

\* A reconciliation leaves every row no one else touched as the templates it listed
\* have it: declared entries active, others of a template that has some not, and
\* those of a template that is gone not.
ReconcileSettles ==
    \A r \in Reconcilers : recon[r].pc = "done" =>
        \A e \in recon[r].quiet :
            LET f == recon[r].map[e[1]] IN
            /\ f.cards # {} => (rows[e] = "on" <=> e[2] \in f.cards)
            /\ f = NoFile => rows[e] # "on"
=============================================================================
