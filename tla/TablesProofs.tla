------------------------------ MODULE TablesProofs ------------------------------
(***************************************************************************)
(* Proofs about DigestRegistry, Digest and DigestReport.  For any          *)
(* templates, entries, loaders and reconcilers: types, that the map of     *)
(* templates is that of the files once every load has ended, and that a    *)
(* reconciliation settles every row that no one else touched.  For any     *)
(* days and schedules: one digest of a period, and its window.  For any    *)
(* checks: that healthy is healthy.  Last, that the components side by     *)
(* side still do what each does.                                           *)
(***************************************************************************)
EXTENDS MC_Tables, ComponentLinksProofs

(* Templates: what a load and a reconciliation hold *)

Dirs       == {"builtin", "custom"}
LoaderType == [pc : {"idle", "write", "wait", "builtin", "custom", "swap"}, read : Map,
               to : Templates \cup {"nothing"}]
ReconType  == [pc : {"idle", "next", "upsert", "off", "orphans", "done"}, map : Map,
               todo : SUBSET Templates, set : SUBSET Entries, off : SUBSET Entries, quiet : SUBSET Entries]

-----------------------------------------------------------------------------
(* Templates: files and maps *)

LEMMA NoFilesIsMap == NoFiles \in Map /\ NoFiles \in [Templates -> File]
BY DEF NoFiles, Map, NoFile, File

LEMMA FilesAreFiles == Bad \in File /\ NoFile \in File /\ \A C \in SUBSET Cards : Good(C) \in File
BY DEF Bad, Good, NoFile, File

\* A good file is what Good makes of its entries.
LEMMA GoodIsGood == ASSUME NEW f \in File, f.state = "good" PROVE f = Good(f.cards) /\ f.cards \in SUBSET Cards
BY DEF File, Good

LEMMA MergeIsMap ==
    ASSUME NEW map \in Map, NEW dir \in [Templates -> File]
    PROVE  MergeDir(map, dir) \in Map
<1>1. \A t \in Templates : dir[t].state = "good" => dir[t] \in {Good(C) : C \in SUBSET Cards}
    BY GoodIsGood
<1> QED
    BY <1>1 DEF MergeDir, Map

LEMMA MergedIsOnDisk ==
    ASSUME files \in [Dirs -> [Templates -> File]]
    PROVE  MergeDir(MergeDir(NoFiles, files["builtin"]), files["custom"]) = OnDisk
BY DEF MergeDir, OnDisk, NoFiles, Dirs

LEMMA ExportedAreFiles ==
    ASSUME NEW fs \in [Dirs -> [Templates -> File]]
    PROVE  Exported(fs) \in [Dirs -> [Templates -> File]]
<1>1. [t \in Templates |-> IF t \in Builtins THEN Good(Cards) ELSE fs["builtin"][t]] \in [Templates -> File]
    BY FilesAreFiles DEF Dirs
<1> QED
    BY <1>1 DEF Exported, Dirs

LEMMA BeginIsRecon == ASSUME NEW map \in Map PROVE Begin(map) \in ReconType
BY NoFilesIsMap DEF Begin, NoRecon, ReconType

LEMMA LoadersMove ==
    ASSUME NEW x \in LoaderType
    PROVE  /\ \A pc \in {"wait", "builtin"} : [x EXCEPT !.pc = pc] \in LoaderType
           /\ \A t \in Templates : [x EXCEPT !.pc = "write", !.to = t] \in LoaderType
           /\ [x EXCEPT !.pc = "wait", !.to = "nothing"] \in LoaderType
           /\ \A pc \in {"custom", "swap"}, map \in Map : [x EXCEPT !.pc = pc, !.read = map] \in LoaderType
BY DEF LoaderType

LEMMA HandsAreCounted == ASSUME hands \in 0 .. MaxHands, Hand PROVE hands' \in 0 .. MaxHands
BY RegistryConstants DEF Hand

LEMMA NothingIsTyped == NoLoader \in LoaderType /\ NoRecon \in ReconType
BY NoFilesIsMap DEF NoLoader, LoaderType, NoRecon, ReconType

-----------------------------------------------------------------------------
(* Templates: types *)

LEMMA RegistryTypeInit == ASSUME RegistryInit PROVE RegistryTypeOK
<1>1. [d \in Dirs |-> NoFiles] \in [Dirs -> [Templates -> File]]
    BY NoFilesIsMap
<1>2. files \in [Dirs -> [Templates -> File]]
    BY <1>1, ExportedAreFiles DEF RegistryInit, Dirs
<1>3. loaded \in Map
    BY <1>2, NoFilesIsMap, MergeIsMap DEF RegistryInit, Dirs
<1>4. loader \in [Loaders -> LoaderType] /\ recon \in [Reconcilers -> ReconType]
    BY NothingIsTyped DEF RegistryInit
<1>5. /\ lock \in Loaders \cup {Nobody} /\ unread \in BOOLEAN /\ removal \subseteq Entries
      /\ rows \in [Entries -> {"none", "on", "off"}] /\ hands \in 0 .. MaxHands
    <2>1. hands \in 0 .. MaxHands
        BY RegistryConstants DEF RegistryInit
    <2>2. rows \in [Entries -> {"none", "on", "off"}]
        BY DEF RegistryInit
    <2> QED
        BY <2>1, <2>2 DEF RegistryInit
<1> QED
    BY <1>2, <1>3, <1>4, <1>5 DEF RegistryTypeOK, Dirs, LoaderType, ReconType

LEMMA LoadTypes ==
    ASSUME RegistryTypeOK, NEW l \in Loaders, AskReload(l) \/ Loading(l) \/ LoadFails(l)
    PROVE  RegistryTypeOK'
<1>1. /\ files \in [Dirs -> [Templates -> File]]
      /\ loader \in [Loaders -> LoaderType] /\ loaded \in Map /\ hands \in 0 .. MaxHands
    BY DEF RegistryTypeOK, LoaderType, Dirs
<1>2. files' \in [Dirs -> [Templates -> File]]
    <2>1. CASE WriteCustom(l)
        <3>1. PICK f \in File : files' = [files EXCEPT !["custom"][loader[l].to] = f]
            BY <2>1, FilesAreFiles DEF WriteCustom
        <3> QED
            BY <1>1, <3>1 DEF Dirs
    <2> QED
        BY <1>1, <2>1 DEF AskReload, Loading, Lock, ReadBuiltin, ReadCustom, Swap, LoadFails
<1>3. loader' \in [Loaders -> LoaderType]
    <2>1. CASE ReadBuiltin(l)
        <3>1. MergeDir(NoFiles, files["builtin"]) \in Map
            BY <1>1, NoFilesIsMap, MergeIsMap DEF Dirs
        <3> QED
            BY <1>1, <2>1, <3>1, LoadersMove DEF ReadBuiltin
    <2>2. CASE ReadCustom(l)
        <3>1. MergeDir(loader[l].read, files["custom"]) \in Map
            BY <1>1, MergeIsMap DEF Dirs, LoaderType
        <3> QED
            BY <1>1, <2>2, <3>1, LoadersMove DEF ReadCustom
    <2>3. CASE Swap(l) \/ LoadFails(l)
        BY <1>1, <2>3, NothingIsTyped DEF Swap, LoadFails
    <2>4. CASE AskReload(l) \/ WriteCustom(l) \/ Lock(l)
        <3>1. \E x \in LoaderType : loader' = [loader EXCEPT ![l] = x]
            <4>1. loader[l] \in LoaderType
                BY <1>1
            <4>2. CASE AskReload(l)
                BY <4>1, <4>2, LoadersMove DEF AskReload
            <4>3. CASE WriteCustom(l)
                BY <4>1, <4>3, LoadersMove DEF WriteCustom
            <4>4. CASE Lock(l)
                BY <4>1, <4>4, LoadersMove DEF Lock
            <4> QED
                BY <2>4, <4>2, <4>3, <4>4
        <3> QED
            BY <1>1, <3>1
    <2> QED
        BY <2>1, <2>2, <2>3, <2>4 DEF Loading
<1>4. loaded' \in Map
    BY <1>1 DEF AskReload, Loading, WriteCustom, Lock, ReadBuiltin, ReadCustom, Swap, LoadFails, LoaderType
<1>5. lock' \in Loaders \cup {Nobody} /\ unread' \in BOOLEAN /\ hands' \in 0 .. MaxHands
    <2>1. hands' \in 0 .. MaxHands
        BY <1>1, HandsAreCounted DEF AskReload, Loading, WriteCustom, Lock, ReadBuiltin, ReadCustom, Swap,
           LoadFails
    <2>2. lock' \in Loaders \cup {Nobody} /\ unread' \in BOOLEAN
        BY DEF AskReload, Loading, WriteCustom, Lock, ReadBuiltin, ReadCustom, Swap, LoadFails, RegistryTypeOK
    <2> QED
        BY <2>1, <2>2
<1>6. UNCHANGED <<rows, recon, removal>>
    BY DEF AskReload, Loading, WriteCustom, Lock, ReadBuiltin, ReadCustom, Swap, LoadFails
<1> QED
    BY <1>2, <1>3, <1>4, <1>5, <1>6 DEF RegistryTypeOK, LoaderType, Dirs

LEMMA EditTypes ==
    ASSUME RegistryTypeOK, NEW t \in Templates,
           EditFile(t) \/ \E l \in Loaders : CreateCustom(l, t) \/ DeleteCustom(l, t)
    PROVE  RegistryTypeOK'
<1>1. /\ files \in [Dirs -> [Templates -> File]]
      /\ loader \in [Loaders -> LoaderType] /\ hands \in 0 .. MaxHands
    BY DEF RegistryTypeOK, LoaderType, Dirs
<1>2. PICK d \in Dirs, f \in File : files' = [files EXCEPT ![d][t] = f]
    <2>1. CASE EditFile(t)
        <3>1. PICK d \in {"builtin", "custom"} :
                \E f \in {NoFile, Bad} \cup {Good(C) : C \in SUBSET Cards} : files' = [files EXCEPT ![d][t] = f]
            BY <2>1 DEF EditFile
        <3>2. PICK f \in {NoFile, Bad} \cup {Good(C) : C \in SUBSET Cards} : files' = [files EXCEPT ![d][t] = f]
            BY <3>1
        <3>3. f \in File /\ d \in Dirs
            BY FilesAreFiles DEF Dirs
        <3> QED
            BY <3>2, <3>3
    <2>2. ASSUME NEW l \in Loaders, CreateCustom(l, t) \/ DeleteCustom(l, t)
          PROVE  \E d \in Dirs, f \in File : files' = [files EXCEPT ![d][t] = f]
        BY <2>2, FilesAreFiles DEF CreateCustom, DeleteCustom, Dirs
    <2> QED
        BY <2>1, <2>2
<1>3. files' \in [Dirs -> [Templates -> File]]
    BY <1>1, <1>2
<1>4. loader' \in [Loaders -> LoaderType]
    <2>1. CASE EditFile(t)
        BY <1>1, <2>1 DEF EditFile
    <2>2. ASSUME NEW l \in Loaders, CreateCustom(l, t) PROVE loader' \in [Loaders -> LoaderType]
        <3>1. PICK x \in LoaderType : x = [loader[l] EXCEPT !.pc = "write", !.to = t]
            BY <1>1, LoadersMove
        <3> QED
            BY <1>1, <2>2, <3>1 DEF CreateCustom
    <2>3. ASSUME NEW l \in Loaders, DeleteCustom(l, t) PROVE loader' \in [Loaders -> LoaderType]
        <3>1. PICK x \in LoaderType : x = [loader[l] EXCEPT !.pc = "wait"]
            BY <1>1, LoadersMove
        <3> QED
            BY <1>1, <2>3, <3>1 DEF DeleteCustom
    <2> QED
        BY <2>1, <2>2, <2>3
<1>5. hands' \in 0 .. MaxHands /\ unread' \in BOOLEAN
    BY <1>1, HandsAreCounted DEF EditFile, CreateCustom, DeleteCustom, RegistryTypeOK
<1>6. UNCHANGED <<loaded, lock, rows, recon, removal>>
    BY DEF EditFile, CreateCustom, DeleteCustom
<1> QED
    BY <1>3, <1>4, <1>5, <1>6 DEF RegistryTypeOK, LoaderType, Dirs

LEMMA ReconsMove ==
    ASSUME NEW x \in ReconType
    PROVE  /\ \A pc \in {"next", "done"} : [x EXCEPT !.pc = pc] \in ReconType
           /\ \A T \in SUBSET Templates : [x EXCEPT !.todo = T] \in ReconType
           /\ \A T \in SUBSET Templates, S, O \in SUBSET Entries :
                [x EXCEPT !.pc = "upsert", !.todo = T, !.set = S, !.off = O] \in ReconType
           /\ \A S \in SUBSET Entries :
                /\ [x EXCEPT !.set = S] \in ReconType /\ [x EXCEPT !.off = S] \in ReconType
                /\ [x EXCEPT !.quiet = S] \in ReconType
                /\ \A pc \in {"off", "orphans"} : [x EXCEPT !.pc = pc, !.off = S] \in ReconType
BY DEF ReconType

\* A reconciliation of its own: what a step makes of its record.
OneRecon(r, x) == x \in ReconType /\ recon' = [recon EXCEPT ![r] = x]
\* The same, and another entry disturbed for the others.
OneReconOf(r, x, e) ==
    /\ x \in ReconType
    /\ recon' = [q \in Reconcilers |-> IF q = r THEN x ELSE [recon[q] EXCEPT !.quiet = @ \ {e}]]

\* The records that the steps of a reconciliation leave.
Took(x, t)    == IF x.map[t].cards = {} THEN [x EXCEPT !.todo = @ \ {t}]
                 ELSE [x EXCEPT !.pc = "upsert", !.todo = x.todo \ {t}, !.set = {t} \X x.map[t].cards,
                                !.off = {t} \X Cards]
Upserted(x, e) == [x EXCEPT !.set = @ \ {e}]
Listed(x)      == [x EXCEPT !.pc = "off", !.off = {e \in x.off \cap On : e[2] \notin x.map[e[1]].cards}]
Offed(x, e)    == [x EXCEPT !.off = @ \ {e}]
Orphans(x)     == [x EXCEPT !.pc = "orphans", !.off = {e \in On : x.map[e[1]] = NoFile}]
Moved(x, pc)   == [x EXCEPT !.pc = pc]

LEMMA ReconRecords ==
    ASSUME NEW x \in ReconType
    PROVE  /\ \A t \in Templates : Took(x, t) \in ReconType
           /\ \A e \in Entries : Upserted(x, e) \in ReconType /\ Offed(x, e) \in ReconType
           /\ Listed(x) \in ReconType /\ Orphans(x) \in ReconType
           /\ Moved(x, "next") \in ReconType /\ Moved(x, "done") \in ReconType
<1>1. /\ x.set \in SUBSET Entries /\ x.off \in SUBSET Entries /\ x.todo \in SUBSET Templates
      /\ \A t \in Templates : x.map[t].cards \in SUBSET Cards
    BY DEF ReconType, Map, NoFile, Good
<1>2. ASSUME NEW t \in Templates PROVE Took(x, t) \in ReconType
    <2>1. x.todo \ {t} \in SUBSET Templates /\ {t} \X x.map[t].cards \in SUBSET Entries
          /\ {t} \X Cards \in SUBSET Entries
        BY <1>1 DEF Entries
    <2>2. CASE x.map[t].cards = {}
        BY <2>1, <2>2, ReconsMove DEF Took
    <2>3. CASE x.map[t].cards # {}
        BY <2>1, <2>3, ReconsMove DEF Took
    <2> QED
        BY <2>2, <2>3
<1>3. ASSUME NEW e \in Entries PROVE Upserted(x, e) \in ReconType /\ Offed(x, e) \in ReconType
    <2>1. x.set \ {e} \in SUBSET Entries /\ x.off \ {e} \in SUBSET Entries
        BY <1>1
    <2> QED
        BY <2>1, ReconsMove DEF Upserted, Offed
<1>4. Listed(x) \in ReconType
    <2>1. {e \in x.off \cap On : e[2] \notin x.map[e[1]].cards} \in SUBSET Entries
        BY <1>1
    <2> QED
        BY <2>1, ReconsMove DEF Listed
<1>5. Orphans(x) \in ReconType
    <2>1. {e \in On : x.map[e[1]] = NoFile} \in SUBSET Entries
        BY DEF On
    <2> QED
        BY <2>1, ReconsMove DEF Orphans
<1> QED
    BY <1>2, <1>3, <1>4, <1>5, ReconsMove DEF Moved

\* Every step of a reconciliation is one of these.
LEMMA ReconSteps ==
    ASSUME RegistryTypeOK, NEW r \in Reconcilers
    PROVE  /\ RecBegin(r) => OneRecon(r, Begin(loaded))
           /\ \A t \in Templates : RecTake(r, t) => OneRecon(r, Took(recon[r], t))
           /\ \A e \in Entries : RecUpsert(r, e) => OneReconOf(r, Upserted(recon[r], e), e)
           /\ \A e \in Entries : RecOff(r, e) => OneReconOf(r, Offed(recon[r], e), e)
           /\ RecList(r) => OneRecon(r, Listed(recon[r]))
           /\ RecOrphans(r) => OneRecon(r, Orphans(recon[r]))
           /\ RecNext(r) => OneRecon(r, Moved(recon[r], "next"))
           /\ RecDone(r) => OneRecon(r, Moved(recon[r], "done"))
           /\ RecReturn(r) \/ RecFails(r) => OneRecon(r, NoRecon)
<1>1. recon \in [Reconcilers -> ReconType] /\ loaded \in Map
    BY DEF RegistryTypeOK, ReconType
<1>2. ASSUME NEW t \in Templates, RecTake(r, t) PROVE OneRecon(r, Took(recon[r], t))
    <2>1. CASE recon[r].map[t].cards = {}
        BY <1>1, <1>2, <2>1, ReconRecords DEF RecTake, OneRecon, Took
    <2>2. CASE recon[r].map[t].cards # {}
        <3>1. Took(recon[r], t) \in ReconType
            BY <1>1, ReconRecords
        <3>2. Took(recon[r], t) = [recon[r] EXCEPT !.pc = "upsert", !.todo = recon[r].todo \ {t},
                                       !.set = {t} \X recon[r].map[t].cards, !.off = {t} \X Cards]
            BY <2>2 DEF Took
        <3>3. recon' = [recon EXCEPT ![r] = [recon[r] EXCEPT !.pc = "upsert", !.todo = recon[r].todo \ {t},
                                       !.set = {t} \X recon[r].map[t].cards, !.off = {t} \X Cards]]
            BY <1>2, <2>2 DEF RecTake
        <3> QED
            BY <3>1, <3>2, <3>3 DEF OneRecon
    <2> QED
        BY <2>1, <2>2
<1>3. ASSUME NEW e \in Entries, RecUpsert(r, e) PROVE OneReconOf(r, Upserted(recon[r], e), e)
    <2>1. Upserted(recon[r], e) \in ReconType
        BY <1>1, ReconRecords
    <2>2. recon' = [Disturb(r, e) EXCEPT ![r].set = @ \ {e}]
        BY <1>3 DEF RecUpsert
    <2> QED
        BY <1>1, <2>1, <2>2 DEF Disturb, OneReconOf, Upserted
<1>4. ASSUME NEW e \in Entries, RecOff(r, e) PROVE OneReconOf(r, Offed(recon[r], e), e)
    <2>1. Offed(recon[r], e) \in ReconType
        BY <1>1, ReconRecords
    <2>2. recon' = [Disturb(r, e) EXCEPT ![r].off = @ \ {e}]
        BY <1>4 DEF RecOff
    <2> QED
        BY <1>1, <2>1, <2>2 DEF Disturb, OneReconOf, Offed
<1>5. RecList(r) => OneRecon(r, Listed(recon[r]))
    BY <1>1, ReconRecords DEF RecList, OneRecon, Listed
<1>6. RecOrphans(r) => OneRecon(r, Orphans(recon[r]))
    BY <1>1, ReconRecords DEF RecOrphans, OneRecon, Orphans
<1>7. /\ RecNext(r) => OneRecon(r, Moved(recon[r], "next"))
      /\ RecDone(r) => OneRecon(r, Moved(recon[r], "done"))
    BY <1>1, ReconRecords DEF RecNext, RecDone, OneRecon, Moved
<1>8. /\ RecBegin(r) => OneRecon(r, Begin(loaded))
      /\ RecReturn(r) \/ RecFails(r) => OneRecon(r, NoRecon)
    BY <1>1, BeginIsRecon, NothingIsTyped DEF RecBegin, RecReturn, RecFails, OneRecon
<1> QED
    BY <1>2, <1>3, <1>4, <1>5, <1>6, <1>7, <1>8

LEMMA OneReconTypes ==
    ASSUME RegistryTypeOK, NEW r \in Reconcilers, NEW x
    PROVE  /\ OneRecon(r, x) => recon' \in [Reconcilers -> ReconType]
           /\ \A e \in Entries : OneReconOf(r, x, e) => recon' \in [Reconcilers -> ReconType]
<1>1. recon \in [Reconcilers -> ReconType]
    BY DEF RegistryTypeOK, ReconType
<1>2. \A q \in Reconcilers, e \in Entries : [recon[q] EXCEPT !.quiet = @ \ {e}] \in ReconType
    BY <1>1 DEF ReconType
<1> QED
    BY <1>1, <1>2 DEF OneRecon, OneReconOf

\* The steps of a reconciliation: one record moves, and rows by a statement at most.
RecStep(r) ==
    \/ RecBegin(r) \/ RecList(r) \/ RecNext(r) \/ RecOrphans(r) \/ RecDone(r) \/ RecReturn(r) \/ RecFails(r)
    \/ \E t \in Templates : RecTake(r, t)
    \/ \E e \in Entries : RecUpsert(r, e) \/ RecOff(r, e)

LEMMA ReconTypes ==
    ASSUME RegistryTypeOK, NEW r \in Reconcilers, RecStep(r)
    PROVE  RegistryTypeOK'
<1>1. recon' \in [Reconcilers -> ReconType]
    BY ReconSteps, OneReconTypes DEF RecStep
<1>2. rows' \in [Entries -> {"none", "on", "off"}]
    <2>1. CASE UNCHANGED rows
        BY <2>1 DEF RegistryTypeOK
    <2>2. ASSUME NEW e \in Entries, RecUpsert(r, e) \/ RecOff(r, e)
          PROVE  rows' \in [Entries -> {"none", "on", "off"}]
        BY <2>2 DEF RecUpsert, RecOff, RegistryTypeOK
    <2> QED
        BY <2>1, <2>2 DEF RecStep, RecBegin, RecList, RecNext, RecOrphans, RecDone, RecReturn, RecFails, RecTake
<1>3. hands' \in 0 .. MaxHands
    BY HandsAreCounted DEF RecStep, RecBegin, RecList, RecNext, RecOrphans, RecDone, RecReturn, RecFails,
       RecTake, RecUpsert, RecOff, RegistryTypeOK
<1>4. UNCHANGED <<files, loaded, lock, loader, unread, removal>>
    BY DEF RecStep, RecBegin, RecList, RecNext, RecOrphans, RecDone, RecReturn, RecFails, RecTake,
       RecUpsert, RecOff
<1> QED
    BY <1>1, <1>2, <1>3, <1>4 DEF RegistryTypeOK, ReconType

\* Requests on rows.
RowStep == DeleteAllInactive \/ \E e \in Entries : SetActiveByID(e) \/ DeleteEntry(e) \/ DeleteEnds(e)

LEMMA TouchTypes ==
    ASSUME RegistryTypeOK, NEW E, Touch(E)
    PROVE  recon' \in [Reconcilers -> ReconType]
<1>1. recon \in [Reconcilers -> ReconType]
    BY DEF RegistryTypeOK, ReconType
<1>2. \A x \in ReconType : [x EXCEPT !.quiet = @ \ E] \in ReconType
    BY DEF ReconType
<1> QED
    BY <1>1, <1>2 DEF Touch

LEMMA RowTypes == ASSUME RegistryTypeOK, RowStep PROVE RegistryTypeOK'
<1>1. rows' \in [Entries -> {"none", "on", "off"}] /\ removal' \subseteq Entries
    BY DEF RowStep, DeleteAllInactive, SetActiveByID, DeleteEntry, DeleteEnds, RegistryTypeOK
<1>2. hands' \in 0 .. MaxHands
    BY HandsAreCounted DEF RowStep, DeleteAllInactive, SetActiveByID, DeleteEntry, DeleteEnds, RegistryTypeOK
<1>3. recon' \in [Reconcilers -> ReconType]
    <2>1. CASE UNCHANGED recon
        BY <2>1 DEF RegistryTypeOK, ReconType
    <2>2. ASSUME NEW E, Touch(E) PROVE recon' \in [Reconcilers -> ReconType]
        BY <2>2, TouchTypes
    <2> QED
        BY <2>1, <2>2 DEF RowStep, DeleteAllInactive, SetActiveByID, DeleteEntry, DeleteEnds
<1>4. UNCHANGED <<files, loaded, lock, loader, unread>>
    BY DEF RowStep, DeleteAllInactive, SetActiveByID, DeleteEntry, DeleteEnds
<1> QED
    BY <1>1, <1>2, <1>3, <1>4 DEF RegistryTypeOK, ReconType

LEMMA RestartTypes ==
    ASSUME RegistryTypeOK, RestartRegistry
    PROVE  RegistryTypeOK' /\ loaded' = OnDisk'
<1>1. files' \in [Dirs -> [Templates -> File]]
    BY ExportedAreFiles DEF RestartRegistry, RegistryTypeOK, Dirs
<1>2. loaded' = MergeDir(MergeDir(NoFiles, files'["builtin"]), files'["custom"])
    BY DEF RestartRegistry
<1>3. loaded' \in Map
    BY <1>1, <1>2, NoFilesIsMap, MergeIsMap DEF Dirs
<1>4. loaded' = OnDisk'
    BY <1>1, <1>2 DEF MergeDir, OnDisk, NoFiles, Dirs
<1>5. recon' \in [Reconcilers -> ReconType]
    <2>1. Begin(loaded') \in ReconType
        BY <1>3, BeginIsRecon
    <2> QED
        BY <2>1, NothingIsTyped DEF RestartRegistry
<1>6. loader' \in [Loaders -> LoaderType] /\ hands' \in 0 .. MaxHands /\ lock' = Nobody /\ unread' = FALSE
    BY NothingIsTyped, HandsAreCounted DEF RestartRegistry, RegistryTypeOK
<1>7. removal' = {} /\ rows' = rows
    BY DEF RestartRegistry
<1> QED
    BY <1>1, <1>3, <1>4, <1>5, <1>6, <1>7 DEF RegistryTypeOK, Dirs, LoaderType, ReconType

\* The next-state relation, by who moves.
LEMMA RegistryMoves ==
    ASSUME RegistryNext
    PROVE  \/ \E l \in Loaders : AskReload(l) \/ Loading(l) \/ LoadFails(l)
           \/ \E t \in Templates : EditFile(t) \/ \E l \in Loaders : CreateCustom(l, t) \/ DeleteCustom(l, t)
           \/ \E r \in Reconcilers : RecStep(r)
           \/ RowStep
           \/ RestartRegistry
BY DEF RegistryNext, RecStep, RowStep

LEMMA RegistryTypeStep ==
    ASSUME RegistryTypeOK, [RegistryNext]_registryVars
    PROVE  RegistryTypeOK'
<1>1. CASE UNCHANGED registryVars
    BY <1>1 DEF RegistryTypeOK, registryVars
<1> QED
    BY <1>1, RegistryMoves, LoadTypes, EditTypes, ReconTypes, RowTypes, RestartTypes

\* Files, the map, loads, reconciliations and rows keep their types.
THEOREM RegistryTypeCorrect == RegistrySpec => []RegistryTypeOK
BY RegistryTypeInit, RegistryTypeStep, PTL DEF RegistrySpec

-----------------------------------------------------------------------------
(* Templates: the map and the files *)

\* A load that fell behind the files is followed by another: someone is writing a
\* file and will load, or waits for the lock.
LoadDue == \E k \in Loaders : loader[k].pc \in {"write", "wait"}

LoadsInv ==
    /\ \A l \in Loaders : loader[l].pc \in {"builtin", "custom", "swap"} => lock = l
    /\ ~unread =>
        /\ lock = Nobody => loaded = OnDisk \/ LoadDue
        /\ \A l \in Loaders :
            /\ loader[l].pc = "custom" =>
                MergeDir(loader[l].read, files["custom"]) = OnDisk \/ LoadDue
            /\ loader[l].pc = "swap" => loader[l].read = OnDisk \/ LoadDue

LEMMA LoadsAskInv ==
    ASSUME RegistryTypeOK, LoadsInv, NEW l \in Loaders,
           \/ AskReload(l) \/ WriteCustom(l)
           \/ \E t \in Templates : CreateCustom(l, t) \/ DeleteCustom(l, t)
    PROVE  LoadsInv'
<1>1. loader \in [Loaders -> LoaderType] /\ loader[l].pc \notin {"builtin", "custom", "swap"}
    BY DEF RegistryTypeOK, LoaderType, AskReload, CreateCustom, WriteCustom, DeleteCustom
<1>2. PICK x \in LoaderType : x.pc \in {"write", "wait"} /\ loader' = [loader EXCEPT ![l] = x]
    <2>1. CASE AskReload(l)
        BY <1>1, <2>1 DEF AskReload, LoaderType
    <2>2. CASE WriteCustom(l)
        BY <1>1, <2>2 DEF WriteCustom, LoaderType
    <2>3. ASSUME NEW t \in Templates, CreateCustom(l, t)
          PROVE  loader' = [loader EXCEPT ![l] = [@ EXCEPT !.pc = "write", !.to = t]]
        BY <2>3 DEF CreateCustom
    <2>4. ASSUME NEW t \in Templates, DeleteCustom(l, t)
          PROVE  loader' = [loader EXCEPT ![l] = [@ EXCEPT !.pc = "wait"]]
        BY <2>4 DEF DeleteCustom
    <2>5. /\ [loader[l] EXCEPT !.pc = "wait"] \in LoaderType
          /\ \A t \in Templates : [loader[l] EXCEPT !.pc = "write", !.to = t] \in LoaderType
        BY <1>1 DEF LoaderType
    <2>6. /\ [loader[l] EXCEPT !.pc = "wait"].pc = "wait"
          /\ \A t \in Templates : [loader[l] EXCEPT !.pc = "write", !.to = t].pc = "write"
        BY <1>1 DEF LoaderType
    <2> QED
        BY <2>1, <2>2, <2>3, <2>4, <2>5, <2>6
<1>3. LoadDue' /\ UNCHANGED lock
    BY <1>1, <1>2 DEF LoadDue, AskReload, CreateCustom, WriteCustom, DeleteCustom
<1> QED
    BY <1>1, <1>2, <1>3 DEF LoadsInv

LEMMA LoadsLockInv == ASSUME RegistryTypeOK, LoadsInv, NEW l \in Loaders, Lock(l) PROVE LoadsInv'
<1>1. /\ loader \in [Loaders -> LoaderType] /\ loader' = [loader EXCEPT ![l].pc = "builtin"]
      /\ lock = Nobody /\ lock' = l /\ l # Nobody
    BY RegistryConstants DEF RegistryTypeOK, LoaderType, Lock, Nobody
<1>2. \A k \in Loaders : loader[k].pc \notin {"builtin", "custom", "swap"}
    BY <1>1, RegistryConstants DEF LoadsInv, Nobody
<1>3. \A k \in Loaders : k # l => loader'[k] = loader[k]
    BY <1>1
<1>4. loader'[l].pc = "builtin"
    BY <1>1 DEF LoaderType
<1> QED
    BY <1>1, <1>2, <1>3, <1>4 DEF LoadsInv

LEMMA LoadsReadInv ==
    ASSUME RegistryTypeOK, LoadsInv, NEW l \in Loaders, ReadBuiltin(l) \/ ReadCustom(l)
    PROVE  LoadsInv'
<1>1. loader \in [Loaders -> LoaderType] /\ UNCHANGED <<files, lock, unread, loaded>> /\ OnDisk' = OnDisk
    BY DEF RegistryTypeOK, LoaderType, ReadBuiltin, ReadCustom, OnDisk
<1>2. loader[l].pc \in {"builtin", "custom"} /\ lock = l /\ l # Nobody
    BY RegistryConstants DEF LoadsInv, ReadBuiltin, ReadCustom, Nobody
<1>3. \A k \in Loaders : k # l => loader'[k] = loader[k] /\ loader[k].pc \notin {"builtin", "custom", "swap"}
    BY <1>1, <1>2 DEF LoadsInv, ReadBuiltin, ReadCustom
<1>4. LoadDue' <=> LoadDue
    <2>1. loader'[l].pc \in {"custom", "swap"}
        BY <1>1 DEF ReadBuiltin, ReadCustom, LoaderType
    <2> QED
        BY <1>2, <1>3, <2>1 DEF LoadDue
<1>5. CASE ReadBuiltin(l)
    <2>1. loader'[l].pc = "custom" /\ loader'[l].read = MergeDir(NoFiles, files["builtin"])
        BY <1>1, <1>5 DEF ReadBuiltin, LoaderType
    <2>2. MergeDir(loader'[l].read, files["custom"]) = OnDisk
        BY <2>1, MergedIsOnDisk DEF RegistryTypeOK, Dirs
    <2>3. \A k \in Loaders : k # l => loader'[k].pc \notin {"builtin", "custom", "swap"}
        BY <1>3
    <2> QED
        BY <1>1, <1>2, <2>1, <2>2, <2>3 DEF LoadsInv, MergeDir
<1>6. CASE ReadCustom(l)
    <2>1. loader'[l].pc = "swap" /\ loader'[l].read = MergeDir(loader[l].read, files["custom"])
        BY <1>1, <1>6 DEF ReadCustom, LoaderType
    <2>2. ~unread => loader'[l].read = OnDisk \/ LoadDue
        BY <1>6, <2>1 DEF LoadsInv, ReadCustom
    <2>3. \A k \in Loaders : k # l => loader'[k].pc \notin {"builtin", "custom", "swap"}
        BY <1>3
    <2> QED
        BY <1>1, <1>2, <1>4, <2>1, <2>2, <2>3 DEF LoadsInv
<1> QED
    BY <1>5, <1>6

LEMMA LoadsEndInv ==
    ASSUME RegistryTypeOK, LoadsInv, NEW l \in Loaders, Swap(l) \/ LoadFails(l)
    PROVE  LoadsInv'
<1>1. /\ loader \in [Loaders -> LoaderType] /\ UNCHANGED files /\ OnDisk' = OnDisk
      /\ loader' = [loader EXCEPT ![l] = NoLoader] /\ lock' = Nobody
    BY DEF RegistryTypeOK, LoaderType, Swap, LoadFails, OnDisk
<1>2. loader[l].pc \in {"builtin", "custom", "swap"} /\ lock = l
    BY DEF LoadsInv, Swap, LoadFails
<1>3. \A k \in Loaders : loader'[k].pc \notin {"builtin", "custom", "swap"}
    BY <1>1, <1>2 DEF LoadsInv, NoLoader
<1>4. LoadDue' <=> LoadDue
    BY <1>1, <1>2 DEF LoadDue, NoLoader
<1>5. ~unread' => loaded' = OnDisk' \/ LoadDue'
    BY <1>1, <1>4 DEF Swap, LoadFails, LoadsInv
<1> QED
    BY <1>3, <1>5 DEF LoadsInv

LEMMA LoadsEditInv ==
    ASSUME RegistryTypeOK, LoadsInv, NEW t \in Templates, EditFile(t) PROVE LoadsInv'
BY DEF LoadsInv, EditFile, RegistryTypeOK

LEMMA LoadsRestartInv == ASSUME RegistryTypeOK, RestartRegistry PROVE LoadsInv'
<1>1. loader' = [l \in Loaders |-> NoLoader] /\ loaded' = OnDisk'
    BY RestartTypes DEF RestartRegistry
<1> QED
    BY <1>1 DEF LoadsInv, NoLoader

LEMMA LoadsStep ==
    ASSUME RegistryTypeOK, LoadsInv, [RegistryNext]_registryVars
    PROVE  LoadsInv'
<1>1. CASE UNCHANGED <<files, loaded, lock, loader, unread>>
    BY <1>1 DEF LoadsInv, LoadDue, OnDisk, MergeDir
<1>2. ASSUME NEW r \in Reconcilers, RecStep(r) PROVE UNCHANGED <<files, loaded, lock, loader, unread>>
    BY <1>2 DEF RecStep, RecBegin, RecList, RecNext, RecOrphans, RecDone, RecReturn, RecFails, RecTake,
       RecUpsert, RecOff
<1>3. RowStep => UNCHANGED <<files, loaded, lock, loader, unread>>
    BY DEF RowStep, DeleteAllInactive, SetActiveByID, DeleteEntry, DeleteEnds
<1>4. ASSUME NEW l \in Loaders, AskReload(l) \/ Loading(l) \/ LoadFails(l) PROVE LoadsInv'
    BY <1>4, LoadsAskInv, LoadsLockInv, LoadsReadInv, LoadsEndInv DEF Loading
<1>5. ASSUME NEW t \in Templates, EditFile(t) \/ \E l \in Loaders : CreateCustom(l, t) \/ DeleteCustom(l, t)
      PROVE  LoadsInv'
    BY <1>5, LoadsAskInv, LoadsEditInv
<1> QED
    BY <1>1, <1>2, <1>3, <1>4, <1>5, RegistryMoves, LoadsRestartInv DEF registryVars

LEMMA LoadsInit == ASSUME RegistryInit PROVE LoadsInv
<1>1. files["custom"] = NoFiles
    BY DEF RegistryInit, Exported
<1>2. loaded = OnDisk
    BY <1>1 DEF RegistryInit, OnDisk, MergeDir, NoFiles, NoFile
<1> QED
    BY <1>2 DEF RegistryInit, LoadsInv, NoLoader

\* Once every load and write of a file has ended, the map of templates is that of the
\* files, unless a file was edited behind it or a load failed: no late reload
\* brings back an older map.
THEOREM MapIsOfTheFiles == RegistrySpec => []LoadedIsOnDisk
<1>1. RegistryInit => RegistryTypeOK /\ LoadsInv
    BY RegistryTypeInit, LoadsInit
<1>2. RegistryTypeOK /\ LoadsInv /\ [RegistryNext]_registryVars => (RegistryTypeOK /\ LoadsInv)'
    BY RegistryTypeStep, LoadsStep
<1>3. LoadsInv => LoadedIsOnDisk
    BY DEF LoadsInv, LoadDue, LoadedIsOnDisk
<1> QED
    BY <1>1, <1>2, <1>3, PTL DEF RegistrySpec

-----------------------------------------------------------------------------
(* Templates: what a reconciliation has settled *)

\* x a reconciliation, e an entry, R the rows: x is done with the template of e, or
\* at it; and declares the entry.
Past(x, e)     == x.map[e[1]].cards # {} /\ e[1] \notin x.todo
Declared(x, e) == e[2] \in x.map[e[1]].cards

\* What is left to do concerns the templates that it should.
Work(x) ==
    /\ x.pc = "upsert" => (\A e \in x.set : Declared(x, e)) /\ \A e \in x.off : Past(x, e)
    /\ x.pc = "off" => \A e \in x.off : Past(x, e) /\ ~Declared(x, e)
    /\ x.pc = "orphans" => x.todo = {} /\ \A e \in x.off : x.map[e[1]] = NoFile
    /\ x.pc = "done" => x.todo = {}

Settled(x, e, R) ==
    /\ x.pc \in {"next", "off", "orphans", "done"} /\ Past(x, e) /\ Declared(x, e) => R[e] = "on"
    /\ x.pc \in {"next", "orphans", "done"} /\ Past(x, e) /\ ~Declared(x, e) => R[e] # "on"
    /\ x.pc = "off" /\ Past(x, e) /\ ~Declared(x, e) => R[e] # "on" \/ e \in x.off
    /\ x.pc = "upsert" /\ e \in x.off /\ Declared(x, e) => R[e] = "on" \/ e \in x.set
    /\ x.pc = "upsert" /\ e \notin x.off /\ Past(x, e) => (R[e] = "on" <=> Declared(x, e))
    /\ x.pc = "orphans" /\ x.map[e[1]] = NoFile => R[e] # "on" \/ e \in x.off
    /\ x.pc = "done" /\ x.map[e[1]] = NoFile => R[e] # "on"

Own(x, R) == Work(x) /\ \A e \in x.quiet : Settled(x, e, R)

\* Rows that others write are no longer spoken of.
LEMMA OwnQuiet ==
    ASSUME NEW x \in ReconType, NEW E, NEW R, NEW S, Own(x, R), \A e \in Entries \ E : S[e] = R[e]
    PROVE  Own([x EXCEPT !.quiet = @ \ E], S)
<1> DEFINE y == [x EXCEPT !.quiet = @ \ E]
<1>1. /\ y.pc = x.pc /\ y.map = x.map /\ y.todo = x.todo /\ y.set = x.set /\ y.off = x.off
      /\ y.quiet = x.quiet \ E /\ x.quiet \subseteq Entries
    BY DEF ReconType
<1> HIDE DEF y
<1>2. Work(y)
    BY <1>1 DEF Own, Work, Past, Declared
<1>3. ASSUME NEW e \in y.quiet PROVE Settled(y, e, S)
    <2>1. e \in x.quiet /\ S[e] = R[e]
        BY <1>1, <1>3
    <2> QED
        BY <1>1, <2>1 DEF Own, Settled, Past, Declared
<1> QED
    BY <1>2, <1>3 DEF Own, y

LEMMA OwnBegin == ASSUME NEW map \in Map, NEW R PROVE Own(Begin(map), R)
<1>1. /\ Begin(map).pc = "next" /\ Begin(map).map = map /\ Begin(map).quiet = Entries
      /\ Begin(map).todo = {t \in Templates : map[t].state = "good"}
    BY DEF Begin, NoRecon
<1>2. \A t \in Templates : map[t].cards # {} => map[t].state = "good"
    BY DEF Map, NoFile, Good
<1>3. \A e \in Entries : ~Past(Begin(map), e)
    BY <1>1, <1>2 DEF Past, Entries
<1> QED
    BY <1>1, <1>3 DEF Own, Work, Settled

LEMMA OwnTook ==
    ASSUME NEW x \in ReconType, NEW R, NEW t \in x.todo, x.pc = "next", Own(x, R)
    PROVE  Own(Took(x, t), R)
<1>1. PICK y : y = Took(x, t)
    OBVIOUS
<1>2. /\ y.map = x.map /\ y.todo = x.todo \ {t} /\ y.quiet = x.quiet /\ x.quiet \subseteq Entries
      /\ x.map[t].cards \in SUBSET Cards
    BY <1>1 DEF Took, ReconType, Map, NoFile, Good
<1>3. CASE x.map[t].cards = {}
    <2>1. y.pc = "next"
        BY <1>1, <1>3 DEF Took, ReconType
    <2>2. \A e \in x.quiet : Past(y, e) => Past(x, e)
        BY <1>2, <1>3 DEF Past
    <2> QED
        BY <1>1, <1>2, <2>1, <2>2 DEF Own, Work, Settled, Declared
<1>4. CASE x.map[t].cards # {}
    <2>1. y.pc = "upsert" /\ y.set = {t} \X x.map[t].cards /\ y.off = {t} \X Cards
        BY <1>1, <1>4 DEF Took, ReconType
    <2>2. Work(y)
        BY <1>2, <1>4, <2>1 DEF Work, Past, Declared
    <2>3. ASSUME NEW e \in y.quiet PROVE Settled(y, e, R)
        <3>1. e \in Entries /\ e = <<e[1], e[2]>> /\ e[2] \in Cards
            BY <1>2 DEF Entries
        <3>2. CASE e[1] = t
            <4>1. e \in y.off /\ (Declared(y, e) => e \in y.set)
                BY <1>2, <2>1, <3>1, <3>2 DEF Declared
            <4> QED
                BY <2>1, <4>1 DEF Settled
        <3>3. CASE e[1] # t
            <4>1. e \notin y.off /\ (Past(y, e) <=> Past(x, e)) /\ (Declared(y, e) <=> Declared(x, e))
                BY <1>2, <2>1, <3>3 DEF Past, Declared
            <4>2. Settled(x, e, R)
                BY <1>2 DEF Own
            <4> QED
                BY <2>1, <4>1, <4>2 DEF Settled
        <3> QED
            BY <3>2, <3>3
    <2> QED
        BY <1>1, <2>2, <2>3 DEF Own
<1> QED
    BY <1>3, <1>4

LEMMA OwnUpserted ==
    ASSUME NEW x \in ReconType, NEW R, NEW e \in x.set, x.pc = "upsert", Own(x, R),
           R \in [Entries -> {"none", "on", "off"}]
    PROVE  Own(Upserted(x, e), [R EXCEPT ![e] = "on"])
<1>0. PICK S : S = [R EXCEPT ![e] = "on"]
    OBVIOUS
<1>1. PICK y : y = Upserted(x, e)
    OBVIOUS
<1>2. /\ y.pc = x.pc /\ y.map = x.map /\ y.todo = x.todo /\ y.set = x.set \ {e} /\ y.off = x.off
      /\ y.quiet = x.quiet /\ x.quiet \subseteq Entries
    BY <1>1 DEF Upserted, ReconType
<1>3. Work(y)
    BY <1>2 DEF Own, Work, Past, Declared
<1>4. ASSUME NEW f \in y.quiet PROVE Settled(y, f, S)
    <2>1. Settled(x, f, R) /\ (f = e => S[f] = "on") /\ (f # e => S[f] = R[f]) /\ Declared(x, e)
        BY <1>0, <1>2 DEF Own, Work
    <2>2. (Past(y, f) <=> Past(x, f)) /\ (Declared(y, f) <=> Declared(x, f))
        BY <1>2 DEF Past, Declared
    <2> QED
        BY <1>2, <2>1, <2>2 DEF Settled
<1> QED
    BY <1>0, <1>1, <1>3, <1>4 DEF Own

LEMMA OwnListed ==
    ASSUME NEW x \in ReconType, x.pc = "upsert", x.set = {}, Own(x, rows)
    PROVE  Own(Listed(x), rows)
<1>1. PICK y : y = Listed(x)
    OBVIOUS
<1>2. /\ y.pc = "off" /\ y.map = x.map /\ y.todo = x.todo /\ y.quiet = x.quiet /\ x.quiet \subseteq Entries
      /\ y.off = {e \in x.off \cap On : e[2] \notin x.map[e[1]].cards}
    BY <1>1 DEF Listed, ReconType
<1>3. Work(y)
    BY <1>2 DEF Own, Work, Past, Declared
<1>4. ASSUME NEW e \in y.quiet PROVE Settled(y, e, rows)
    <2>1. Settled(x, e, rows) /\ (rows[e] = "on" => e \in On)
        BY <1>2 DEF Own, On
    <2>2. (Past(y, e) <=> Past(x, e)) /\ (Declared(y, e) <=> Declared(x, e))
        BY <1>2 DEF Past, Declared
    <2> QED
        BY <1>2, <2>1, <2>2 DEF Settled, Declared
<1> QED
    BY <1>1, <1>3, <1>4 DEF Own

LEMMA OwnOffed ==
    ASSUME NEW x \in ReconType, NEW R, NEW S, NEW e \in x.off, x.pc \in {"off", "orphans"}, Own(x, R),
           S[e] # "on", \A f \in Entries \ {e} : S[f] = R[f]
    PROVE  Own(Offed(x, e), S)
<1>1. PICK y : y = Offed(x, e)
    OBVIOUS
<1>2. /\ y.pc = x.pc /\ y.map = x.map /\ y.todo = x.todo /\ y.off = x.off \ {e}
      /\ y.quiet = x.quiet /\ x.quiet \subseteq Entries
    BY <1>1 DEF Offed, ReconType
<1>3. Work(y)
    BY <1>2 DEF Own, Work, Past, Declared
<1>4. Past(x, e) => ~Declared(x, e)
    BY DEF Own, Work, Past, NoFile
<1>5. ASSUME NEW f \in y.quiet PROVE Settled(y, f, S)
    <2>1. Settled(x, f, R) /\ (f # e => S[f] = R[f])
        BY <1>2 DEF Own
    <2>2. (Past(y, f) <=> Past(x, f)) /\ (Declared(y, f) <=> Declared(x, f))
        BY <1>2 DEF Past, Declared
    <2> QED
        BY <1>2, <1>4, <2>1, <2>2 DEF Settled
<1> QED
    BY <1>1, <1>3, <1>5 DEF Own

LEMMA OwnOrphans ==
    ASSUME NEW x \in ReconType, x.pc = "next", x.todo = {}, Own(x, rows)
    PROVE  Own(Orphans(x), rows)
<1>1. PICK y : y = Orphans(x)
    OBVIOUS
<1>2. /\ y.pc = "orphans" /\ y.map = x.map /\ y.todo = x.todo /\ y.quiet = x.quiet
      /\ x.quiet \subseteq Entries /\ y.off = {e \in On : x.map[e[1]] = NoFile}
    BY <1>1 DEF Orphans, ReconType
<1>3. Work(y)
    BY <1>2 DEF Work
<1>4. ASSUME NEW e \in y.quiet PROVE Settled(y, e, rows)
    <2>1. Settled(x, e, rows) /\ (rows[e] = "on" => e \in On)
        BY <1>2 DEF Own, On
    <2>2. (Past(y, e) <=> Past(x, e)) /\ (Declared(y, e) <=> Declared(x, e))
        BY <1>2 DEF Past, Declared
    <2> QED
        BY <1>2, <2>1, <2>2 DEF Settled
<1> QED
    BY <1>1, <1>3, <1>4 DEF Own

\* The template is done with, and all of them are.
LEMMA OwnMoved ==
    ASSUME NEW x \in ReconType, NEW R, NEW pc, Own(x, R), x.off = {},
           \/ x.pc = "off" /\ pc = "next"
           \/ x.pc = "orphans" /\ pc = "done"
    PROVE  Own(Moved(x, pc), R)
<1>1. PICK y : y = Moved(x, pc)
    OBVIOUS
<1>2. y.pc = pc /\ y.map = x.map /\ y.todo = x.todo /\ y.quiet = x.quiet
    BY <1>1 DEF Moved, ReconType
<1>3. Work(y)
    BY <1>2 DEF Own, Work
<1>4. ASSUME NEW e \in y.quiet PROVE Settled(y, e, R)
    <2>1. Settled(x, e, R)
        BY <1>2 DEF Own
    <2>2. (Past(y, e) <=> Past(x, e)) /\ (Declared(y, e) <=> Declared(x, e))
        BY <1>2 DEF Past, Declared
    <2> QED
        BY <1>2, <2>1, <2>2 DEF Settled
<1> QED
    BY <1>1, <1>3, <1>4 DEF Own

ReconInv == \A r \in Reconcilers : Own(recon[r], rows)

LEMMA OwnIdle == ASSUME NEW R PROVE Own(NoRecon, R)
BY DEF Own, Work, NoRecon

\* A step that moves one reconciliation and writes no row.
LEMMA OneMoves ==
    ASSUME RegistryTypeOK, ReconInv, NEW r \in Reconcilers, NEW x, OneRecon(r, x), Own(x, rows), UNCHANGED rows
    PROVE  ReconInv'
<1>1. recon \in [Reconcilers -> ReconType]
    BY DEF RegistryTypeOK, ReconType
<1>2. recon'[r] = x /\ \A q \in Reconcilers \ {r} : recon'[q] = recon[q]
    BY <1>1 DEF OneRecon
<1>3. ASSUME NEW q \in Reconcilers PROVE Own(recon'[q], rows)
    BY <1>2 DEF ReconInv
<1>4. ASSUME NEW q \in Reconcilers PROVE Own(recon[q], rows)'
    <2>1. Own(recon'[q], rows')
        BY <1>3
    <2> QED
        BY <2>1 DEF Own, Work, Settled, Past, Declared
<1> QED
    BY <1>4 DEF ReconInv

\* A step that writes one row besides.
LEMMA OneWrites ==
    ASSUME RegistryTypeOK, ReconInv, NEW r \in Reconcilers, NEW x, NEW e \in Entries, NEW v,
           OneReconOf(r, x, e), rows' = [rows EXCEPT ![e] = v], Own(x, rows')
    PROVE  ReconInv'
<1>1. recon \in [Reconcilers -> ReconType] /\ \A f \in Entries \ {e} : rows'[f] = rows[f]
    BY DEF RegistryTypeOK, ReconType
<1>2. /\ recon'[r] = x
      /\ \A q \in Reconcilers \ {r} : recon'[q] = [recon[q] EXCEPT !.quiet = @ \ {e}]
    BY DEF OneReconOf
<1>3. ASSUME NEW q \in Reconcilers PROVE Own(recon'[q], rows')
    <2>1. CASE q = r
        BY <1>2, <2>1
    <2>2. CASE q # r
        <3>1. recon[q] \in ReconType /\ Own(recon[q], rows) /\ \A f \in Entries \ {e} : rows'[f] = rows[f]
            BY <1>1 DEF ReconInv
        <3> DEFINE E == {e}
        <3>2. \A f \in Entries \ E : rows'[f] = rows[f]
            BY <3>1
        <3> HIDE DEF E
        <3>3. Own([recon[q] EXCEPT !.quiet = @ \ E], rows')
            BY ONLY <3>1, <3>2, OwnQuiet
        <3> QED
            BY <1>2, <2>2, <3>3 DEF E
    <2> QED
        BY <2>1, <2>2
<1>4. ASSUME NEW q \in Reconcilers PROVE Own(recon[q], rows)'
    BY <1>3 DEF Own, Work, Settled, Past, Declared
<1> QED
    BY <1>4 DEF ReconInv

LEMMA ReconStepInv ==
    ASSUME RegistryTypeOK, ReconInv, NEW r \in Reconcilers, RecStep(r)
    PROVE  ReconInv'
<1>1. recon[r] \in ReconType /\ Own(recon[r], rows) /\ loaded \in Map
    BY DEF RegistryTypeOK, ReconType, ReconInv
<1>2. CASE RecBegin(r)
    BY <1>1, <1>2, ReconSteps, OwnBegin, OneMoves DEF RecBegin
<1>3. ASSUME NEW t \in Templates, RecTake(r, t) PROVE ReconInv'
    <2>1. Own(Took(recon[r], t), rows)
        BY <1>1, <1>3, OwnTook DEF RecTake
    <2> QED
        BY <1>3, <2>1, ReconSteps, OneMoves DEF RecTake
<1>4. ASSUME NEW e \in Entries, RecUpsert(r, e) PROVE ReconInv'
    <2>1. rows' = [rows EXCEPT ![e] = "on"] /\ e \in recon[r].set /\ recon[r].pc = "upsert"
        BY <1>4 DEF RecUpsert
    <2>2. Own(Upserted(recon[r], e), [rows EXCEPT ![e] = "on"])
        BY <1>1, <2>1, OwnUpserted DEF RegistryTypeOK
    <2>3. Own(Upserted(recon[r], e), rows')
        BY <2>1, <2>2
    <2>4. OneReconOf(r, Upserted(recon[r], e), e)
        BY <1>4, ReconSteps
    <2> QED
        BY <2>1, <2>3, <2>4, OneWrites
<1>5. ASSUME NEW e \in Entries, RecOff(r, e) PROVE ReconInv'
    <2>1. PICK v : v # "on" /\ rows' = [rows EXCEPT ![e] = v]
        BY <1>5 DEF RecOff
    <2>2. rows'[e] # "on" /\ \A f \in Entries \ {e} : rows'[f] = rows[f]
        BY <2>1 DEF RegistryTypeOK
    <2>3. e \in recon[r].off /\ recon[r].pc \in {"off", "orphans"}
        BY <1>5 DEF RecOff
    <2>4. Own(Offed(recon[r], e), rows')
        BY ONLY <1>1, <2>2, <2>3, OwnOffed
    <2>5. OneReconOf(r, Offed(recon[r], e), e)
        BY <1>5, ReconSteps
    <2> QED
        BY <2>1, <2>4, <2>5, OneWrites
<1>6. CASE RecList(r)
    BY <1>1, <1>6, ReconSteps, OwnListed, OneMoves DEF RecList
<1>7. CASE RecOrphans(r)
    BY <1>1, <1>7, ReconSteps, OwnOrphans, OneMoves DEF RecOrphans
<1>8. CASE RecNext(r)
    <2>1. Own(Moved(recon[r], "next"), rows)
        BY <1>1, <1>8, OwnMoved DEF RecNext
    <2> QED
        BY <1>8, <2>1, ReconSteps, OneMoves DEF RecNext
<1>9. CASE RecDone(r)
    <2>1. Own(Moved(recon[r], "done"), rows)
        BY <1>1, <1>9, OwnMoved DEF RecDone
    <2> QED
        BY <1>9, <2>1, ReconSteps, OneMoves DEF RecDone
<1>10. CASE RecReturn(r) \/ RecFails(r)
    BY <1>10, ReconSteps, OwnIdle, OneMoves DEF RecReturn, RecFails
<1> QED
    BY <1>2, <1>3, <1>4, <1>5, <1>6, <1>7, <1>8, <1>9, <1>10 DEF RecStep

LEMMA TouchInv ==
    ASSUME RegistryTypeOK, ReconInv, NEW E, Touch(E), \A e \in Entries \ E : rows'[e] = rows[e]
    PROVE  ReconInv'
<1>1. recon \in [Reconcilers -> ReconType]
    BY DEF RegistryTypeOK, ReconType
<1>2. ASSUME NEW q \in Reconcilers PROVE Own(recon'[q], rows')
    <2>1. recon'[q] = [recon[q] EXCEPT !.quiet = @ \ E]
        BY DEF Touch
    <2>2. recon[q] \in ReconType /\ Own(recon[q], rows) /\ \A e \in Entries \ E : rows'[e] = rows[e]
        BY <1>1 DEF ReconInv
    <2>3. Own([recon[q] EXCEPT !.quiet = @ \ E], rows')
        BY ONLY <2>2, OwnQuiet
    <2> QED
        BY <2>1, <2>3
<1>3. ASSUME NEW q \in Reconcilers PROVE Own(recon[q], rows)'
    BY <1>2 DEF Own, Work, Settled, Past, Declared
<1> QED
    BY <1>3 DEF ReconInv

LEMMA RowStepInv == ASSUME RegistryTypeOK, ReconInv, RowStep PROVE ReconInv'
<1>1. CASE DeleteAllInactive
    <2>1. PICK gone \in SUBSET Entries :
            rows' = [e \in Entries |-> IF e \in gone THEN "none" ELSE rows[e]] /\ Touch(gone)
        BY <1>1 DEF DeleteAllInactive
    <2> QED
        BY <2>1, TouchInv
<1>2. ASSUME NEW e \in Entries, SetActiveByID(e) \/ DeleteEnds(e) PROVE ReconInv'
    <2>1. Touch({e}) /\ \A f \in Entries \ {e} : rows'[f] = rows[f]
        BY <1>2 DEF SetActiveByID, DeleteEnds, RegistryTypeOK
    <2> QED
        BY <2>1, TouchInv
<1>3. ASSUME NEW e \in Entries, DeleteEntry(e) PROVE ReconInv'
    <2>1. UNCHANGED <<rows, recon>>
        BY <1>3 DEF DeleteEntry
    <2> QED
        BY <2>1 DEF ReconInv, Own, Work, Settled, Past, Declared
<1> QED
    BY <1>1, <1>2, <1>3 DEF RowStep

LEMMA ReconRestartInv == ASSUME RegistryTypeOK, RestartRegistry PROVE ReconInv'
<1>1. loaded' \in Map
    BY RestartTypes DEF RegistryTypeOK
<1>2. ASSUME NEW q \in Reconcilers PROVE Own(recon'[q], rows')
    <2>1. recon'[q] = Begin(loaded') \/ recon'[q] = NoRecon
        BY DEF RestartRegistry
    <2> QED
        BY <1>1, <2>1, OwnBegin, OwnIdle
<1>3. ASSUME NEW q \in Reconcilers PROVE Own(recon[q], rows)'
    BY <1>2 DEF Own, Work, Settled, Past, Declared
<1> QED
    BY <1>3 DEF ReconInv

LEMMA ReconInvStep ==
    ASSUME RegistryTypeOK, ReconInv, [RegistryNext]_registryVars
    PROVE  ReconInv'
<1>1. CASE UNCHANGED <<rows, recon>>
    BY <1>1 DEF ReconInv, Own, Work, Settled, Past, Declared
<1>2. ASSUME NEW l \in Loaders, AskReload(l) \/ Loading(l) \/ LoadFails(l) PROVE UNCHANGED <<rows, recon>>
    BY <1>2 DEF AskReload, Loading, WriteCustom, Lock, ReadBuiltin, ReadCustom, Swap, LoadFails
<1>3. ASSUME NEW t \in Templates, EditFile(t) \/ \E l \in Loaders : CreateCustom(l, t) \/ DeleteCustom(l, t)
      PROVE  UNCHANGED <<rows, recon>>
    BY <1>3 DEF EditFile, CreateCustom, DeleteCustom
<1> QED
    BY <1>1, <1>2, <1>3, RegistryMoves, ReconStepInv, RowStepInv, ReconRestartInv DEF registryVars

\* A reconciliation that ends has left every row that no one else wrote meanwhile as
\* the templates it listed have it, whatever others wrote, loaded or deleted.
THEOREM ReconciliationsSettle == RegistrySpec => []ReconcileSettles
<1>1. RegistryInit => RegistryTypeOK /\ ReconInv
    BY RegistryTypeInit, OwnIdle DEF RegistryInit, ReconInv
<1>2. RegistryTypeOK /\ ReconInv /\ [RegistryNext]_registryVars => (RegistryTypeOK /\ ReconInv)'
    BY RegistryTypeStep, ReconInvStep
<1>3. ReconInv => ReconcileSettles
    BY DEF ReconInv, Own, Work, Settled, Past, Declared, ReconcileSettles
<1> QED
    BY <1>1, <1>2, <1>3, PTL DEF RegistrySpec

-----------------------------------------------------------------------------
(* Digest: the calendar *)

LEMMA LeapYears ==
    ASSUME NEW y \in Nat, y >= 1
    PROVE  LeapsUpTo(y) = LeapsUpTo(y - 1) + (IF Leap(y) THEN 1 ELSE 0)
BY Z3 DEF LeapsUpTo, Leap

LEMMA YearLength ==
    ASSUME NEW y \in Nat, y >= 2018
    PROVE  /\ NewYear(y) \in Nat
           /\ NewYear(y) >= 365 * (y - 2018)
           /\ NewYear(y + 1) = NewYear(y) + 365 + (IF Leap(y) THEN 1 ELSE 0)
<1>1. LeapsUpTo(y) = LeapsUpTo(y - 1) + (IF Leap(y) THEN 1 ELSE 0)
    BY LeapYears
<1>2. LeapsUpTo(y - 1) \in Int /\ LeapsUpTo(2017) \in Int /\ LeapsUpTo(y - 1) >= LeapsUpTo(2017)
    BY DEF LeapsUpTo
<1>3. y + 1 - 1 = y
    OBVIOUS
<1> QED
    BY <1>1, <1>2, <1>3 DEF NewYear

LEMMA LaterNewYear ==
    ASSUME NEW y \in Nat, NEW z \in Nat, 2018 <= y, y < z
    PROVE  NewYear(y + 1) <= NewYear(z)
BY DEF NewYear, LeapsUpTo

\* The four hundred years, the hundred, the four and the one that hold day d.
LEMMA YearExists ==
    ASSUME NEW d \in Nat
    PROVE  \E y \in 2018 .. 2018 + (d \div 365) : NewYear(y) <= d /\ d < NewYear(y + 1)
<1>1. PICK a \in Nat, r \in Nat : d + 6209 = 146097 * a + r /\ r < 146097
    <2>1. /\ (d + 6209) \div 146097 \in Nat /\ (d + 6209) % 146097 \in Nat /\ (d + 6209) % 146097 < 146097
          /\ d + 6209 = 146097 * ((d + 6209) \div 146097) + ((d + 6209) % 146097)
        OBVIOUS
    <2> QED
        BY <2>1
<1>2. PICK b \in 0 .. 3, s \in Nat : r = 36524 * b + s /\ s <= 36524 /\ (b # 3 => s < 36524)
    <2>1. CASE r < 36524
        BY <2>1
    <2>2. CASE 36524 <= r /\ r < 73048
        <3>1. r - 36524 \in Nat /\ r - 36524 <= 36523 /\ r = 36524 * 1 + (r - 36524)
            BY <2>2
        <3> QED
            BY <3>1
    <2>3. CASE 73048 <= r /\ r < 109572
        <3>1. r - 73048 \in Nat /\ r - 73048 <= 36523 /\ r = 36524 * 2 + (r - 73048)
            BY <2>3
        <3> QED
            BY <3>1
    <2>4. CASE 109572 <= r
        <3>1. r - 109572 \in Nat /\ r - 109572 <= 36524 /\ r = 36524 * 3 + (r - 109572)
            BY <1>1, <2>4
        <3> QED
            BY <3>1
    <2> QED
        BY <2>1, <2>2, <2>3, <2>4
<1>3. PICK c \in 0 .. 24, t \in Nat : s = 1461 * c + t /\ t < 1461
    <2>1. s \div 1461 \in 0 .. 24 /\ s % 1461 \in Nat /\ s % 1461 < 1461 /\ s = 1461 * (s \div 1461) + (s % 1461)
        BY <1>2
    <2> QED
        BY <2>1
<1>4. PICK k \in 0 .. 3, u \in Nat : t = 365 * k + u /\ u <= 365 /\ (k # 3 => u < 365)
    <2>1. CASE t < 365
        BY <2>1
    <2>2. CASE 365 <= t /\ t < 730
        <3>1. t - 365 \in Nat /\ t - 365 <= 364 /\ t = 365 * 1 + (t - 365)
            BY <2>2
        <3> QED
            BY <3>1
    <2>3. CASE 730 <= t /\ t < 1095
        <3>1. t - 730 \in Nat /\ t - 730 <= 364 /\ t = 365 * 2 + (t - 730)
            BY <2>3
        <3> QED
            BY <3>1
    <2>4. CASE 1095 <= t
        <3>1. t - 1095 \in Nat /\ t - 1095 <= 365 /\ t = 365 * 3 + (t - 1095)
            BY <1>3, <2>4
        <3> QED
            BY <3>1
    <2> QED
        BY <2>1, <2>2, <2>3, <2>4
<1> DEFINE y == 2001 + 400 * a + 100 * b + 4 * c + k
<1>5. y \in Nat
    OBVIOUS
<1>6. LeapsUpTo(y - 1) = 500 + 100 * a + 25 * b + c - (20 + 4 * a + b) + 5 + a
    <2>1. /\ (y - 1) \div 4 = 500 + 100 * a + 25 * b + c
          /\ (y - 1) \div 100 = 20 + 4 * a + b
          /\ (y - 1) \div 400 = 5 + a
        OBVIOUS
    <2> QED
        BY <2>1 DEF LeapsUpTo
<1>7. LeapsUpTo(2017) = 489
    BY DEF LeapsUpTo
<1>8. NewYear(y) = 365 * (y - 2018) + (485 + 97 * a + 24 * b + c) - 489
    BY <1>5, <1>6, <1>7 DEF NewYear
<1>9. NewYear(y) = d - u
    BY <1>1, <1>2, <1>3, <1>4, <1>8
<1>10. y >= 2018
    BY <1>1, <1>2, <1>3, <1>4
<1>11. u = 365 => Leap(y)
    <2>1. SUFFICES ASSUME u = 365 PROVE Leap(y)
        OBVIOUS
    <2>2. k = 3 /\ t = 1460
        BY <1>4, <2>1
    <2>3. c = 24 => b = 3
        BY <1>2, <1>3, <2>2
    <2>4. y = 400 * a + 100 * b + 4 * c + 2004
        BY <2>2
    <2>5. y % 4 = 0
        BY <2>4
    <2>6. CASE c = 24
        BY <2>3, <2>4, <2>5, <2>6 DEF Leap
    <2>7. CASE c # 24
        <3>1. y % 100 # 0
            BY <2>4, <2>7
        <3> QED
            BY <2>5, <3>1 DEF Leap
    <2> QED
        BY <2>6, <2>7
<1>12. d < NewYear(y + 1) /\ NewYear(y) <= d /\ NewYear(y) >= 365 * (y - 2018)
    <2> HIDE DEF y
    <2>1. NewYear(y + 1) = NewYear(y) + 365 + (IF Leap(y) THEN 1 ELSE 0) /\ NewYear(y) >= 365 * (y - 2018)
        BY <1>5, <1>10, YearLength
    <2> QED
        BY <1>4, <1>9, <1>11, <2>1
<1>13. y \in 2018 .. 2018 + (d \div 365)
    <2> HIDE DEF y
    <2>1. 365 * (y - 2018) <= d
        BY <1>5, <1>9, <1>12
    <2> QED
        BY <1>5, <1>10, <2>1
<1> QED
    BY <1>12, <1>13

LEMMA YearHolds ==
    ASSUME NEW d \in Nat
    PROVE  Year(d) \in Nat /\ Year(d) >= 2018 /\ NewYear(Year(d)) <= d /\ d < NewYear(Year(d) + 1)
<1> DEFINE P(y) == NewYear(y) <= d /\ d < NewYear(y + 1)
           S == 2018 .. 2018 + (d \div 365)
<1>1. \E y \in S : P(y)
    BY YearExists
<1>2. Year(d) = CHOOSE y \in S : P(y)
    BY DEF Year
<1>3. Year(d) \in S /\ P(Year(d))
    <2> HIDE DEF P, S
    <2> QED
        BY <1>1, <1>2
<1> QED
    BY <1>3

LEMMA YearIs ==
    ASSUME NEW d \in Nat, NEW y \in Nat, y >= 2018, NewYear(y) <= d, d < NewYear(y + 1)
    PROVE  Year(d) = y
<1>1. PICK z \in Nat : z = Year(d)
    BY YearHolds
<1>2. z >= 2018 /\ NewYear(z) <= d /\ d < NewYear(z + 1)
    BY <1>1, YearHolds
<1>3. NewYear(y) \in Nat /\ NewYear(z) \in Nat
    BY <1>2, YearLength
<1>4. NewYear(y + 1) \in Int /\ NewYear(z + 1) \in Int
    BY <1>2, <1>3, YearLength
<1>5. ~(y < z)
    <2>1. y < z => NewYear(y + 1) <= NewYear(z)
        BY LaterNewYear
    <2> QED
        BY <1>2, <1>3, <1>4, <2>1
<1>6. ~(z < y)
    <2>1. z < y => NewYear(z + 1) <= NewYear(y)
        BY <1>2, LaterNewYear
    <2> QED
        BY <1>2, <1>3, <1>4, <2>1
<1> QED
    BY <1>1, <1>5, <1>6

LEMMA MonthsElapsed ==
    /\ Elapsed[1] = 0 /\ Elapsed[2] = 31 /\ Elapsed[3] = 59 /\ Elapsed[4] = 90
    /\ Elapsed[5] = 120 /\ Elapsed[6] = 151 /\ Elapsed[7] = 181 /\ Elapsed[8] = 212
    /\ Elapsed[9] = 243 /\ Elapsed[10] = 273 /\ Elapsed[11] = 304 /\ Elapsed[12] = 334
BY DEF Elapsed

LEMMA FirstsOfMonths ==
    ASSUME NEW y \in Nat, y >= 2018
    PROVE  /\ \A m \in 1 .. 12 : FirstOf(y, m) \in Nat
           /\ FirstOf(y, 1) = NewYear(y)
<1>1. NewYear(y) \in Nat
    BY YearLength
<1>2. \A m \in 1 .. 12 : Elapsed[m] \in Nat
    <2> SUFFICES ASSUME NEW m \in 1 .. 12 PROVE Elapsed[m] \in Nat
        OBVIOUS
    <2>1. \/ m = 1 \/ m = 2 \/ m = 3 \/ m = 4 \/ m = 5 \/ m = 6
          \/ m = 7 \/ m = 8 \/ m = 9 \/ m = 10 \/ m = 11 \/ m = 12
        OBVIOUS
    <2> QED
        BY <2>1, MonthsElapsed
<1>3. FirstOf(y, 1) = NewYear(y)
    BY <1>1, MonthsElapsed DEF FirstOf
<1> QED
    BY <1>1, <1>2, <1>3 DEF FirstOf

LEMMA MonthHolds ==
    ASSUME NEW d \in Nat
    PROVE  /\ Month(d) \in 1 .. 12
           /\ FirstOf(Year(d), Month(d)) <= d
           /\ Month(d) = 12 \/ d < FirstOf(Year(d), Month(d) + 1)
<1> DEFINE P(m) == FirstOf(Year(d), m) <= d /\ (m = 12 \/ d < FirstOf(Year(d), m + 1))
           S == 1 .. 12
<1>1. \E m \in S : P(m)
    <2> DEFINE First(m) == FirstOf(Year(d), m)
    <2>0. Year(d) \in Nat /\ Year(d) >= 2018 /\ NewYear(Year(d)) <= d
        BY YearHolds
    <2>1. First(1) <= d
        BY <2>0, FirstsOfMonths
    <2>2. \A m \in 1 .. 12 : First(m) \in Nat
        BY <2>0, FirstsOfMonths
    <2>3. P(12) \/ d < First(12)
        BY <2>2
    <2> HIDE DEF First
    <2>4. \A m \in 1 .. 11 : P(m) \/ ~(First(m) <= d) \/ First(m + 1) <= d
        <3> SUFFICES ASSUME NEW m \in 1 .. 11 PROVE P(m) \/ ~(First(m) <= d) \/ First(m + 1) <= d
            OBVIOUS
        <3>1. First(m) \in Nat /\ First(m + 1) \in Nat
            BY <2>2
        <3> QED
            BY <3>1 DEF First
    <2> HIDE DEF P
    <2>5. \/ \E m \in S : P(m)
          \/ /\ First(2) <= d /\ First(3) <= d /\ First(4) <= d /\ First(5) <= d /\ First(6) <= d
             /\ First(7) <= d /\ First(8) <= d /\ First(9) <= d /\ First(10) <= d /\ First(11) <= d
             /\ First(12) <= d
        BY <2>1, <2>4
    <2> QED
        BY <2>2, <2>3, <2>5
<1>2. Month(d) = CHOOSE m \in S : P(m)
    BY DEF Month
<1>3. Month(d) \in S /\ P(Month(d))
    <2> HIDE DEF P, S
    <2> QED
        BY <1>1, <1>2
<1> QED
    BY <1>3

-----------------------------------------------------------------------------
(* Digest: types *)

LEMMA HoursInDays ==
    ASSUME NEW h \in Nat
    PROVE  /\ h \div HoursPerDay \in Nat /\ h % HoursPerDay \in Hours
           /\ h = (h \div HoursPerDay) * HoursPerDay + (h % HoursPerDay)
<1>1. PICK n \in Nat \ {0} : n = HoursPerDay
    BY DigestConstants
<1>2. h \div n \in Nat /\ h % n \in 0 .. n - 1 /\ h = (h \div n) * n + (h % n)
    BY SMTT(30)
<1> QED
    BY <1>1, <1>2 DEF Hours

LEMMA SchedulesAreSchedules == Schedules \cup {Default} \subseteq Schedule
<1>1. HoursPerDay - 1 \in Hours
    BY DigestConstants DEF Hours
<1>2. Default \in Schedule
    BY <1>1 DEF Default, Schedule, Frequencies
<1> QED
    BY <1>2, DigestConstants

LEMMA DigestTypeInit == ASSUME DigestInit PROVE DigestTypeOK
<1>1. PICK d \in Starts : start = d /\ clock = d * HoursPerDay
    BY DEF DigestInit
<1>2. PICK n \in Nat \ {0} : n = HoursPerDay
    BY DigestConstants
<1>3. clock \in Nat /\ clock >= n /\ start \in Starts
    <2>1. PICK e \in Nat \ {0} : e = d
        BY DigestConstants
    <2>2. e * n \in Nat /\ e * n >= n
        <3>1. e * n = (e - 1) * n + n /\ (e - 1) * n >= 0
            BY SMTT(30)
        <3> QED
            BY <3>1
    <2> QED
        BY <1>1, <1>2, <2>1, <2>2
<1> QED
    BY <1>2, <1>3, DigestConstants DEF DigestInit, DigestTypeOK, NoDay

LEMMA UTCDays == ASSUME DigestTypeOK PROVE UTCDay \in Nat
<1>1. PICK n \in Nat \ {0} : n = HoursPerDay
    BY DigestConstants
<1>2. clock - offset \in Nat
    BY <1>1 DEF DigestTypeOK, Zones
<1> QED
    BY <1>2, HoursInDays DEF UTCDay

LEMMA DigestTypeStep ==
    ASSUME DigestTypeOK, [DigestNext]_digestVars
    PROVE  DigestTypeOK'
<1>1. Today \in Nat /\ UTCDay \in Nat
    BY HoursInDays, UTCDays DEF DigestTypeOK, Today
<1>2. schedule.freq \in Frequencies
    BY SchedulesAreSchedules DEF DigestTypeOK, Schedule
<1>3. CASE UNCHANGED digestVars
    BY <1>3 DEF DigestTypeOK, digestVars
<1>4. CASE HourPasses
    BY <1>4, DigestConstants DEF HourPasses, Passes, Buffered, DigestTypeOK
<1>5. CASE ZoneTurns
    BY <1>5, DigestConstants DEF ZoneTurns, Turn, Passes, Buffered, DigestTypeOK
<1>6. ASSUME NEW first \in BOOLEAN, Run(first) PROVE DigestTypeOK'
    <2>1. mail' \in {NoMail} \cup [freq : Frequencies, day : Nat, utc : Nat, by : {"job", "user"}]
        BY <1>1, <1>2, <1>6 DEF Run, DigestTypeOK
    <2>2. last' \in Nat \cup {NoDay} /\ job' \in {"waits", "due", "idle", "sends", "sendsFirst"} /\ ticks' \in 0 .. 1
        BY <1>1, <1>6 DEF Run, DigestTypeOK
    <2> QED
        BY <1>6, <2>1, <2>2 DEF Run, DigestTypeOK
<1>7. CASE SendMail
    BY <1>7 DEF SendMail, DigestTypeOK
<1>8. ASSUME NEW s \in Schedules, PutSchedule(s) PROVE DigestTypeOK'
    BY <1>8, DigestConstants DEF PutSchedule, Turn, DigestTypeOK
<1>9. CASE PutSMTP \/ ServerTurns \/ RestartDigest
    BY <1>9, DigestConstants DEF PutSMTP, ServerTurns, RestartDigest, Turn, DigestTypeOK
<1>10. ASSUME NEW freq \in Frequencies, SendNow(freq) PROVE DigestTypeOK'
    <2>1. mail' \in {NoMail} \cup [freq : Frequencies, day : Nat, utc : Nat, by : {"job", "user"}]
        BY <1>1, <1>10 DEF SendNow
    <2> QED
        BY <1>10, <2>1, DigestConstants DEF SendNow, Turn, DigestTypeOK
<1> QED
    BY <1>3, <1>4, <1>5, <1>6, <1>7, <1>8, <1>9, <1>10 DEF DigestNext

\* The clock, the job, its ticker and the mail keep their types.
THEOREM DigestTypeCorrect == DigestSpec => []DigestTypeOK
BY DigestTypeInit, DigestTypeStep, PTL DEF DigestSpec

-----------------------------------------------------------------------------
(* Digest: one of a period *)

\* The job's last digest is of a day of the schedule, in its hour or later; in that
\* very hour no run is left to begin.
SentInItsHour ==
    /\ last # NoDay =>
        /\ ShouldSendToday(schedule, last)
        /\ \/ last * HoursPerDay + schedule.hour < clock
           \/ last * HoursPerDay + schedule.hour = clock /\ job # "due" /\ ticks = 0
    /\ job = "due" => ticks = 0

LEMMA SentInit == DigestInit => SentInItsHour
BY DEF DigestInit, SentInItsHour

LEMMA RunKeepsSent == ASSUME DigestTypeOK, SentInItsHour, NEW first \in BOOLEAN, Run(first) PROVE SentInItsHour'
<1>1. job' # "due" /\ UNCHANGED <<clock, schedule>>
    BY Run(first) DEF Run
<1>2. CASE Scheduled(schedule)
    <2>1. last' = Today /\ ticks' = 0
        BY <1>2 DEF Run, SentInItsHour, DigestTypeOK
    <2>2. clock = Today * HoursPerDay + schedule.hour /\ ShouldSendToday(schedule, Today)
        BY <1>2, HoursInDays DEF Scheduled, ThisHour, Today, DigestTypeOK
    <2>3. ShouldSendToday(schedule, Today)' = ShouldSendToday(schedule, Today)
        BY <1>1 DEF Today
    <2> QED
        BY <1>1, <2>1, <2>2, <2>3 DEF SentInItsHour
<1>3. CASE ~Scheduled(schedule)
    <2>1. UNCHANGED last
        BY <1>3 DEF Run
    <2>2. ~(job # "due" /\ ticks = 0)
        BY DEF Run, DigestTypeOK
    <2>3. last # NoDay => last * HoursPerDay + schedule.hour < clock
        BY <2>2 DEF SentInItsHour
    <2> QED
        BY <1>1, <2>1, <2>3 DEF SentInItsHour
<1> QED
    BY <1>2, <1>3

LEMMA SentStep ==
    ASSUME DigestTypeOK, SentInItsHour, [DigestNext]_digestVars
    PROVE  SentInItsHour'
<1>1. ASSUME NEW first \in BOOLEAN, Run(first) PROVE SentInItsHour'
    BY <1>1, RunKeepsSent
<1>2. CASE HourPasses
    <2>1. UNCHANGED <<last, schedule>> /\ clock' = clock + 1 /\ (job' = "due" => ticks' = 0)
        BY <1>2 DEF HourPasses, Passes
    <2>2. last # NoDay => last * HoursPerDay + schedule.hour < clock + 1
        <3>1. SUFFICES ASSUME last # NoDay PROVE last * HoursPerDay + schedule.hour < clock + 1
            OBVIOUS
        <3>2. PICK x \in Int : x = last * HoursPerDay + schedule.hour
            BY SchedulesAreSchedules, DigestConstants DEF DigestTypeOK, Schedule, Hours, NoDay
        <3>3. x < clock \/ x = clock
            BY <3>1, <3>2 DEF SentInItsHour
        <3> QED
            BY <3>2, <3>3 DEF DigestTypeOK
    <2> QED
        BY <2>1, <2>2 DEF SentInItsHour
<1>3. CASE ZoneTurns
    BY <1>3 DEF ZoneTurns, Passes, SentInItsHour
<1>4. ASSUME NEW s \in Schedules, PutSchedule(s) PROVE SentInItsHour'
    BY <1>4 DEF PutSchedule, SentInItsHour
<1>5. CASE SendMail \/ RestartDigest
    BY <1>5 DEF SendMail, RestartDigest, SentInItsHour
<1>6. CASE UNCHANGED <<clock, schedule, job, ticks, last>>
    BY <1>6 DEF SentInItsHour
<1>7. CASE PutSMTP \/ ServerTurns \/ UNCHANGED digestVars \/ \E freq \in Frequencies : SendNow(freq)
    BY <1>6, <1>7 DEF PutSMTP, ServerTurns, SendNow, digestVars
<1> QED
    BY <1>1, <1>2, <1>3, <1>4, <1>5, <1>7 DEF DigestNext

\* Two days in one week, or in one month, on which one schedule is due are one day.
LEMMA DueOnceInAPeriod ==
    ASSUME NEW s \in Schedule, NEW d \in Nat, NEW e \in Nat,
           ShouldSendToday(s, d), ShouldSendToday(s, e), SamePeriod(s.freq, d, e)
    PROVE  d = e
<1>1. s.freq \in {"daily", "weekly", "monthly"}
    BY DEF Schedule, Frequencies
<1>2. CASE s.freq = "daily"
    BY <1>2 DEF SamePeriod
<1>3. CASE s.freq = "weekly"
    <2>1. (d + 1) % 7 = (e + 1) % 7 /\ d \div 7 = e \div 7
        BY <1>3 DEF SamePeriod, ShouldSendToday, Weekday
    <2> QED
        BY <2>1
<1>4. CASE s.freq = "monthly"
    <2>1. PICK f : f = FirstOf(Year(d), Month(d))
        OBVIOUS
    <2>2. f \in Nat
        <3>1. Year(d) \in Nat /\ Year(d) >= 2018 /\ Month(d) \in 1 .. 12
            BY YearHolds, MonthHolds
        <3> QED
            BY <2>1, <3>1, FirstsOfMonths
    <2>3. d - f + 1 = s.dom /\ e - f + 1 = s.dom
        BY <1>4, <2>1 DEF SamePeriod, ShouldSendToday
    <2> QED
        BY <2>2, <2>3
<1> QED
    BY <1>1, <1>2, <1>3, <1>4

\* Whatever the schedule, the day it starts on and the bounds: restarts and sends that last
\* for days make no second digest of a period.
THEOREM DigestsAreOnce == DigestSpec => OncePerPeriod
<1> DEFINE Once == (\E first \in BOOLEAN : Run(first)) /\ Scheduled(schedule) /\ last # NoDay
                       => ~SamePeriod(schedule.freq, last, Today)
<1>1. ASSUME DigestTypeOK, SentInItsHour
      PROVE  Once
    <2> SUFFICES ASSUME NEW first \in BOOLEAN, Run(first), Scheduled(schedule), last # NoDay,
                        SamePeriod(schedule.freq, last, Today)
                 PROVE  FALSE
        OBVIOUS
    <2>1. schedule \in Schedule /\ last \in Nat /\ Today \in Nat
        BY <1>1, HoursInDays, SchedulesAreSchedules DEF DigestTypeOK, Today
    <2>2. last = Today
        BY <1>1, <2>1, DueOnceInAPeriod DEF Scheduled, SentInItsHour
    <2>3. clock = Today * HoursPerDay + schedule.hour
        BY <1>1, HoursInDays DEF Scheduled, ThisHour, Today, DigestTypeOK
    <2>4. job = "due" \/ ticks > 0
        BY DEF Run
    <2>5. ~(last * HoursPerDay + schedule.hour < clock)
        <3>1. PICK x \in Nat : x = clock
            BY <1>1 DEF DigestTypeOK
        <3>2. last * HoursPerDay + schedule.hour = x
            BY <2>2, <2>3, <3>1
        <3> QED
            BY <3>1, <3>2
    <2> QED
        BY <1>1, <2>4, <2>5 DEF SentInItsHour, DigestTypeOK
<1>2. DigestTypeOK /\ SentInItsHour => [Once]_digestVars
    BY <1>1
<1> HIDE DEF Once
<1>3. DigestSpec => [][Once]_digestVars
    BY <1>2, DigestTypeCorrect, SentInit, SentStep, PTL DEF DigestSpec
<1> QED
    BY <1>3, PTL DEF OncePerPeriod, Once

-----------------------------------------------------------------------------
(* Digest: its window *)

LEMMA FourthOfJanuary ==
    ASSUME NEW y \in Nat, y >= 2018
    PROVE  ISOWeek(NewYear(y) + 3) = 1
<1> DEFINE j == NewYear(y) + 3
           t == j - (j % 7) + 3
<1>1. NewYear(y) \in Nat /\ NewYear(y + 1) \in Nat /\ NewYear(y) + 365 <= NewYear(y + 1)
    BY YearLength
<1>2. t \in Nat /\ NewYear(y) <= t /\ t < NewYear(y) + 7
    BY <1>1
<1>3. ISOYear(j) = y
    <2>1. Year(t) = y
        <3> HIDE DEF t
        <3>1. NewYear(y) <= t /\ t < NewYear(y + 1)
            BY <1>1, <1>2
        <3> QED
            BY <1>2, <3>1, YearIs
    <2> QED
        BY <2>1 DEF ISOYear
<1>4. ISOWeek(j) = ((t - NewYear(y)) \div 7) + 1
    BY <1>1, <1>3 DEF ISOWeek
<1>5. (t - NewYear(y)) \div 7 = 0
    <2> HIDE DEF t
    <2> QED
        BY <1>1, <1>2
<1> QED
    BY <1>4, <1>5

\* The days count from a Monday.
WeekStart(d) == d - (d % 7)

LEMMA WeekWindow ==
    ASSUME NEW d \in Nat
    PROVE  LET w == PeriodTimeRange(PeriodLabel("weekly", d)) IN
           /\ w.since % 7 = 0 /\ w.until = w.since + 7
           /\ Year(d) = ISOYear(d) /\ Weekday(NewYear(Year(d)) + 3) # 0 => w.since = WeekStart(d)
<1> DEFINE l == PeriodLabel("weekly", d)
           w == PeriodTimeRange(l)
<1>1. PICK y \in Nat : y = Year(d)
    BY YearHolds
<1>2. PICK j \in Nat : j = NewYear(y) + 3
    BY <1>1, YearHolds, YearLength
<1>3. l = [of |-> "week", year |-> y, n |-> ISOWeek(d)]
    BY <1>1 DEF PeriodLabel
<1>4. w.since = j + (ISOWeek(d) - 1) * 7 - ((j + 1) % 7) + 1 /\ w.until = w.since + 7
    <2>1. ISOWeek(j) = 1
        BY <1>1, <1>2, YearHolds, FourthOfJanuary
    <2> QED
        BY <1>2, <1>3, <2>1 DEF PeriodTimeRange, Weekday
<1> DEFINE t == WeekStart(d) + 3
<1>5. t \in Nat
    BY DEF WeekStart
<1>6. PICK z \in Nat : z = ISOYear(d)
    <2>1. ISOYear(d) = Year(t)
        BY DEF ISOYear, WeekStart
    <2> QED
        BY <1>5, <2>1, YearHolds
<1>7. z >= 2018 /\ NewYear(z) \in Nat
    <2>1. z = Year(t)
        BY <1>6 DEF ISOYear, WeekStart
    <2>2. z >= 2018
        BY <1>5, <2>1, YearHolds
    <2> QED
        BY <2>2, YearLength
<1>8. PICK n \in Int : n = (t - NewYear(z)) \div 7
    BY <1>5, <1>7
<1>9. ISOWeek(d) = n + 1
    BY <1>5, <1>6, <1>7, <1>8 DEF ISOWeek, WeekStart
<1>10. w.since = j + n * 7 - ((j + 1) % 7) + 1
    <2>1. ISOWeek(d) - 1 = n
        BY <1>9
    <2> QED
        BY <1>4, <2>1
<1>11. w.since % 7 = 0
    <2> HIDE DEF w
    <2> QED
        BY <1>10
<1>12. ASSUME Year(d) = ISOYear(d), Weekday(NewYear(Year(d)) + 3) # 0
       PROVE  w.since = WeekStart(d)
    <2>1. y = z /\ (j + 1) % 7 # 0
        BY <1>1, <1>2, <1>6, <1>12 DEF Weekday
    <2>2. n = (t - (j - 3)) \div 7
        BY <1>2, <1>8, <2>1, <1>7
    <2>3. t % 7 = 3
        BY DEF WeekStart
    <2> HIDE DEF w, t
    <2>4. j + n * 7 - ((j + 1) % 7) + 1 = t - 3
        BY <1>5, <2>1, <2>2, <2>3
    <2> QED
        BY <1>10, <2>4 DEF t, WeekStart
<1> QED
    BY <1>4, <1>11, <1>12

LEMMA MonthWindow ==
    ASSUME NEW d \in Nat
    PROVE  LET w == PeriodTimeRange(PeriodLabel("monthly", d)) IN w.since <= d /\ d < w.until
<1>1. PICK y \in Nat : y = Year(d)
    BY YearHolds
<1>2. PICK m \in 1 .. 12 : m = Month(d)
    BY MonthHolds
<1>3. /\ FirstOf(y, m) <= d
      /\ m = 12 \/ d < FirstOf(y, m + 1)
      /\ d < NewYear(y + 1)
    BY <1>1, <1>2, MonthHolds, YearHolds
<1>4. FirstOf(y + 1, 1) = NewYear(y + 1)
    BY <1>1, YearHolds, FirstsOfMonths
<1>5. PeriodLabel("monthly", d) = [of |-> "month", year |-> y, n |-> m]
    BY <1>1, <1>2 DEF PeriodLabel
<1> DEFINE w == PeriodTimeRange(PeriodLabel("monthly", d))
<1>6. w.since = FirstOf(y, m) /\ w.until = FirstOf(y + (m \div 12), (m % 12) + 1)
    BY <1>5 DEF PeriodTimeRange
<1>7. CASE m = 12
    <2>1. y + (m \div 12) = y + 1 /\ (m % 12) + 1 = 1
        BY <1>7
    <2> QED
        BY <1>3, <1>4, <1>6, <2>1
<1>8. CASE m # 12
    <2>1. y + (m \div 12) = y /\ (m % 12) + 1 = m + 1
        BY <1>8
    <2> QED
        BY <1>3, <1>6, <1>8, <2>1
<1> QED
    BY <1>7, <1>8

\* Whatever day a digest is made on, in any year and zone: its window is that of the period
\* that holds the day, and the moment in UTC if that is of the same period, or it is a weekly
\* one of the two kinds of week the code gets wrong.
THEOREM WindowsHoldTheirDay == DigestSpec => []WindowHoldsToday
<1>1. DigestTypeOK => WindowHoldsToday
    <2> SUFFICES ASSUME DigestTypeOK, mail.day # NoDay PROVE WindowHoldsToday
        BY DEF WindowHoldsToday
    <2>1. mail.day \in Nat /\ mail.utc \in Nat /\ mail.freq \in {"daily", "weekly", "monthly"}
        BY DEF DigestTypeOK, Frequencies, NoMail
    <2>2. CASE mail.freq = "daily"
        <3>1. Window(mail) = [since |-> mail.day, until |-> mail.day + 1]
            BY <2>2 DEF Window, PeriodTimeRange, PeriodLabel
        <3>2. SamePeriod(mail.freq, mail.day, mail.utc) => mail.day = mail.utc
            BY <2>2 DEF SamePeriod
        <3> QED
            BY <2>1, <2>2, <3>1, <3>2 DEF WindowHoldsToday, Covers
    <2>3. CASE mail.freq = "weekly"
        <3>1. WeekStart(mail.day) <= mail.day /\ mail.day < WeekStart(mail.day) + 7
            BY <2>1 DEF WeekStart
        <3>2. Window(mail) = PeriodTimeRange(PeriodLabel("weekly", mail.day))
            BY <2>3 DEF Window
        <3>3. ASSUME SamePeriod(mail.freq, mail.day, mail.utc)
              PROVE  WeekStart(mail.day) <= mail.utc /\ mail.utc < WeekStart(mail.day) + 7
            <4>1. mail.day \div 7 = mail.utc \div 7
                BY <2>3, <3>3 DEF SamePeriod
            <4> QED
                BY <2>1, <4>1 DEF WeekStart
        <3> QED
            BY <2>1, <2>3, <3>1, <3>2, <3>3, WeekWindow DEF WindowHoldsToday, Covers
    <2>4. CASE mail.freq = "monthly"
        <3>1. Window(mail) = PeriodTimeRange(PeriodLabel("monthly", mail.day))
            BY <2>4 DEF Window
        <3>2. SamePeriod(mail.freq, mail.day, mail.utc)
                => PeriodLabel("monthly", mail.day) = PeriodLabel("monthly", mail.utc)
            BY <2>4 DEF SamePeriod, PeriodLabel
        <3> QED
            BY <2>1, <2>4, <3>1, <3>2, MonthWindow DEF WindowHoldsToday, Covers
    <2> QED
        BY <2>1, <2>2, <2>3, <2>4
<1> QED
    BY <1>1, DigestTypeCorrect, PTL

-----------------------------------------------------------------------------
(* Report *)

Sections == {"events", "checks", "apps", "infra", "updates", "resources"}

LEMMA OrderedSections == Len(Order) = 6 /\ \A n \in 1 .. Len(Order) : Order[n] \in Sections
<1>1. Len(Order) = 6
    BY DEF Order
<1>2. ASSUME NEW n \in 1 .. 6 PROVE Order[n] \in Sections
    <2>1. n = 1 \/ n = 2 \/ n = 3 \/ n = 4 \/ n = 5 \/ n = 6
        OBVIOUS
    <2> QED
        BY <2>1 DEF Order, Sections
<1> QED
    BY <1>1, <1>2

LEMMA BlankSections == DOMAIN Blank = Sections
BY DEF Blank, Sections

\* What a read leaves in its section, whether it fails or not.
LEMMA PartsAreFindings ==
    ASSUME NEW s \in Sections, NEW v \in Findings(s), NEW w \in Partial(s, v)
    PROVE  w \in Findings(s) \cup {Blank[s]}
<1>1. CASE s = "events"
    <2>1. Partial(s, v) = SUBSET v /\ Findings(s) = SUBSET Severities
        BY <1>1 DEF Partial, Findings
    <2> QED
        BY <2>1
<1>2. CASE s # "events"
    BY <1>2 DEF Partial
<1> QED
    BY <1>1, <1>2

LEMMA BlankTypes ==
    /\ 1 \in 1 .. Len(Order) + 1
    /\ \A s \in DOMAIN Blank : Blank[s] \in Findings(s) \cup {Blank[s]}
<1>1. PICK n : n = Len(Order)
    OBVIOUS
<1>2. 1 \in 1 .. n + 1
    BY <1>1, OrderedSections
<1> QED
    BY <1>1, <1>2

LEMMA ReportTypeInit == ReportInit => ReportTypeOK
BY BlankTypes DEF ReportInit, ReportTypeOK

LEMMA ReportTypeStep ==
    ASSUME ReportTypeOK, [ReportNext]_reportVars
    PROVE  ReportTypeOK'
<1>1. CASE UNCHANGED reportVars
    BY <1>1 DEF ReportTypeOK, reportVars
<1>2. CASE NextReport
    BY <1>2, BlankTypes DEF NextReport, ReportTypeOK
<1>3. CASE ReadSection
    <2>1. PICK s : s = Order[section]
        OBVIOUS
    <2>2. s \in Sections /\ DOMAIN sheet = Sections
        BY <1>3, <2>1, OrderedSections, BlankSections DEF ReadSection, ReportTypeOK
    <2>3. PICK w \in Findings(s) \cup {Blank[s]} : sheet' = [sheet EXCEPT ![s] = w] /\ lost' \in BOOLEAN
        <3>1. PICK v \in Findings(s) :
                \/ sheet' = [sheet EXCEPT ![s] = v] /\ lost' = lost
                \/ ReadsMayFail /\ lost' = TRUE /\ \E w \in Partial(s, v) : sheet' = [sheet EXCEPT ![s] = w]
            BY <1>3, <2>1 DEF ReadSection
        <3>2. CASE lost' = lost /\ sheet' = [sheet EXCEPT ![s] = v]
            BY <3>2 DEF ReportTypeOK
        <3>3. CASE lost' = TRUE /\ \E w \in Partial(s, v) : sheet' = [sheet EXCEPT ![s] = w]
            BY <2>2, <3>3, PartsAreFindings
        <3> QED
            BY <3>1, <3>2, <3>3
    <2>4. DOMAIN sheet' = DOMAIN Blank
        BY <2>3 DEF ReportTypeOK
    <2>5. \A q \in DOMAIN sheet' : sheet'[q] \in Findings(q) \cup {Blank[q]}
        BY <2>3 DEF ReportTypeOK
    <2>6. section' \in 1 .. Len(Order) + 1
        BY <1>3, OrderedSections DEF ReadSection, ReportTypeOK
    <2> QED
        BY <2>3, <2>4, <2>5, <2>6 DEF ReportTypeOK
<1> QED
    BY <1>1, <1>2, <1>3 DEF ReportNext

\* A section is read as it may be found, or is blank.
THEOREM ReportTypeCorrect == ReportSpec => []ReportTypeOK
BY ReportTypeInit, ReportTypeStep, PTL DEF ReportSpec

\* The average that makes a type healthy: few checks leave no room for a bad one.
LEMMA HealthyGroup ==
    ASSUME NEW g \in Group, GroupStatus(g) \notin {"warning", "down"}
    PROVE  /\ Total(g) < 20 => g.other = 0
           /\ Total(g) < 5 => g.warn = 0
<1>1. PICK u \in Nat, w \in Nat, o \in Nat : u = g.up /\ w = g.warn /\ o = g.other
    BY DEF Group
<1>2. PICK n \in Nat : n = Total(g) /\ n = u + w + o
    BY <1>1 DEF Total
<1>3. PICK sum \in Nat : sum = 100 * u + 75 * w
    OBVIOUS
<1>4. GroupStatus(g) =
        CASE n = 0 -> "none"
          [] n > 0 /\ sum >= 95 * n -> "healthy"
          [] n > 0 /\ sum < 95 * n /\ sum >= 75 * n -> "warning"
          [] OTHER -> "down"
    BY <1>1, <1>2, <1>3 DEF GroupStatus
<1>5. n = 0 \/ sum >= 95 * n
    BY <1>4
<1>6. (n < 20 => o = 0) /\ (n < 5 => w = 0)
    BY <1>2, <1>3, <1>5
<1> QED
    BY <1>1, <1>2, <1>6

\* Whatever the period held, and however many checks of however many types are counted.
THEOREM HealthyReportsAreHealthy == ReportSpec => []HealthyIsHealthy
<1>1. ASSUME ReportTypeOK, HealthStatus(sheet) = "healthy"
      PROVE  HealthyIsHealthy
    <2>1. ~Urgent(sheet) /\ ~Review(sheet)
        BY <1>1 DEF HealthStatus
    <2>2. sheet.infra # "offline" /\ ~sheet.apps /\ ~sheet.updates
        BY <2>1 DEF Review
    <2>3. sheet.events \subseteq {"info", "warn"}
        <3>1. sheet.events \in Findings("events") \cup {Blank.events}
            BY <1>1, BlankSections DEF ReportTypeOK, Sections
        <3>2. sheet.events \subseteq Severities
            BY <3>1 DEF Findings, Blank
        <3>3. "critical" \notin sheet.events /\ "error" \notin sheet.events
            BY <2>1 DEF Urgent, Review
        <3> QED
            BY <3>2, <3>3 DEF Severities
    <2>4. ASSUME NEW t \in Types
          PROVE  /\ Total(sheet.checks[t]) < 20 => sheet.checks[t].other = 0
                 /\ Total(sheet.checks[t]) < 5 => sheet.checks[t].warn = 0
        <3>1. sheet.checks \in Findings("checks") \cup {Blank.checks}
            BY <1>1, BlankSections DEF ReportTypeOK, Sections
        <3>2. sheet.checks[t] \in Groups \cup {NoChecks}
            BY <3>1 DEF Findings, Blank
        <3>3. sheet.checks[t] \in Group
            BY <3>2, ReportConstants DEF Group, NoChecks
        <3>4. GroupStatus(sheet.checks[t]) \notin {"warning", "down"}
            BY <2>1 DEF Urgent, Review, Statuses
        <3> QED
            BY <3>3, <3>4, HealthyGroup
    <2> QED
        BY <2>2, <2>3, <2>4 DEF HealthyIsHealthy
<1>2. ReportTypeOK => HealthyIsHealthy
    BY <1>1 DEF HealthyIsHealthy
<1> QED
    BY <1>2, ReportTypeCorrect, PTL

-----------------------------------------------------------------------------
(* Side by side *)

\* A step of the four is a step of each, or leaves it alone.
LEMMA TablesSteps ==
    ASSUME [TablesNext]_tablesVars
    PROVE  /\ [LinksNext]_linksVars /\ [RegistryNext]_registryVars
           /\ [DigestNext]_digestVars /\ [ReportNext]_reportVars
<1>1. CASE UNCHANGED tablesVars
    BY <1>1 DEF tablesVars
<1>2. CASE TablesNext
    BY <1>2 DEF TablesNext
<1> QED
    BY <1>1, <1>2

\* Whichever of the four moves, each behaves as it does alone: what is proved of each holds
\* where they are checked together.
THEOREM TablesKeepComponents == TablesSpec => LinksSpec /\ RegistrySpec /\ DigestSpec /\ ReportSpec
<1>1. TablesInit => LinksInit /\ RegistryInit /\ DigestInit /\ ReportInit
    BY DEF TablesInit
<1> QED
    BY <1>1, TablesSteps, PTL DEF TablesSpec, LinksSpec, RegistrySpec, DigestSpec, ReportSpec

\* Every variable of all of them keeps its type.
THEOREM TablesTypeCorrect == TablesSpec => []TablesTypeOK
<1>1. LinksTypeOK /\ RegistryTypeOK /\ DigestTypeOK /\ ReportTypeOK => TablesTypeOK
    BY DEF TablesTypeOK
<1> QED
    BY <1>1, TablesKeepComponents, LinksTypeCorrect, RegistryTypeCorrect, DigestTypeCorrect, ReportTypeCorrect, PTL
=============================================================================
