---------------------------- MODULE OverrideEditor ----------------------------
(***************************************************************************)
(* The native editor of package overrides: one event loop that handles     *)
(* keys and the messages of the commands it has started, which run         *)
(* meanwhile in goroutines: saves of the sidecar, validations (save, trial *)
(* build, check that the choices stayed current) and loads of upstream     *)
(* versions.  Other commands may change the sidecar or the staged          *)
(* deployment under the editor.                                            *)
(*                                                                         *)
(* Source: editor.go and endpoint_addresses.go of internal/overrideui.     *)
(* Texts, filters and the layout of the screens are left out; a local      *)
(* project is one choice, whose direct dependencies are Dependencies.      *)
(***************************************************************************)
EXTENDS Naturals, Sequences, FiniteSets

CONSTANTS
    PythonPackages,   \* names, numbers standing for their order
    Required,         \* of these, the ones the blueprint or its options require
    Dependencies,     \* the direct dependencies of a local project
    Trials,           \* the package sets a trial build may report
    Upstream,         \* the versions that packages have upstream
    SystemPackage,    \* an OS package that can be added
    MaxWork,          \* bound: edits, saves, validations and changes by others
    MaxLoads          \* bound: loads of versions in flight, catalogs known at a load

ASSUME EditorBounds ==
    /\ PythonPackages \subseteq Nat /\ Required \subseteq PythonPackages
    /\ SystemPackage \in Nat \ PythonPackages
    /\ {MaxWork, MaxLoads} \subseteq Nat

VARIABLES
    listed, found,        \* the items, and those marked as discovered
    choice,               \* per Python package: "none", "path" or a version
    settings,             \* base image, published address, workspace: overridden or not
    screen, cursor,       \* 0 is the row of the base image
    cache, pending,       \* packages whose upstream versions are known; are being loaded
    loads,                \* loads of versions in flight, per package
    dirty, validated, reported,
    original,             \* the snapshot that the editor believes is on disk
    sidecar,     \* what is on disk
    jobs,                 \* saves and validations in flight
    validating, abandoned,
    quit,
    edits, jobsMade, foreign,
    shown,                \* the dialog of versions lists some
    \* history: the list was not refreshed after the last change of what it
    \* follows from; the package a dialog was opened for and whether the list
    \* was stale then, or the workspace was changed from the dialog; an edit
    \* made while a save was in flight; the content that the last successful
    \* trial build was made from
    stale, target, late, overlap, built

editorVars == <<listed, found, choice, settings, screen, cursor, cache, pending, loads, dirty, validated,
                reported, original, sidecar, jobs, validating, abandoned, quit,
                edits, jobsMade, foreign, shown, stale, target, late, overlap, built>>

Packages == PythonPackages \cup {SystemPackage}
Explicit == Required \cup {SystemPackage}

\* buildRaw: what is written to the sidecar
RawOf(items, chosen, changed) ==
    [overrides |-> {<<p, chosen[p]>> : p \in {p \in items \ {SystemPackage} : chosen[p] # "none"}},
     additions |-> items \cap {SystemPackage},
     settings |-> changed, foreign |-> 0]
Raw == RawOf(listed, choice, settings)

\* sortOverrideItems
Before(p, q, marked) ==
    CASE (p \in Explicit) # (q \in Explicit) -> p \in Explicit
      [] (p \in marked) # (q \in marked) -> p \in marked
      [] OTHER -> p < q
Place(p, items) == Cardinality({q \in items : Before(q, p, found)}) + 1
Current == CHOOSE p \in listed : Place(p, listed) = cursor

\* refreshDiscoveredItems: what the last validation reported and what local
\* projects of explicit items depend on is listed; discovered items that are
\* not found any more go unless something was chosen for them.
Discovered(chosen, seen) ==
    seen \cup IF \E p \in listed \cap Required : chosen[p] = "path" THEN Dependencies ELSE {}
RefreshedList(items, marked, chosen, seen) ==
    LET d == Discovered(chosen, seen) IN
    {p \in items : p \in Explicit \/ p \in d \/ p \notin marked \/ chosen[p] # "none"} \cup d
RefreshedMarks(items, marked, chosen, seen) ==
    (RefreshedList(items, marked, chosen, seen) \cap Discovered(chosen, seen)) \ Explicit
Clamp(i, n) == IF i > n THEN n ELSE i

\* validateItems on a changed list: the item errors are computed when needed.
Refresh(items, chosen, seen) ==
    /\ listed' = RefreshedList(items, found, chosen, seen)
    /\ found' = RefreshedMarks(items, found, chosen, seen)
    /\ cursor' = Clamp(cursor, Cardinality(listed'))
    /\ stale' = FALSE

\* A version that upstream does not have is an error once the catalog is known.
ItemError(p) ==
    p \notin pending /\ p \in cache /\ choice[p] \notin {"none", "path"} \cup Upstream
NoErrors == \A p \in listed \ {SystemPackage} : ~ItemError(p)

\* The command that a save or a validation starts
Job(kind, exit) ==
    [n |-> jobsMade + 1, kind |-> kind, exit |-> exit, raw |-> Raw, save |-> kind = "save" \/ dirty,
     step |-> "new", base |-> original, saved |-> kind = "validation" /\ ~dirty, ok |-> TRUE]

\* newModel: the overrides that were saved, and whether a trial build of them
\* is still there (readEditorOpenState).  The command that opens the editor may
\* ask for a validation at once, which no error of an item prevents.
EditorOpens(chosen, usable, auto) ==
    /\ choice = chosen /\ validated = usable
    /\ reported = IF validated THEN Dependencies ELSE {}
    /\ listed = Required \cup reported \cup {p \in PythonPackages : choice[p] # "none"}
    /\ found = reported \ Required
    /\ settings = {}
    /\ screen = "main" /\ cursor = 1
    /\ cache = {}
    /\ pending = {p \in PythonPackages : choice[p] # "none"}
    /\ loads = [p \in PythonPackages |-> IF p \in pending THEN 1 ELSE 0]
    /\ dirty = FALSE
    /\ sidecar = Raw /\ original = sidecar
    /\ quit = FALSE /\ edits = 0 /\ jobsMade = (IF auto THEN 1 ELSE 0) /\ foreign = 0
    /\ jobs = (IF auto THEN {Job("validation", TRUE)} ELSE {}) /\ validating = auto /\ abandoned = FALSE
    /\ shown = FALSE /\ stale = FALSE /\ target = 0 /\ late = FALSE /\ overlap = FALSE /\ built = sidecar

EditorInit ==
    \E chosen \in [PythonPackages -> {"none", "9"}], usable \in BOOLEAN, auto \in BOOLEAN :
        /\ Cardinality({p \in PythonPackages : chosen[p] # "none"}) <= 1
        /\ EditorOpens(chosen, usable, auto)

-----------------------------------------------------------------------------
(* Groups of variables that an action leaves alone                          *)

model == <<listed, found, stale, choice, settings, dirty, validated, reported, edits, overlap>>
versions == <<cache, pending, loads>>
disk == <<sidecar, foreign, built>>
work == <<jobs, jobsMade, validating, abandoned, original>>
dialog == <<target, late, shown>>
view == <<screen, cursor, dialog>>

\* updateKey: a key reaches the screens while no validation is shown; the key
\* that closes the result of one that has ended is part of the next.
Key == ~quit /\ ~validating /\ UNCHANGED quit

\* A bug: an edit leaves the last validation standing.
EditedStillValid ==
    /\ edits + jobsMade + foreign < MaxWork /\ edits' = edits + 1
    /\ dirty' = TRUE /\ UNCHANGED <<validated, reported>>
    /\ overlap' = (jobs # {})

\* An edit: the model is dirty, and what was validated is not what it shows.
Edited ==
    /\ edits + jobsMade + foreign < MaxWork /\ edits' = edits + 1
    /\ dirty' = TRUE /\ validated' = FALSE /\ reported' = {}
    /\ overlap' = (jobs # {})

-----------------------------------------------------------------------------
(* The main screen and the settings                                         *)

\* updateMain, updatePath and updateVersion on the arrow keys
MoveCursor ==
    /\ Key /\ screen = "main"
    /\ \E i \in {cursor - 1, cursor + 1} \cap (0..Cardinality(listed)) : cursor' = i
    /\ UNCHANGED <<screen, dialog, model, versions, disk, work>>

\* The Escape key in the exit dialog
LeaveDialog ==
    /\ Key /\ screen = "exit" /\ screen' = "main"
    /\ UNCHANGED <<cursor, dialog, model, versions, disk, work>>

\* A dialog about settings, or about what to add, keeps nothing that a message
\* changes: opening it and its last key are one step.  setBaseImage and
\* setPublishedAddress ignore the same value and do not refresh the items,
\* although the packages of the last trial build are forgotten: "base" stands
\* for both.
SetPlain(s) ==
    /\ Key /\ screen = "main" /\ UNCHANGED screen
    /\ settings' = (IF s \in settings THEN settings \ {s} ELSE settings \cup {s})
    /\ Edited /\ stale' = TRUE
    /\ UNCHANGED <<listed, found, choice, cursor, dialog, versions, disk, work>>

\* updateWorkspace, from the main screen or by Ctrl+W from the dialog of local
\* projects, to which it returns (restoreWorkspaceReturn): the same value
\* counts as an edit too.
SetWorkspace ==
    /\ Key /\ screen \in {"main", "path"} /\ UNCHANGED screen
    /\ settings' \in {settings \ {"workspace"}, settings \cup {"workspace"}}
    /\ Edited /\ Refresh(listed, choice, {})
    /\ late' = (screen = "path")
    /\ UNCHANGED <<choice, target, shown, versions, disk, work>>

ChangeSettings == SetPlain("base") \/ SetWorkspace

-----------------------------------------------------------------------------
(* The choice for one package                                               *)

OpensFor(p) == target' = p /\ late' = stale /\ UNCHANGED shown
Closes == target' = 0 /\ late' = FALSE /\ shown' = FALSE

OpenChoose ==
    /\ Key /\ screen = "main" /\ cursor # 0 /\ Current # SystemPackage
    /\ screen' = "choose" /\ OpensFor(Current)
    /\ UNCHANGED <<cursor, model, versions, disk, work>>

\* updateAdd: a package that is listed is chosen, another one is added to the
\* list and chosen; an OS package is an edit at once.
AddPython ==
    /\ Key /\ screen = "main"
    /\ \E p \in PythonPackages :
         /\ listed' = listed \cup {p} /\ cursor' = Place(p, listed')
         /\ screen' = "choose" /\ OpensFor(p)
    /\ UNCHANGED <<found, stale, choice, settings, dirty, validated, reported, edits, overlap, versions, disk, work>>
AddSystem ==
    /\ Key /\ screen = "main" /\ UNCHANGED screen
    /\ IF SystemPackage \in listed
       THEN cursor' = Place(SystemPackage, listed)
            /\ UNCHANGED <<listed, found, stale, dirty, validated, reported, edits, overlap>>
       ELSE Edited /\ stale' = FALSE /\ listed' = RefreshedList(listed \cup {SystemPackage}, found, choice, {})
            /\ found' = RefreshedMarks(listed, found, choice, {})
            /\ cursor' = Clamp(Place(SystemPackage, listed \cup {SystemPackage}), Cardinality(listed'))
    /\ UNCHANGED <<choice, settings, dialog, versions, disk, work>>

\* resetCurrentOverride
ResetItem(p) ==
    LET chosen == IF p = SystemPackage THEN choice ELSE [choice EXCEPT ![p] = "none"] IN
    /\ Edited /\ choice' = chosen
    /\ Refresh(IF p \in Required THEN listed ELSE listed \ {p}, chosen, {})
    /\ pending' = pending \ {p}

Reset ==
    /\ Key /\ screen \in {"main", "choose"} /\ screen' = "main"
    /\ IF cursor = 0
       THEN /\ "base" \in settings /\ settings' = settings \ {"base"} /\ Edited /\ stale' = TRUE
            /\ UNCHANGED <<listed, found, choice, cursor, pending>>
       ELSE ResetItem(Current) /\ UNCHANGED settings
    /\ Closes /\ UNCHANGED <<cache, loads, disk, work>>

\* updateChoose on Escape: an item that was only typed is dropped again.
LeaveChoose ==
    /\ Key /\ screen = "choose" /\ screen' = "main"
    /\ IF cursor # 0 /\ Current \notin Required /\ choice[Current] = "none"
       THEN ResetItem(Current)
       ELSE UNCHANGED <<listed, found, stale, choice, dirty, validated, reported, edits, overlap, cursor, pending>>
    /\ Closes /\ UNCHANGED <<settings, cache, loads, disk, work>>

\* updateChoose on Enter: the dialog of local projects, or the one of upstream
\* versions, which loads those of the item the cursor is on after the refresh.
OpenPath ==
    /\ Key /\ screen = "choose" /\ screen' = "path"
    /\ UNCHANGED <<cursor, dialog, model, versions, disk, work>>
OpenVersion ==
    /\ Key /\ screen = "choose" /\ cursor # 0 /\ screen' = "version" /\ shown' = FALSE
    /\ IF choice[Current] \in {"none", "path"}
       THEN UNCHANGED <<pending, listed, found, stale, cursor>>
       ELSE pending' = pending \cup {Current} /\ Refresh(listed, choice, reported)
    /\ Cardinality(cache) < MaxLoads /\ \A p \in PythonPackages : loads[p] < MaxLoads
    /\ loads' = [p \in PythonPackages |-> IF cursor' # 0 /\ p = Current' THEN loads[p] + 1 ELSE loads[p]]
    /\ UNCHANGED <<choice, settings, dirty, validated, reported, edits, overlap, target, late, cache, disk, work>>
BackToChoose ==
    /\ Key /\ screen \in {"path", "version"} /\ screen' = "choose" /\ shown' = FALSE
    /\ UNCHANGED <<cursor, target, late, model, versions, disk, work>>

\* updatePath and updateVersion on Enter: the choice goes to the item that the
\* cursor is on, from the versions that are shown, or that typing would show.
Choose ==
    /\ Key /\ cursor # 0 /\ screen' = "main"
    /\ \E v \in IF screen = "path" THEN {"path"}
                ELSE IF screen = "version" /\ (shown \/ Current \in cache) THEN Upstream
                ELSE {} :
         /\ choice' = [choice EXCEPT ![Current] = v]
         /\ Edited /\ Refresh(listed, choice', {})
    /\ Closes /\ UNCHANGED <<settings, versions, disk, work>>

\* versionsLoadedMsg: the dialog shows them if its item is the one they are of,
\* and then the list is refreshed.
VersionsLoaded(p) ==
    /\ ~quit /\ loads[p] > 0 /\ loads' = [loads EXCEPT ![p] = @ - 1]
    /\ pending' = pending \ {p}
    /\ cache' \in {cache \cup {p}, cache \ {p}}
    /\ shown' = IF screen = "version" /\ cursor # 0 /\ p = Current THEN p \in cache' ELSE shown
    /\ Refresh(listed, choice, reported)
    /\ UNCHANGED <<choice, settings, dirty, validated, reported, edits, overlap, screen, target, late,
                   disk, work, quit>>

-----------------------------------------------------------------------------
(* Saves and validations                                                    *)

\* startSave by Ctrl+S on any screen, or from the exit dialog
StartSave(exit) ==
    /\ NoErrors /\ edits + jobsMade + foreign < MaxWork /\ jobsMade' = jobsMade + 1
    /\ jobs' = jobs \cup {Job("save", exit)}
    /\ Refresh(listed, choice, reported)
    /\ UNCHANGED <<choice, settings, dirty, validated, reported, edits, overlap, screen, dialog,
                   versions, disk, validating, abandoned, original>>
PressSave == Key /\ StartSave(FALSE)

\* startValidation from the main screen or from the exit dialog
StartValidation ==
    /\ Key /\ screen \in {"main", "exit"} /\ screen' = "main"
    /\ NoErrors /\ edits + jobsMade + foreign < MaxWork /\ jobsMade' = jobsMade + 1
    /\ \E exit \in (IF screen = "exit" THEN {TRUE} ELSE BOOLEAN) : jobs' = jobs \cup {Job("validation", exit)}
    /\ validating' = TRUE
    /\ Refresh(listed, choice, reported)
    /\ UNCHANGED <<choice, settings, dirty, validated, reported, edits, overlap, dialog,
                   versions, disk, abandoned, original>>

\* requestExit, updateExit
PressQuit ==
    /\ ~quit /\ ~validating /\ screen = "main"
    /\ IF validated /\ ~dirty THEN quit' = TRUE /\ UNCHANGED screen ELSE screen' = "exit" /\ UNCHANGED quit
    /\ UNCHANGED <<cursor, dialog, model, versions, disk, work>>
SaveAndExit ==
    /\ screen = "exit" /\ ~quit /\ ~validating
    /\ IF dirty THEN StartSave(TRUE) /\ UNCHANGED quit
       ELSE quit' = TRUE /\ UNCHANGED <<view, model, versions, disk, work>>

\* Two Ctrl+C in a row leave the editor, and change nothing: the behaviour
\* just ends there.  A validation is canceled first (updateValidationOverlay),
\* and its message is waited for.
CtrlC ==
    /\ ~quit /\ ~abandoned /\ validating /\ abandoned' = TRUE
    /\ UNCHANGED <<view, model, versions, disk, jobs, jobsMade, validating, original, quit>>

\* The command's goroutine reads the editor's snapshot when it starts.
Moves(j, k) == jobs' = (jobs \ {j}) \cup {k}
JobOpens(j) ==
    /\ j.step = "new"
    /\ Moves(j, [j EXCEPT !.base = original, !.step = IF j.save THEN "save" ELSE "build"])
    /\ UNCHANGED <<sidecar, foreign, built>>

\* saveSidecarAt, under the operation lock: the sidecar and the staged
\* deployment must be the ones the editor knows.
JobSaves(j) ==
    /\ j.step = "save"
    /\ LET failed == [j EXCEPT !.ok = FALSE, !.saved = FALSE, !.step = "done"] IN
       \/ /\ sidecar = j.base /\ sidecar' = j.raw
          /\ Moves(j, [j EXCEPT !.saved = TRUE, !.base = j.raw,
                                  !.step = IF j.kind = "save" THEN "done" ELSE "build"])
       \/ UNCHANGED sidecar /\ Moves(j, failed)
    /\ UNCHANGED <<foreign, built>>

\* The trial build takes what is on disk.
JobBuilds(j) ==
    /\ j.step = "build"
    /\ \E ok \in (IF abandoned THEN {FALSE} ELSE BOOLEAN) :
         /\ Moves(j, [j EXCEPT !.ok = ok, !.step = "check"])
         /\ built' = IF ok THEN sidecar ELSE built
    /\ UNCHANGED <<sidecar, foreign>>

\* readEditorSnapshot after the build; it fails too when it was canceled.
JobChecks(j) ==
    /\ j.step = "check"
    /\ Moves(j, IF ~abandoned /\ sidecar = j.base
                  THEN [j EXCEPT !.step = "done"]
                  ELSE [j EXCEPT !.ok = FALSE, !.saved = FALSE, !.step = "done"])
    /\ UNCHANGED <<sidecar, foreign, built>>

JobSteps ==
    /\ ~quit
    /\ \E j \in jobs : JobOpens(j) \/ JobSaves(j) \/ JobBuilds(j) \/ JobChecks(j)
    /\ UNCHANGED <<view, model, versions, jobsMade, validating, abandoned, original, quit>>

\* savedMsg
SavedMsg(j) ==
    /\ j.kind = "save" /\ j.step = "done"
    /\ IF j.ok THEN original' = j.base /\ dirty' = FALSE /\ quit' = j.exit
       ELSE UNCHANGED <<original, dirty, quit>>
    /\ UNCHANGED <<listed, found, stale, cursor, validated, reported, validating, abandoned>>

\* validatedMsg: the packages that the build reported are listed.
ValidatedMsg(j) ==
    /\ j.kind = "validation" /\ j.step = "done"
    /\ validating' = FALSE
    /\ IF abandoned
       THEN quit' = TRUE /\ UNCHANGED <<original, dirty, validated, reported, listed, found, stale, cursor>>
       ELSE /\ IF j.saved THEN original' = j.base /\ dirty' = FALSE ELSE UNCHANGED <<original, dirty>>
            /\ IF j.ok
               THEN /\ validated' = TRUE /\ reported' \in Trials
                    /\ Refresh(listed, choice, reported') /\ quit' = j.exit
               ELSE /\ validated' = FALSE /\ reported' = {} /\ stale' = TRUE
                    /\ UNCHANGED <<listed, found, cursor, quit>>
    /\ UNCHANGED abandoned

Deliver ==
    /\ ~quit
    /\ \E j \in jobs : (SavedMsg(j) \/ ValidatedMsg(j)) /\ jobs' = jobs \ {j}
    /\ UNCHANGED <<choice, settings, edits, overlap, screen, dialog, versions, disk, jobsMade>>

\* Another command writes the sidecar, or stages the deployment again.
ForeignChange ==
    /\ ~quit /\ edits + jobsMade + foreign < MaxWork /\ foreign' = foreign + 1
    /\ sidecar' = [sidecar EXCEPT !.foreign = foreign']
    /\ UNCHANGED <<view, model, versions, work, quit, built>>

EditorNext ==
    \/ MoveCursor \/ LeaveDialog \/ ChangeSettings
    \/ OpenChoose \/ AddPython \/ AddSystem \/ Reset \/ LeaveChoose
    \/ OpenPath \/ OpenVersion \/ BackToChoose \/ Choose
    \/ \E p \in PythonPackages : VersionsLoaded(p)
    \/ PressSave \/ StartValidation \/ PressQuit \/ SaveAndExit \/ CtrlC
    \/ JobSteps \/ Deliver \/ ForeignChange

EditorSpec == EditorInit /\ [][EditorNext]_editorVars

-----------------------------------------------------------------------------
(* Properties                                                               *)

Dialogs(s) == s \in {"choose", "path", "version"}
OnTarget == cursor # 0 /\ Current = target

EditorTypeOK ==
    /\ found \subseteq listed /\ listed \subseteq Packages
    /\ cursor \in 0..Cardinality(listed)
    /\ screen \in {"main", "choose", "path", "version", "exit"}
    /\ Cardinality(jobs) <= MaxWork /\ pending \subseteq PythonPackages

\* What the editor calls saved is what it last saw on disk: no edit is taken
\* for saved by a message of an earlier save, unless it was made while a save
\* was in flight.
CleanMeansSaved == ~dirty /\ ~overlap => Raw = original

\* Choices are reported as validated only if a trial build of exactly the
\* saved choices succeeded and nothing was edited since (RunWithResult);
\* another validation may be building meanwhile, and an editor that was canceled
\* reports so.
ValidatedMeansBuilt == validated /\ ~dirty /\ ~overlap /\ ~validating /\ ~abandoned => original = built

\* A choice is stored for the package whose dialog was opened, whatever
\* messages arrive and refresh the list meanwhile: the list follows from the
\* choices and the last trial build (refreshDiscoveredItems), so that a refresh
\* changes nothing, except after an edit or a failed validation that did not
\* refresh it (setBaseImage, validatedMsg), or when the workspace was changed
\* from the dialog.
EditsLand ==
    /\ ~stale => /\ listed = RefreshedList(listed, found, choice, reported)
                 /\ found = RefreshedMarks(listed, found, choice, reported)
    /\ Dialogs(screen) /\ ~late => OnTarget

\* One validation runs at a time, behind its overlay, so that its message is
\* never taken for another's.
OneValidation ==
    /\ Cardinality({j \in jobs : j.kind = "validation"}) <= 1
    /\ validating <=> \E j \in jobs : j.kind = "validation"

EditorSound ==
    /\ EditorTypeOK /\ CleanMeansSaved /\ ValidatedMeansBuilt /\ EditsLand /\ OneValidation

===============================================================================
