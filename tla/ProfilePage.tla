----------------------------- MODULE ProfilePage -----------------------------
(* The profile page: one draft in the controls, the profiles in the shared  *)
(* settings file, and the snapshot the running proxy hands to its clients.  *)
(* The page asks before it throws a draft away; its message boxes run a     *)
(* message loop in which the menu of the tray icon still works, and other   *)
(* instances of the program change the file at any time.                    *)
EXTENDS Naturals, FiniteSets

CONSTANTS Names,    \* profile names; FirstName is one of them
          FirstName, \* the name offered when there is no profile ("proxy")
          Strokes   \* bounds of a behaviour: steps of the user, of the tray, of others

(* "none" stands for no name, "empty" for an empty field.                   *)
ASSUME PageAssumption == FirstName \in Names /\ "none" \notin Names /\ "empty" \notin Names

VARIABLES left,     \* what is left of the bounds
          disk,     \* name -> the section proxy_<name> of the settings file
          form,     \* the controls and members of CPage1
          run,      \* m_runtimeLock's snapshot, the filters and the controller
          doing,    \* what StartProxy or ApplyRuntimeSettings does next
          asking,   \* the message box that is open
          edited,   \* ghost: the draft was edited since it was loaded or saved
          seen,     \* ghost: the draft as it was loaded or saved
          applied,  \* ghost: the draft that was started or applied last
          crossed   \* ghost: the tray started a profile while a box was open

pageVars == <<left, disk, form, run, doing, asking, edited, seen, applied, crossed>>

NoName == "none"
Empty == "empty"

(* A section can be read when it names an upstream (Load).  An HTTP profile *)
(* that asks for UDP ("odd") is shown without it by UpdateTransportEnable,  *)
(* a type that is no longer offered ("old") leaves the type empty.          *)
Contents == {"a", "b", "odd", "old", "broken"}
Loadable(c) == c \in Contents \ {"broken"}
Load(n) == Loadable(disk[n])
ShownAs(c) == CASE c = "odd" -> "a" [] c = "old" -> "bad" [] OTHER -> c
(* GetSettings and ValidateDnsRedirectSettings accept the draft.            *)
GetSettings == form.fields # "bad"
GetCurrentProfileName == IF form.selected # NoName THEN form.selected ELSE form.text

Step(step, goal) == [step |-> step, goal |-> goal]
Quiet == Step("idle", NoName)
NoQuestion == [op |-> NoName, name |-> NoName, previous |-> NoName]
PageIdle == doing = Quiet /\ asking = NoQuestion
Box(op, n) == [op |-> op, name |-> n, previous |-> form.draft]

(* How the page changes.  RefreshProfileNames lists what the file has and   *)
(* keeps a draft whose profile was removed elsewhere; it may fail to read.  *)
Sections == {n \in Names : disk[n] # NoName}
Refreshed(p) ==
  LET q == [p EXCEPT !.list = Sections,
                     !.selected = IF p.selected # NoName /\ p.text \in Sections THEN p.text ELSE NoName] IN
  IF p.loaded # NoName /\ p.loaded \notin Sections
  THEN [q EXCEPT !.loaded = NoName, !.draft = p.text, !.dirty = TRUE]
  ELSE q
RestoreProfileSelection(p) ==
  [p EXCEPT !.selected = IF p.loaded \in p.list THEN p.loaded ELSE NoName, !.text = p.draft]
UILoadCfgClean(p, n, c) ==   \* mutant: a running proxy is not told apart from the draft
  [p EXCEPT !.selected = IF n \in p.list THEN n ELSE NoName, !.text = n, !.draft = n, !.loaded = n,
            !.fields = ShownAs(c), !.dirty = FALSE]
UILoadCfg(p, n, c) ==
  [p EXCEPT !.selected = IF n \in p.list THEN n ELSE NoName, !.text = n, !.draft = n, !.loaded = n,
            !.fields = ShownAs(c), !.dirty = FALSE, !.runtimeDirty = p.runtimeDirty \/ run.running]
NewDraft(p, n, f) ==
  [p EXCEPT !.selected = NoName, !.text = n, !.draft = n, !.loaded = NoName,
            !.fields = f, !.dirty = TRUE, !.runtimeDirty = run.running]
Saved(p, n) ==
  [p EXCEPT !.list = @ \cup {n}, !.selected = n, !.text = n, !.draft = n, !.loaded = n, !.dirty = FALSE]

(* The page starts on the profile selected last, or on an empty draft.      *)
Blank == [list |-> {}, selected |-> NoName, text |-> Empty, draft |-> Empty, loaded |-> NoName,
          fields |-> "bad", dirty |-> FALSE, runtimeDirty |-> FALSE]
Stopped == [running |-> FALSE, valid |-> FALSE, info |-> NoName, settings |-> NoName, child |-> NoName,
            target |-> NoName, name |-> NoName]
OnInitDialog ==
  /\ run = Stopped /\ disk \in [Names -> {NoName, "a", "old", "broken"}]
  /\ \/ \E n \in Names : Load(n) /\ form = UILoadCfg([Blank EXCEPT !.list = {m \in Names : Load(m)}], n, disk[n])
     \/ /\ \E n \in Names : Load(n)
        /\ form = [Blank EXCEPT !.list = {m \in Names : Load(m)}]
     \/ /\ \A n \in Names : ~Load(n)
        /\ form = [Blank EXCEPT !.text = FirstName, !.draft = FirstName, !.dirty = TRUE]
PageInit ==
  /\ left \in Strokes /\ OnInitDialog
  /\ doing = Quiet /\ asking = NoQuestion
  /\ edited = FALSE /\ seen = form.fields /\ applied = NoName /\ crossed = FALSE

Uses(k) == left[k] > 0 /\ left' = [left EXCEPT ![k] = @ - 1]

(* The user edits a field, or types a name, which clears the selection.     *)
OnProfileFieldChanged ==
  /\ PageIdle /\ Uses("user")
  /\ \E f \in {"a", "b", "bad"} \ {form.fields} :
       form' = [form EXCEPT !.fields = f, !.dirty = TRUE, !.runtimeDirty = run.running]
  /\ edited' = TRUE
  /\ UNCHANGED <<disk, run, doing, asking, seen, applied, crossed>>
OnCbnEditchangeComboCfgs ==
  /\ PageIdle /\ Uses("user")
  /\ \E n \in Names \cup {Empty} :
       form' = [form EXCEPT !.selected = NoName, !.text = n, !.draft = n, !.dirty = TRUE]
  /\ edited' = TRUE
  /\ UNCHANGED <<disk, run, doing, asking, seen, applied, crossed>>
OnCbnDropdownComboCfgs ==
  /\ PageIdle /\ form' = Refreshed(form)
  /\ UNCHANGED <<left, disk, run, doing, asking, edited, seen, applied, crossed>>

(* SaveCurrentProfile: without a name it takes what the list shows; then    *)
(* name and draft must be complete; writing the settings file may fail.     *)
SaveName(n) == IF n # Empty THEN n ELSE form.text
CanSave(n) == SaveName(n) # Empty /\ GetSettings
SaveCurrentProfile(n) ==
  /\ CanSave(n)
  /\ disk' = [disk EXCEPT ![SaveName(n)] = form.fields]
  /\ edited' = FALSE /\ seen' = form.fields

(* StartProxy and ApplyRuntimeSettings publish the filters, then the        *)
(* snapshot, each in a lock section of its own; a thread of the proxy may   *)
(* read in between (GetProxyInfo, GetProxySettings).                        *)
PublishChildFilterSnapshot(goal) ==
  /\ run' = [run EXCEPT !.child = form.fields]
  /\ doing' = Step("target", goal) /\ applied' = form.fields
PublishTargetFilterSnapshot ==
  /\ doing.step = "target" /\ doing' = Step("info", doing.goal)
  /\ run' = [run EXCEPT !.target = form.fields]
  /\ UNCHANGED <<left, disk, form, asking, edited, seen, applied, crossed>>
StartProxyInfo ==
  /\ doing = Step("info", "start") /\ doing' = Step("engine", "start")
  /\ run' = [run EXCEPT !.info = form.fields, !.settings = form.fields, !.valid = TRUE]
  /\ UNCHANGED <<left, disk, form, asking, edited, seen, applied, crossed>>
StartProxyEngine ==
  /\ doing.step = "engine" /\ doing' = Quiet
  /\ \/ /\ run' = [run EXCEPT !.running = TRUE, !.name = GetCurrentProfileName]
        /\ form' = [form EXCEPT !.runtimeDirty = FALSE]
     \/ /\ ~run.running /\ run' = [run EXCEPT !.valid = FALSE]
        /\ UNCHANGED form
  /\ UNCHANGED <<left, disk, asking, edited, seen, applied, crossed>>
ApplyRuntimeSettingsInfo ==
  /\ doing = Step("info", "apply") /\ doing' = Quiet
  /\ run' = [run EXCEPT !.info = form.fields, !.settings = form.fields, !.valid = TRUE,
                        !.name = GetCurrentProfileName]
  /\ form' = [form EXCEPT !.runtimeDirty = FALSE]
  /\ UNCHANGED <<left, disk, asking, edited, seen, applied, crossed>>

(* The save button: saved changes are applied to a running proxy.           *)
OnCfgoptSave ==
  /\ PageIdle /\ SaveCurrentProfile(form.text)
  /\ form' = Saved(form, form.text)
  /\ IF run.running THEN PublishChildFilterSnapshot("apply") ELSE UNCHANGED <<run, doing, applied>>
  /\ UNCHANGED <<left, asking, crossed>>

(* StartProxy: a draft whose name is not in the list is saved first, with   *)
(* the consent of the user.                                                 *)
StartProxy ==
  /\ PageIdle /\ ~run.running
  /\ \/ /\ GetCurrentProfileName \in form.list /\ GetSettings
        /\ PublishChildFilterSnapshot("start") /\ UNCHANGED asking
     \/ /\ GetCurrentProfileName \notin form.list
        /\ asking' = Box("start", NoName) /\ UNCHANGED <<run, doing, applied>>
  /\ UNCHANGED <<left, disk, form, edited, seen, crossed>>
StartName == IF form.text = Empty THEN FirstName ELSE form.text
AnswerStart ==
  /\ doing = Quiet /\ asking.op = "start" /\ asking' = NoQuestion
  /\ \/ UNCHANGED <<disk, form, run, doing, edited, seen, applied>>
     \/ /\ SaveCurrentProfile(StartName) /\ form' = Saved(form, StartName)
        /\ PublishChildFilterSnapshot("start")
  /\ UNCHANGED <<left, crossed>>

StopProxy ==
  /\ doing = Quiet /\ run.running /\ Uses(IF asking = NoQuestion THEN "user" ELSE "tray")
  /\ run' = [run EXCEPT !.running = FALSE, !.valid = FALSE, !.name = NoName]
  /\ form' = [form EXCEPT !.runtimeDirty = FALSE]
  /\ UNCHANGED <<disk, doing, asking, edited, seen, applied, crossed>>

(* What follows once the user let go of the draft: load another profile     *)
(* (SelectProfileFromDisk reads it again after the box), start an empty     *)
(* one, or paste one from the clipboard, under a name the list has not.     *)
NewName(n) == n \in Names \ Sections
Proceed(op, n, p) ==
  \/ /\ op = "select" /\ Load(n)
     /\ form' = UILoadCfg(p, n, disk[n]) /\ edited' = FALSE /\ seen' = form'.fields
  \/ /\ op = "select" /\ ~Load(n)
     /\ form' = Refreshed(RestoreProfileSelection(p)) /\ UNCHANGED <<edited, seen>>
  \/ /\ op = "new" /\ \E m \in Names : NewName(m) /\ form' = NewDraft(Refreshed(p), m, "bad")
     /\ edited' = FALSE /\ seen' = form'.fields
  \/ /\ op = "paste" /\ \E m \in Names, f \in {"a", "b"} : NewName(m) /\ form' = NewDraft(Refreshed(p), m, f)
     /\ edited' = TRUE /\ seen' = form'.fields
  \/ /\ op \in {"new", "paste"} /\ \A m \in Names : ~NewName(m)
     /\ form' = p /\ UNCHANGED <<edited, seen>>

(* The user chooses a profile in the list, or New or Paste in the menu.     *)
Choose(op, n) ==
  /\ PageIdle /\ Uses("user")
  /\ op = "select" => n \in form.list
  /\ LET p == IF op = "select" THEN [form EXCEPT !.selected = n, !.text = n] ELSE form IN
     IF op = "select" /\ ~Load(n)
     THEN /\ form' = Refreshed(RestoreProfileSelection(p)) /\ UNCHANGED <<asking, edited, seen>>
     ELSE IF form.dirty
     THEN asking' = Box(op, n) /\ form' = p /\ UNCHANGED <<edited, seen>>
     ELSE Proceed(op, n, p) /\ UNCHANGED asking
  /\ UNCHANGED <<disk, run, doing, applied, crossed>>
OnSelect == \E n \in Names : Choose("select", n)
OnNewProfile == Choose("new", NoName)
OnPasteProfile == Choose("paste", NoName)

(* ConfirmDiscardUnsavedChanges: cancel, or a save that fails, gives up;    *)
(* no goes on.  Yes saves the draft of now and goes on in a step of its     *)
(* own, as the file may change in between.                                  *)
Asks(ops) == doing = Quiet /\ asking.op \in ops
KeepDraft ==
  /\ Asks({"select", "new", "paste"}) /\ asking' = NoQuestion
  /\ form' = IF asking.op = "select"
             THEN RestoreProfileSelection([form EXCEPT !.draft = asking.previous])
             ELSE form
  /\ UNCHANGED <<left, disk, run, doing, edited, seen, applied, crossed>>
Discard ==
  /\ Asks({"select", "new", "paste"}) /\ asking' = NoQuestion
  /\ Proceed(asking.op, asking.name, form)
  /\ UNCHANGED <<left, disk, run, doing, applied, crossed>>
SaveFirst ==
  /\ Asks({"select", "new", "paste"}) /\ doing' = Step("proceed", NoName)
  /\ SaveCurrentProfile(form.draft) /\ form' = Saved(form, SaveName(form.draft))
  /\ UNCHANGED <<left, run, asking, applied, crossed>>
ProceedSaved ==
  /\ doing.step = "proceed" /\ doing' = Quiet /\ asking' = NoQuestion
  /\ Proceed(asking.op, asking.name, form)
  /\ UNCHANGED <<left, disk, run, applied, crossed>>

(* OnCfgoptDelete remembers the row, asks, deletes the profile and then the *)
(* row; what was in the controls stays as a draft.                          *)
OnCfgoptDelete ==
  /\ PageIdle /\ form.selected # NoName /\ asking' = Box("delete", form.selected)
  /\ UNCHANGED <<left, disk, form, run, doing, edited, seen, applied, crossed>>
Row(n) == IF crossed THEN form.list ELSE {n}
AnswerDelete ==
  /\ Asks({"delete"}) /\ asking' = NoQuestion
  /\ \/ UNCHANGED <<disk, form>>
     \/ /\ disk' = [disk EXCEPT ![asking.name] = NoName]
        /\ \E r \in Row(asking.name) :
             form' = [form EXCEPT !.list = @ \ {r}, !.selected = NoName, !.text = asking.name,
                                  !.draft = asking.name, !.loaded = NoName, !.dirty = TRUE]
  /\ UNCHANGED <<left, run, doing, edited, seen, applied, crossed>>

(* The menu of the tray icon: a profile is loaded, after the same question  *)
(* when the draft is unsaved, and started; it also works while a box is     *)
(* open, and its list may be older than the proxy that runs by now.         *)
TrayShows(p, d, n) ==
  IF Loadable(d[n])
  THEN form' = UILoadCfg(p, n, d[n]) /\ edited' = FALSE /\ seen' = form'.fields
  ELSE form' = p /\ edited' = (edited /\ p.dirty) /\ seen' = IF p.dirty THEN seen ELSE p.fields
TrayStarts(d, n) ==
  IF run.running \/ ~Loadable(d[n]) \/ form'.fields = "bad"
  THEN UNCHANGED <<run, doing, applied>>
  ELSE run' = [run EXCEPT !.child = form'.fields] /\ doing' = Step("target", "start") /\ applied' = form'.fields
StartProxyFromTaskbarProfile ==
  /\ doing = Quiet /\ Uses("tray")
  /\ crossed' = (crossed \/ asking # NoQuestion)
  /\ \E n \in form.list :
       \/ TrayShows(form, disk, n) /\ TrayStarts(disk, n) /\ UNCHANGED disk
       \/ /\ form.dirty /\ CanSave(form.draft)
          /\ disk' = [disk EXCEPT ![SaveName(form.draft)] = form.fields]
          /\ TrayShows(Saved(form, SaveName(form.draft)), disk', n) /\ TrayStarts(disk', n)
  /\ UNCHANGED asking

(* Another instance saves or deletes a profile.                             *)
Elsewhere ==
  /\ Uses("others")
  /\ \E n \in Names, c \in Contents \cup {NoName} : c # disk[n] /\ disk' = [disk EXCEPT ![n] = c]
  /\ UNCHANGED <<form, run, doing, asking, edited, seen, applied, crossed>>

PageNext ==
  \/ OnProfileFieldChanged \/ OnCbnEditchangeComboCfgs \/ OnCbnDropdownComboCfgs
  \/ OnCfgoptSave \/ StartProxy \/ AnswerStart \/ StopProxy
  \/ PublishTargetFilterSnapshot \/ StartProxyInfo \/ StartProxyEngine \/ ApplyRuntimeSettingsInfo
  \/ OnSelect \/ OnNewProfile \/ OnPasteProfile \/ KeepDraft \/ Discard \/ SaveFirst \/ ProceedSaved
  \/ OnCfgoptDelete \/ AnswerDelete
  \/ StartProxyFromTaskbarProfile \/ Elsewhere

PageSpec == PageInit /\ [][PageNext]_pageVars

-----------------------------------------------------------------------------
PageTypeOK ==
  /\ \A n \in Names : disk[n] \in Contents \cup {NoName}
  /\ form.list \subseteq Names /\ form.selected \in form.list \cup {NoName}
  /\ form.text \in Names \cup {Empty} /\ form.fields \in {"a", "b", "bad"}
(* What a client of the proxy is answered (GetProxyInfo): the upstream and  *)
(* the filter that decides whether it is used.                              *)
GetProxyInfo == IF run.valid THEN [known |-> TRUE, info |-> run.info, target |-> run.target]
                ELSE [known |-> FALSE, info |-> NoName, target |-> NoName]
(* Edits are never lost without a question: whatever the order of loading,  *)
(* saving, deleting and answering, an edited draft is marked dirty, which   *)
(* is what every question depends on (SetProfileDirty).                     *)
EditsKept == edited => form.dirty
(* A page without the mark shows the profile it names, as it was read or    *)
(* written, and saves it under that name; a box the tray did not cut across *)
(* leaves the name as it was (RestoreProfileSelection, UILoadCfg).          *)
CleanIsShown ==
  /\ ~form.dirty /\ form.loaded # NoName => form.fields = seen
  /\ PageIdle /\ ~crossed => form.text = form.draft /\ (~form.dirty /\ form.loaded # NoName => form.text = form.loaded)
(* The proxy runs with what was started or applied last, its four parts     *)
(* together, and answers nobody when it does not run; the page says so when *)
(* its draft differs (m_runtimeSettingsValid, m_runtimeDirty).              *)
RunsApplied ==
  /\ doing = Quiet => (run.valid <=> run.running)
  /\ doing = Quiet /\ run.running =>
       /\ GetProxyInfo.info = applied /\ GetProxyInfo.target = applied
       /\ run.settings = applied /\ run.child = applied
       /\ ~form.runtimeDirty => form.fields = applied
  /\ form.runtimeDirty => run.running
(* Between its lock sections a client may see the new filter with the old   *)
(* upstream, and never the new upstream with an old filter; the upstream    *)
(* and the settings change together.                                        *)
FilterFirst ==
  GetProxyInfo.known =>
    /\ run.info = run.settings
    /\ GetProxyInfo.info # GetProxyInfo.target => doing.step = "info" /\ run.target = applied
(* A proxy is started under a name the list has: a draft is saved first.    *)
StartedSaved == doing.step = "engine" => GetCurrentProfileName \in form.list

(* The profile page never loses an edit silently, says "saved" and         *)
(* "applied" only of what it shows, and clients of a running proxy never   *)
(* see a filter older than the upstream it belongs to (Page1.cpp).         *)
PageSound == PageTypeOK /\ EditsKept /\ CleanIsShown /\ RunsApplied /\ FilterFirst /\ StartedSaved

=============================================================================
