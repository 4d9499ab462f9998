----------------------------- MODULE RecentCache -----------------------------
(* The lists of applications to launch.  Worker threads read a profile's    *)
(* launch history from the settings file and validate it slowly, others     *)
(* enumerate the installed applications; two caches keep the latest load    *)
(* and the last one that is ready, and the page and the application picker  *)
(* show copies of them.  Loads are counted by reference and shared by the   *)
(* caches, the views and their workers; the history is edited by this       *)
(* process and by others while they run.  A profile keeps its name, and the *)
(* stamp of the file (its time and size) is its exact version.              *)
EXTENDS Integers, FiniteSets, Sequences, SequencesExt

CONSTANTS Profiles,   \* identities of profiles (RecentAppsId)
          Loads,      \* load objects (bound): 1 .. n
          Cap,        \* profiles the cache keeps (4)
          Budgets     \* bounds of a behaviour: edits, outside, context, opens, refreshes, faults, starved

VARIABLES budget,     \* what is left of the bounds
          ver,        \* the version of the file and of the installed applications
          edit,       \* profile -> the version this process last made of its history
          ctx,        \* what runs (on, run) and what is selected (sel)
          loads,      \* load -> its state
          entry,      \* key -> CachedProfile
          order,      \* the keys of the cache, least recently acquired first
          cat,        \* the catalog cache: latest and successful
          page,       \* the launch panel's view
          picker,     \* the picker's view, and the catalog it shows
          launch      \* the launch in progress, and a ghost: launched under the wrong profile

recentVars == <<budget, ver, edit, ctx, loads, entry, order, cat, page, picker, launch>>

None == "none"
Catalog == "catalog"
Keys == Profiles \cup {None}
Blank == [refs |-> 0, prof |-> None, work |-> "gone", ver |-> 0, done |-> FALSE, ok |-> FALSE, whole |-> TRUE, cancel |-> FALSE]
NoEntry == [there |-> FALSE, latest |-> 0, ready |-> 0, stamp |-> 0, dirty |-> FALSE]
NoList == [ver |-> 0, whole |-> TRUE, due |-> 0]
NoView == [prof |-> None, load |-> 0, consumed |-> TRUE, list |-> NoList]
Closed == [open |-> FALSE, view |-> NoView, load |-> 0, apps |-> NoList]
NoLaunch == [pc |-> "idle", prof |-> None, busy |-> FALSE, wrong |-> FALSE]

RecentInit ==
  /\ budget \in Budgets /\ ver = 1 /\ edit = [p \in Profiles |-> 0]
  /\ ctx \in {[on |-> FALSE, run |-> None, sel |-> p] : p \in Profiles}
  /\ loads = [l \in Loads |-> Blank] /\ entry = [k \in Keys |-> NoEntry] /\ order = <<>>
  /\ cat = [latest |-> 0, ready |-> 0]
  /\ page = NoView /\ picker = Closed /\ launch = NoLaunch

Spend(k) == budget[k] > 0 /\ budget' = [budget EXCEPT ![k] = @ - 1]
Threads == IF budget.starved THEN BOOLEAN ELSE {TRUE}      \* whether a thread can be created

-----------------------------------------------------------------------------
(* Load objects.                                                            *)
AddRef(ld, l) == [ld EXCEPT ![l].refs = @ + 1]
Release(ld, l) ==
  IF l = 0 THEN ld ELSE [ld EXCEPT ![l] = IF @.refs = 1 THEN Blank ELSE [@ EXCEPT !.refs = @ - 1]]
Cancel(ld, l) == IF l = 0 THEN ld ELSE [ld EXCEPT ![l].cancel = TRUE]
Idle(ld) == {l \in Loads : ld[l] = Blank}
Next1(ld) == CHOOSE l \in Idle(ld) : \A m \in Idle(ld) : l <= m
HasRoom == Cardinality(Idle(loads)) >= 2       \* bound: an operation begins at most two loads
(* BeginLoad: one reference for the caller and one for the worker; without  *)
(* an identity there is nothing to read, without a thread the load failed.  *)
Begun(prof, thread, now) ==
  IF prof = None THEN [Blank EXCEPT !.refs = 1, !.done = TRUE, !.ok = TRUE, !.ver = now]
  ELSE IF thread THEN [Blank EXCEPT !.refs = 2, !.prof = prof, !.work = "start"]
  ELSE [Blank EXCEPT !.refs = 1, !.prof = prof, !.done = TRUE]
Succeeded(ld, l) == ld[l].done /\ ld[l].ok

(* The cache of histories, as a record C of loads, entries and order, with  *)
(* the version of the file (FileStamp) and the local edits as they then are. *)
CacheAt(now, ed) == [ld |-> loads, en |-> entry, or |-> order, now |-> now, ed |-> ed]
Cache == CacheAt(ver, edit)
Edited(k) == CacheAt(ver + 1, [edit EXCEPT ![k] = ver + 1])     \* after this process has changed the history of k
Forget(C, k) ==
  [C EXCEPT !.ld = Release(Release(Cancel(@, C.en[k].latest), C.en[k].latest), C.en[k].ready),
            !.en[k] = NoEntry, !.or = SelectSeq(@, LAMBDA j : j # k)]
WithRoom(C) == IF Len(C.or) >= Cap THEN Forget(C, Head(C.or)) ELSE C
Inserted(C, k) == [C EXCEPT !.en[k] = [NoEntry EXCEPT !.there = TRUE, !.stamp = C.now]]
Found(C, k) == IF C.en[k].there THEN C ELSE Inserted(WithRoom(C), k)
Used(C, k) == [C EXCEPT !.or = Append(SelectSeq(C.or, LAMBDA j : j # k), k)]
(* CachedProfile::Remember: a finished load becomes the ready one.          *)
RememberDirty(C, k) == C.en[k].latest # 0 /\ C.en[k].latest # C.en[k].ready /\ Succeeded(C.ld, C.en[k].latest)   \* mutant: dirty is not asked
Rememberable(C, k) ==
  /\ C.en[k].latest # 0 /\ C.en[k].latest # C.en[k].ready /\ ~C.en[k].dirty
  /\ Succeeded(C.ld, C.en[k].latest)
Remember(C, k) ==
  IF ~Rememberable(C, k) THEN C
  ELSE [C EXCEPT !.ld = Release(AddRef(@, C.en[k].latest), C.en[k].ready), !.en[k].ready = C.en[k].latest]
Stale(C, k, refresh) ==
  \/ C.en[k].latest = 0 \/ C.en[k].dirty \/ C.en[k].stamp # C.now
  \/ refresh /\ C.ld[C.en[k].latest].done
Superseded(ld, l) == IF l = 0 \/ ld[l].done THEN Release(ld, l) ELSE Release(Cancel(ld, l), l)
Renewed(C, k, n, thread) ==
  [C EXCEPT !.ld = Superseded([@ EXCEPT ![n] = Begun(k, thread, C.now)], C.en[k].latest),
            !.en[k] = [@ EXCEPT !.latest = n, !.stamp = C.now, !.dirty = FALSE]]
Latest(C, k) == [C EXCEPT !.ld = AddRef(@, C.en[k].latest)]
Settled(C, k, refresh, thread) == IF Stale(C, k, refresh) THEN Renewed(C, k, Next1(C.ld), thread) ELSE C
Acquire(C, k, refresh, thread) == Latest(Settled(Remember(Used(Found(C, k), k), k), k, refresh, thread), k)
Ready(C, k) == IF C.en[k].there /\ C.en[k].stamp = C.now THEN Remember(C, k) ELSE C
Current(l) == l # 0 /\ \E k \in Keys : entry[k].latest = l /\ ~entry[k].dirty /\ entry[k].stamp = ver
(* Invalidate after a local edit: the saved rows become the ready load.     *)
Snapshot(k, now) == [Blank EXCEPT !.refs = 1, !.prof = k, !.ver = now, !.done = TRUE, !.ok = TRUE]
Published(C, k, n) ==
  [C EXCEPT !.ld = Release([@ EXCEPT ![n] = Snapshot(k, C.now)], C.en[k].ready), !.en[k].ready = n, !.en[k].dirty = TRUE]
Invalidate(C, k) == IF C.en[k].there THEN Published(C, k, Next1(C.ld)) ELSE C
SetCache(C) == loads' = C.ld /\ entry' = C.en /\ order' = C.or /\ ver' = C.now /\ edit' = C.ed

-----------------------------------------------------------------------------
(* The workers: read the file, validate entry by entry unless cancelled,    *)
(* publish and release.  An enumeration of the applications is one step.    *)
Result(l, ok, whole) == [loads[l] EXCEPT !.work = "gone", !.done = TRUE, !.ok = ok, !.whole = whole]
Read(l) ==
  /\ loads[l].work = "start" /\ loads[l].prof # Catalog
  /\ \/ loads' = [loads EXCEPT ![l].work = "read", ![l].ver = ver, ![l].ok = TRUE] /\ UNCHANGED budget
     \/ loads' = [loads EXCEPT ![l].work = "read"] /\ Spend("faults")
  /\ UNCHANGED <<ver, edit, ctx, entry, order, cat, page, picker, launch>>
Validate(l) ==
  /\ loads[l].work = "read"
  /\ \E whole \in {~loads[l].cancel, TRUE} : loads' = Release([loads EXCEPT ![l] = Result(l, @.ok, whole)], l)
  /\ UNCHANGED <<budget, ver, edit, ctx, entry, order, cat, page, picker, launch>>
LoadApplications(l) ==
  /\ loads[l].work = "start" /\ loads[l].prof = Catalog
  /\ \/ loads' = Release([loads EXCEPT ![l] = [Result(l, TRUE, TRUE) EXCEPT !.ver = ver]], l) /\ UNCHANGED budget
     \/ loads' = Release([loads EXCEPT ![l] = Result(l, FALSE, TRUE)], l) /\ Spend("faults")
  /\ UNCHANGED <<ver, edit, ctx, entry, order, cat, page, picker, launch>>

(* Another process changes the file, or an application is installed.        *)
Outside ==
  /\ Spend("outside") /\ ver' = ver + 1
  /\ UNCHANGED <<edit, ctx, loads, entry, order, cat, page, picker, launch>>

(* What runs and what is selected; a change warms the cache up (Preload).   *)
PageId == IF ctx.on THEN ctx.run ELSE ctx.sel
Warmed(C, k, thread) == IF k = None THEN C ELSE [Acquire(C, k, FALSE, thread) EXCEPT !.ld = Release(@, Acquire(C, k, FALSE, thread).en[k].latest)]
SetRunningProfile ==
  /\ Spend("context") /\ HasRoom
  /\ \/ \E p \in Profiles, id \in Profiles \cup {None} :
          id \in {p, None} /\ ctx' = [on |-> TRUE, run |-> id, sel |-> p]
     \/ ctx.on /\ ctx' = [ctx EXCEPT !.on = FALSE, !.run = None]
     \/ \E p \in Profiles : p # ctx.sel /\ ctx' = [ctx EXCEPT !.sel = p]
  /\ ctx' # ctx
  /\ \E thread \in Threads : SetCache(Warmed(Cache, IF ctx'.on THEN ctx'.run ELSE ctx'.sel, thread))
  /\ UNCHANGED <<cat, page, picker, launch>>
(* A profile that is not in use is deleted, and its cached lists with it.   *)
DeleteProfile(k) ==
  /\ k \notin {ctx.run, ctx.sel, page.prof, picker.view.prof, launch.prof} /\ entry[k].there
  /\ Spend("outside") /\ SetCache(Forget(CacheAt(ver + 1, edit), k))
  /\ UNCHANGED <<ctx, cat, page, picker, launch>>

-----------------------------------------------------------------------------
(* A view takes a list: it must be whole and neither older than this        *)
(* process's last edit nor than what the view showed before.                *)
Later(a, b) == IF a > b THEN a ELSE b
DueTo(C, k, list) == IF k \in Profiles THEN Later(C.ed[k], list.ver) ELSE list.ver
Copied(C, l, k, list) == [ver |-> C.ld[l].ver, whole |-> C.ld[l].whole, due |-> DueTo(C, k, list)]
Shown(C, k, list) == IF C.en[k].ready = 0 THEN list ELSE Copied(C, C.en[k].ready, k, list)
(* A new latest load: show what is ready in the meantime.                   *)
Adopted(v, C) ==
  IF C.en[v.prof].latest = v.load THEN v
  ELSE [v EXCEPT !.load = C.en[v.prof].latest, !.consumed = FALSE, !.list = Shown(C, v.prof, @)]
Swapped(v, C) == [C EXCEPT !.ld = Release(@, IF C.en[v.prof].latest = v.load THEN C.en[v.prof].latest ELSE v.load)]
Offered(v, C) == IF C.en[v.prof].latest = v.load THEN C ELSE Ready(C, v.prof)
Consumed(v, C) ==
  IF v.load = 0 \/ v.consumed \/ ~C.ld[v.load].done THEN v
  ELSE [v EXCEPT !.consumed = TRUE, !.list = IF C.ld[v.load].ok THEN Copied(C, v.load, v.prof, @) ELSE @]

(* CPage3::ReloadRecentApplications.                                        *)
Retargeted(v, k) == IF v.prof = k THEN v ELSE [NoView EXCEPT !.prof = k]
Left(v, k, C) == IF v.prof = k THEN C ELSE [C EXCEPT !.ld = Release(@, v.load)]
PageTakes(v, C) == SetCache(Swapped(v, C)) /\ page' = Consumed(Adopted(v, C), C)
PageLoads(v, C, thread) == PageTakes(v, Offered(v, Acquire(C, v.prof, FALSE, thread)))
ReloadRecentApplications(C) ==
  IF launch.busy THEN SetCache(C) /\ UNCHANGED page
  ELSE IF PageId = None THEN SetCache(Left(page, None, C)) /\ page' = Retargeted(page, None)
  ELSE \E thread \in Threads : PageLoads(Retargeted(page, PageId), Left(page, PageId, C), thread)
RefreshLaunchPanel ==
  /\ HasRoom /\ ~launch.busy /\ ReloadRecentApplications(Cache)
  /\ UNCHANGED <<budget, ctx, cat, picker, launch>>
(* CPage3::OnLaunchPanelEdit: remove a row, or move it, in the file.        *)
OnLaunchPanelEdit ==
  /\ ~picker.open /\ ~launch.busy /\ page.prof # None /\ page.prof = PageId /\ HasRoom /\ Spend("edits")
  /\ \/ ReloadRecentApplications(Invalidate(Edited(page.prof), page.prof))
     \/ ReloadRecentApplications(Cache)              \* it could not be written
  /\ UNCHANGED <<ctx, cat, picker, launch>>

-----------------------------------------------------------------------------
(* The catalog of installed applications: one load at a time, the last      *)
(* successful one kept.                                                     *)
CatKept(ld) ==
  IF cat.latest = 0 \/ cat.latest = cat.ready THEN [ld |-> ld, cat |-> cat]
  ELSE IF ~Succeeded(ld, cat.latest) THEN [ld |-> ld, cat |-> cat]
  ELSE [ld |-> Release(AddRef(ld, cat.latest), cat.ready), cat |-> [cat EXCEPT !.ready = cat.latest]]
CatDue(K, refresh) ==
  K.cat.latest = 0 \/ (K.ld[K.cat.latest].done /\ (refresh \/ K.cat.ready = 0))
CatBegun(K, n, thread) ==
  [ld |-> AddRef(Release([K.ld EXCEPT ![n] = Begun(Catalog, thread, ver)], K.cat.latest), n), cat |-> [K.cat EXCEPT !.latest = n]]
CatAcquire(K, refresh, thread) ==
  IF CatDue(K, refresh) THEN CatBegun(K, Next1(K.ld), thread) ELSE [K EXCEPT !.ld = AddRef(@, K.cat.latest)]
CatList(ld, l, list) == [ver |-> ld[l].ver, whole |-> ld[l].whole, due |-> list.ver]
CatReady(K, list) == IF K.cat.ready = 0 THEN list ELSE CatList(K.ld, K.cat.ready, list)

(* CApplicationPicker::RefreshRecentLoad.                                   *)
Refreshed(v, C) == [view |-> Adopted(v, C), C |-> Swapped(v, C)]
RefreshRecentLoad(v, C, refresh, thread) == Refreshed(v, Offered(v, Acquire(C, v.prof, refresh, thread)))
(* BeginLoad: on opening, on Refresh, and when what runs has changed.       *)
PickerTakes(R, K) ==
  /\ picker' = [picker EXCEPT !.open = TRUE, !.view = R.view, !.load = K.cat.latest, !.apps = CatReady(K, @)]
  /\ loads' = K.ld /\ cat' = K.cat /\ entry' = R.C.en /\ order' = R.C.or
PickerBegins(R, refresh, thread) == PickerTakes(R, CatAcquire(CatKept(Release(R.C.ld, picker.load)), refresh, thread))
BeginLoad(refresh) ==
  /\ HasRoom /\ UNCHANGED <<ver, edit, ctx, page, launch>>
  /\ \E t \in Threads, u \in Threads :
       PickerBegins(RefreshRecentLoad(Retargeted(picker.view, ctx.run), Left(picker.view, ctx.run, Cache), refresh, t), refresh, u)
OpenPicker == ctx.on /\ ~picker.open /\ launch.pc = "idle" /\ Spend("opens") /\ BeginLoad(FALSE)
Loading == picker.load # 0 \/ (picker.view.load # 0 /\ ~picker.view.consumed)
OnRefresh == picker.open /\ ~Loading /\ Spend("refreshes") /\ BeginLoad(TRUE)
RefreshProfileContext == picker.open /\ picker.view.prof # ctx.run /\ UNCHANGED budget /\ BeginLoad(FALSE)

(* FinishLoad, on the timers: take the load if it is current, else the one  *)
(* that is; the catalog when it is done.                                    *)
FinishAny(v, thread) == [view |-> v, C |-> Cache]    \* mutant: IsCurrentLoad is not asked
FinishCurrent(v, thread) ==
  IF v.load = 0 \/ v.consumed \/ Current(v.load) THEN [view |-> v, C |-> Cache]
  ELSE RefreshRecentLoad(v, Cache, FALSE, thread)
CatDone(ld) == picker.load # 0 /\ ld[picker.load].done
CatTaken(ld) == IF cat.latest = picker.load THEN CatKept(ld) ELSE [ld |-> ld, cat |-> cat]
PickerShows(R, K, apps) ==
  /\ picker' = [picker EXCEPT !.view = Consumed(R.view, R.C), !.load = IF CatDone(R.C.ld) THEN 0 ELSE @, !.apps = apps]
  /\ loads' = K.ld /\ cat' = K.cat /\ entry' = R.C.en /\ order' = R.C.or
FinishBoth(R) ==
  IF ~CatDone(R.C.ld) THEN PickerShows(R, [ld |-> R.C.ld, cat |-> cat], picker.apps)
  ELSE IF ~R.C.ld[picker.load].ok THEN PickerShows(R, [ld |-> Release(R.C.ld, picker.load), cat |-> cat], picker.apps)
  ELSE PickerShows(R, [CatTaken(R.C.ld) EXCEPT !.ld = Release(@, picker.load)], CatList(R.C.ld, picker.load, picker.apps))
FinishLoad ==
  /\ picker.open /\ picker.view.prof = ctx.run /\ HasRoom
  /\ \E thread \in Threads : FinishBoth(FinishCurrent(picker.view, thread))
  /\ UNCHANGED <<budget, ver, edit, ctx, page, launch>>
(* The slow timer looks for a newer load as well.                           *)
OnTimer ==
  /\ picker.open /\ picker.view.prof = ctx.run /\ HasRoom
  /\ \E thread \in Threads : FinishBoth(RefreshRecentLoad(picker.view, Cache, FALSE, thread))
  /\ UNCHANGED <<budget, ver, edit, ctx, page, launch>>
(* ChangeRecent: pin, move or remove a row; the page is told by message.    *)
PickerEdits(R) == SetCache(R.C) /\ picker' = [picker EXCEPT !.view = R.view]
ChangeRecent ==
  /\ picker.open /\ picker.view.prof = ctx.run /\ ctx.run # None /\ HasRoom /\ Spend("edits")
  /\ \E thread \in Threads : PickerEdits(RefreshRecentLoad(picker.view, Invalidate(Edited(ctx.run), ctx.run), FALSE, thread))
  /\ UNCHANGED <<ctx, cat, page, launch>>

-----------------------------------------------------------------------------
(* Launching.  A row of the page or of the picker is launched only while    *)
(* its profile runs; message boxes let that change in between.              *)
RememberLaunch(k) ==
  IF k = None THEN UNCHANGED <<ver, edit, loads, entry, order>>
  ELSE \/ SetCache(Invalidate(Edited(k), k))
       \/ UNCHANGED <<ver, edit, loads, entry, order>>          \* the history could not be written
Ended == launch' = [launch EXCEPT !.pc = "idle", !.prof = None, !.busy = FALSE]
Launched(k) ==
  /\ launch' = [NoLaunch EXCEPT !.wrong = launch.wrong \/ ~ctx'.on \/ ctx'.run # k]
  /\ RememberLaunch(k)
Untouched == UNCHANGED <<ver, edit, loads, entry, order>>
(* LaunchRecentApplication and LaunchInteractiveApplication.                *)
LaunchRecentApplication(k, busy) ==
  \/ Ended /\ Untouched                                         \* not running, other identity, or no such target
  \/ /\ ctx'.on /\ ctx'.run = k
     /\ \/ Launched(k)
        \/ launch' = [launch EXCEPT !.pc = "choose", !.prof = k, !.busy = busy] /\ Untouched
OnLaunchPanelTile ==
  /\ launch.pc = "idle" /\ ~picker.open /\ page.prof # None /\ HasRoom /\ Spend("opens")
  /\ \/ ctx.on /\ UNCHANGED ctx /\ LaunchRecentApplication(page.prof, TRUE)
     \/ /\ ~ctx.on /\ page.prof = ctx.sel /\ UNCHANGED ctx /\ Untouched
        /\ launch' = [launch EXCEPT !.pc = "ask", !.prof = page.prof, !.busy = TRUE]
  /\ UNCHANGED <<cat, page, picker>>
AnswerTile ==
  /\ launch.pc = "ask" /\ HasRoom
  /\ \/ Ended /\ Untouched /\ UNCHANGED ctx
     \/ /\ ctx.sel = launch.prof
        /\ \/ ctx.on /\ UNCHANGED ctx
           \/ ~ctx.on /\ \E id \in {ctx.sel, None} : ctx' = [ctx EXCEPT !.on = TRUE, !.run = id]
        /\ LaunchRecentApplication(launch.prof, TRUE)
  /\ UNCHANGED <<budget, cat, page, picker>>
ChooseAnyway == TRUE    \* mutant: what runs is not asked again after the box
StillRuns == ctx.on /\ launch.prof = ctx.run
ChooseProfile ==
  /\ launch.pc = "choose" /\ HasRoom /\ UNCHANGED ctx
  /\ \/ Ended /\ Untouched
     \/ StillRuns /\ Launched(launch.prof)
  /\ UNCHANGED <<budget, cat, page, picker>>
(* The picker closes, on Cancel or with a row chosen (OnOK, OnDestroy).     *)
ClosePicker ==
  /\ picker.open /\ HasRoom /\ UNCHANGED <<budget, ver, edit, ctx, entry, order, cat, page>>
  /\ loads' = Release(Release(loads, picker.load), picker.view.load) /\ picker' = Closed
  /\ \/ UNCHANGED launch
     \/ /\ picker.view.prof = ctx.run /\ ctx.on /\ launch.pc = "idle"
        /\ launch' = [launch EXCEPT !.pc = "chosen", !.prof = ctx.run]
LaunchChosen ==
  /\ launch.pc = "chosen" /\ HasRoom /\ UNCHANGED ctx /\ LaunchRecentApplication(launch.prof, FALSE)
  /\ UNCHANGED <<budget, cat, page, picker>>

RecentNext ==
  \/ \E l \in Loads : Read(l) \/ Validate(l) \/ LoadApplications(l)
  \/ Outside \/ SetRunningProfile \/ (\E k \in Profiles : DeleteProfile(k))
  \/ RefreshLaunchPanel \/ OnLaunchPanelEdit
  \/ OpenPicker \/ OnRefresh \/ RefreshProfileContext \/ FinishLoad \/ OnTimer \/ ChangeRecent \/ ClosePicker
  \/ OnLaunchPanelTile \/ AnswerTile \/ ChooseProfile \/ LaunchChosen

RecentSpec == RecentInit /\ [][RecentNext]_recentVars

-----------------------------------------------------------------------------
RecentTypeOK ==
  /\ loads \in [Loads -> [refs : Int, prof : Keys \cup {Catalog}, work : {"start", "read", "gone"},
                          ver : 0 .. ver, done : BOOLEAN, ok : BOOLEAN, whole : BOOLEAN, cancel : BOOLEAN]]
  /\ page.load \in Loads \cup {0} /\ picker.load \in Loads \cup {0} /\ IsInjective(order)
(* Every load is freed exactly when the last of its holders (the caches,    *)
(* the views, its worker) lets it go.                                       *)
Holders(l) ==
  {<<"latest", k>> : k \in {j \in Keys : entry[j].latest = l}} \cup {<<"ready", k>> : k \in {j \in Keys : entry[j].ready = l}}
  \cup {<<"cat", n>> : n \in {m \in {"latest", "ready"} : cat[m] = l}}
  \cup (IF page.load = l THEN {<<"page", l>>} ELSE {}) \cup (IF picker.view.load = l THEN {<<"picker", l>>} ELSE {})
  \cup (IF picker.load = l THEN {<<"apps", l>>} ELSE {}) \cup (IF loads[l].work # "gone" THEN {<<"worker", l>>} ELSE {})
RefsExact == \A l \in Loads : loads[l].refs = Cardinality(Holders(l)) /\ (loads[l].refs = 0 <=> loads[l] = Blank)
(* The cache stays within its limit, and what it offers is a whole list of  *)
(* that profile, no older than this process's last edit of it.              *)
CacheSound ==
  /\ Len(order) <= Cap /\ \A k \in Keys : entry[k].there <=> k \in ToSet(order)
  /\ \A k \in Profiles : entry[k].ready # 0 =>
       /\ loads[entry[k].ready].prof = k /\ loads[entry[k].ready].whole
       /\ loads[entry[k].ready].ver >= edit[k]
(* A view never shows half a list, nor goes back: a row this process        *)
(* removed or unpinned does not return through a load that had read the     *)
(* file before, whatever order loads finish in (Invalidate, IsCurrentLoad). *)
ViewsSound ==
  \A list \in {page.list, picker.view.list, picker.apps} : list.whole /\ list.ver >= list.due
(* A row is launched only under the profile whose history it belongs to.    *)
LaunchedRight == ~launch.wrong
=============================================================================
