---------------------------- MODULE SettingsFile ----------------------------
(* The settings file that every instance of the program shares: profiles,  *)
(* options and the launch history of a profile.  A named mutex guards each *)
(* change, waited for two seconds; a change edits a copy and replaces the  *)
(* file by it.  A change of the history is several such replacements under *)
(* one lock, an import of a whole file spans the restart of an instance,   *)
(* and an instance may die at any moment.                                  *)
EXTENDS Integers, Sequences, SequencesExt, Lists

CONSTANTS Instances,  \* instances of the program
          Importer,   \* the one that imports
          Launches,   \* what can be launched
          KeepUnpinned, \* unpinned entries a history keeps (20)
          KeepMost,   \* entries a history may have (kMaxEntries, 128)
          LastId,     \* identities made (bound)
          Chores      \* bounds of a behaviour: jobs, deaths, imports

(* "none" stands for no instance.                                          *)
ASSUME FileAssumption ==
  /\ "none" \notin Instances /\ Importer \in Instances
  /\ KeepUnpinned \in Nat /\ KeepMost \in Nat /\ LastId \in Nat

VARIABLES chores,    \* what is left of the bounds
          file,      \* what the file holds
          owner,     \* who holds the mutex
          job,       \* instance -> its current change
          mine,      \* instance -> the identity its running profile had (GetRunningRecentProfileId)
          ids,       \* identities given out
          import,    \* the pending import
          want,      \* ghost: the file with every committed edit applied in turn, an
                     \* import counting as one that a restore takes back
          deaths,    \* ghost: instances that died while they held the mutex
          clobbered, \* ghost: the import replaced more than it had backed up
          undone     \* ghost: a restore overwrote a change of another instance

fileVars == <<chores, file, owner, job, mine, ids, import, want, deaths, clobbered, undone>>

None == "none"
Absent   == [there |-> FALSE, prof |-> 0, id |-> 0, opt |-> 0, hist |-> <<>>]
Defaults == [Absent EXCEPT !.there = TRUE, !.prof = 1]
Source   == [Absent EXCEPT !.there = TRUE, !.prof = 3]     \* the file to import
Nothing  == [pc |-> "idle", op |-> None, arg |-> None, todo |-> <<>>, stage |-> Absent]
Down     == [Nothing EXCEPT !.pc = "down"]
NoImport == [phase |-> None, had |-> FALSE, previous |-> Absent, changed |-> FALSE, outcome |-> None]

FileInit ==
  /\ chores \in Chores /\ file \in {Absent, Defaults} /\ want = file
  /\ owner = None /\ job = [i \in Instances |-> Down] /\ mine = [i \in Instances |-> 0]
  /\ ids = 0 /\ import = NoImport /\ deaths = 0 /\ clobbered = FALSE /\ undone = FALSE

Spend(k) == chores[k] > 0 /\ chores' = [chores EXCEPT ![k] = @ - 1]

-----------------------------------------------------------------------------
(* The history, most recent launch first.  Remember moves a launch to the  *)
(* front and keeps its pin; beyond KeepUnpinned the oldest unpinned go.    *)
Apps(h) == [k \in DOMAIN h |-> h[k].app]
Without(h, app) == Only(h, {k \in DOMAIN h : h[k].app # app})
IsPinned(h, app) == \E k \in DOMAIN h : h[k].app = app /\ h[k].pin
Fronted(h, app, id) == <<[app |-> app, pin |-> IsPinned(h, app), id |-> id]>> \o Without(h, app)
Pinned(h, app, pin) == [k \in DOMAIN h |-> IF h[k].app = app THEN [h[k] EXCEPT !.pin = pin] ELSE h[k]]
Unpinned(h) == Only(h, {k \in DOMAIN h : ~h[k].pin})
Surplus(h) == SubSeq(Apps(Unpinned(h)), KeepUnpinned + 1, Len(Unpinned(h)))

(* One edit of the staged copy.                                            *)
Edit(kind, arg) == [kind |-> kind, arg |-> arg]
Edited(c, e) ==
  CASE e.kind = "boot"  -> IF c.there THEN c ELSE Defaults
    [] e.kind = "save"  -> [c EXCEPT !.there = TRUE, !.prof = e.arg]
    [] e.kind = "opt"   -> [c EXCEPT !.there = TRUE, !.opt = 1 - @]
    [] e.kind = "id"    -> [c EXCEPT !.id = e.arg]
    [] e.kind = "del"   -> [c EXCEPT !.prof = 0, !.id = 0, !.hist = <<>>]
    [] e.kind = "front" -> [c EXCEPT !.hist = Fronted(@, e.arg, c.id)]
    [] e.kind = "pin"   -> [c EXCEPT !.hist = Pinned(@, e.arg, ~IsPinned(@, e.arg))]
    [] e.kind = "drop"  -> [c EXCEPT !.hist = Without(@, e.arg)]

(* What a change consists of, decided from the file under the mutex.       *)
(* ReadBound refuses a history of another identity of the profile, or one  *)
(* that is too long; Write puts the changed records first, then deletes.   *)
Drops(h) == [k \in DOMAIN Surplus(h) |-> Edit("drop", Surplus(h)[k])]
ReadBound(i) == file.prof # 0 /\ file.id # 0 /\ file.id = mine[i] /\ Len(file.hist) <= KeepMost + 1
TooMany(h) == Len(h) - Len(Surplus(h)) > KeepMost
Remember(i, app) ==
  IF ~ReadBound(i) \/ TooMany(Fronted(file.hist, app, file.id)) THEN <<>>
  ELSE <<Edit("front", app)>> \o Drops(Fronted(file.hist, app, file.id))
SetPinned(i, app) ==
  IF ~ReadBound(i) \/ app \notin ToSet(Apps(file.hist)) THEN <<>>
  ELSE <<Edit("pin", app)>> \o Drops(Pinned(file.hist, app, ~IsPinned(file.hist, app)))
RemoveLaunch(i, app) ==
  IF ~ReadBound(i) \/ app \notin ToSet(Apps(file.hist)) THEN <<>>
  ELSE <<Edit("drop", app)>> \o Drops(Without(file.hist, app))
EnsureProfileId == IF file.prof = 0 \/ file.id # 0 \/ ids = LastId THEN <<>> ELSE <<Edit("id", ids + 1)>>
Plan(i, op, arg) ==
  CASE op = "boot"     -> IF file.there THEN <<>> ELSE <<Edit("boot", None)>>
    [] op \in {"save", "opt"} -> <<Edit(op, arg)>>
    [] op = "delete"   -> <<Edit("del", None)>>
    [] op = "ensure"   -> EnsureProfileId
    [] op = "remember" -> Remember(i, arg)
    [] op = "pin"      -> SetPinned(i, arg)
    [] op = "remove"   -> RemoveLaunch(i, arg)
    [] OTHER           -> <<>>

-----------------------------------------------------------------------------
(* An instance begins a change, or starts up (Initialize).                 *)
Begin(i, op, arg) == job' = [job EXCEPT ![i] = [Nothing EXCEPT !.pc = "wait", !.op = op, !.arg = arg]]
Idling(i) == job[i].pc = "idle" /\ (i = Importer => import.phase \in {None, "prepared"})
Change(i) ==
  /\ Idling(i) /\ Spend("jobs")
  /\ \/ Begin(i, "save", 2) \/ Begin(i, "opt", None) \/ Begin(i, "delete", None) \/ Begin(i, "ensure", None)
     \/ \E app \in Launches, op \in {"remember", "pin", "remove"} : mine[i] # 0 /\ Begin(i, op, app)
  /\ UNCHANGED <<file, owner, mine, ids, import, want, deaths, clobbered, undone>>
Initialize(i) ==
  /\ job[i].pc = "down" /\ Begin(i, "boot", None)
  /\ UNCHANGED <<chores, file, owner, mine, ids, import, want, deaths, clobbered, undone>>

(* Lock: the mutex is free or was abandoned; a waiter gives up in time.    *)
LockAnyway(i) == TRUE   \* mutant: Valid() is not asked
Lock(i) == owner = None
IdentityOf(i) ==
  IF job[i].op # "ensure" THEN mine[i]
  ELSE IF file.prof = 0 THEN 0 ELSE IF file.id = 0 /\ ids < LastId THEN ids + 1 ELSE file.id
Enter(i) ==
  /\ job[i].pc = "wait" /\ job[i].op \notin {"arm", "finish", "restore"} /\ Lock(i) /\ owner' = i
  /\ job' = [job EXCEPT ![i] = [@ EXCEPT !.pc = "held", !.todo = Plan(i, job[i].op, job[i].arg)]]
  /\ mine' = [mine EXCEPT ![i] = IdentityOf(i)]
  /\ ids' = IF job[i].op = "ensure" /\ EnsureProfileId # <<>> THEN ids + 1 ELSE ids
  /\ UNCHANGED <<chores, file, import, want, deaths, clobbered, undone>>
TimeOut(i) ==
  /\ job[i].pc = "wait" /\ owner \notin {None, i} /\ job[i].op \notin {"finish", "restore"}
  /\ job' = [job EXCEPT ![i] = IF job[i].op = "boot" THEN Down ELSE Nothing]
  /\ import' = IF job[i].op = "arm" THEN NoImport ELSE import
  /\ UNCHANGED <<chores, file, owner, mine, ids, want, deaths, clobbered, undone>>

(* Update: the copy is edited, then flushed and put in place of the file.  *)
Stage(i) ==
  /\ job[i].pc = "held" /\ job[i].todo # <<>>
  /\ job' = [job EXCEPT ![i] = [@ EXCEPT !.pc = "staged", !.stage = Edited(file, Head(job[i].todo))]]
  /\ UNCHANGED <<chores, file, owner, mine, ids, import, want, deaths, clobbered, undone>>
Replace(i) ==
  /\ job[i].pc = "staged"
  /\ file' = job[i].stage /\ want' = Edited(want, Head(job[i].todo))
  /\ job' = [job EXCEPT ![i] = [@ EXCEPT !.pc = "held", !.todo = Tail(job[i].todo), !.stage = Absent]]
  /\ UNCHANGED <<chores, owner, mine, ids, import, deaths, clobbered, undone>>
Leave(i) ==
  /\ job[i].pc = "held" /\ job[i].todo = <<>>
  /\ owner' = None /\ job' = [job EXCEPT ![i] = Nothing]
  /\ UNCHANGED <<chores, file, mine, ids, import, want, deaths, clobbered, undone>>
(* Copying, editing, flushing or replacing fails: the rest is left undone. *)
Fail(i) ==
  /\ job[i].pc \in {"held", "staged"} /\ job[i].todo # <<>> /\ Spend("deaths")
  /\ owner' = None /\ job' = [job EXCEPT ![i] = IF job[i].op = "boot" THEN Down ELSE Nothing]
  /\ mine' = IF job[i].op = "ensure" THEN [mine EXCEPT ![i] = 0] ELSE mine
  /\ deaths' = deaths + 1
  /\ UNCHANGED <<file, ids, import, want, clobbered, undone>>
Die(i) ==
  /\ job[i].pc # "down" /\ Spend("deaths")
  /\ job' = [job EXCEPT ![i] = Down] /\ mine' = [mine EXCEPT ![i] = 0]
  /\ owner' = IF owner = i THEN None ELSE owner
  /\ deaths' = IF owner = i THEN deaths + 1 ELSE deaths
  /\ import' = IF i = Importer THEN NoImport ELSE import
  /\ UNCHANGED <<file, ids, want, clobbered, undone>>

-----------------------------------------------------------------------------
(* Import.  Prepare stages and validates the chosen file, the user         *)
(* confirms, ArmRestart backs the current file up under the mutex and      *)
(* creates the next instance suspended; then this one shuts down.          *)
Holds(op) == job[Importer].pc = "wait" /\ job[Importer].op = op /\ owner = None
ImportEnds(outcome) == [import EXCEPT !.phase = "done", !.outcome = outcome]
Prepare ==
  /\ Idling(Importer) /\ import.phase = None /\ Spend("imports")
  /\ import' = [NoImport EXCEPT !.phase = "prepared", !.had = file.there]
  /\ UNCHANGED <<file, owner, job, mine, ids, want, deaths, clobbered, undone>>
Confirm ==
  /\ Idling(Importer) /\ import.phase = "prepared"
  /\ \/ import' = NoImport /\ UNCHANGED job
     \/ import' = [import EXCEPT !.phase = "arming"] /\ Begin(Importer, "arm", None)
  /\ UNCHANGED <<chores, file, owner, mine, ids, want, deaths, clobbered, undone>>
ArmRestart ==
  /\ Holds("arm")
  /\ \/ /\ file.there = import.had
        /\ import' = [import EXCEPT !.phase = "armed", !.previous = file]
        /\ Begin(Importer, "finish", None)
     \/ import' = NoImport /\ job' = [job EXCEPT ![Importer] = Nothing]
  /\ UNCHANGED <<chores, file, owner, mine, ids, want, deaths, clobbered, undone>>

(* FinishAfterShutdown replaces the file only if it is still the one that  *)
(* was backed up.                                                          *)
Unchanged == file.there = import.had /\ (import.had => file = import.previous)
FinishReplaced ==
  /\ Holds("finish") /\ Unchanged
  /\ file' = Source /\ want' = Source /\ clobbered' = (clobbered \/ (~undone /\ want # import.previous))
  /\ \/ import' = [import EXCEPT !.phase = "resume", !.changed = TRUE] /\ job' = [job EXCEPT ![Importer] = Nothing]
     \/ import' = [import EXCEPT !.phase = "undo"] /\ Begin(Importer, "restore", None)
  /\ UNCHANGED <<chores, owner, mine, ids, deaths, undone>>
FinishRefused ==
  /\ job[Importer].pc = "wait" /\ job[Importer].op = "finish"
  /\ \/ owner # None \/ ~Unchanged
  /\ import' = [import EXCEPT !.phase = "resume"] /\ job' = [job EXCEPT ![Importer] = Nothing]
  /\ UNCHANGED <<chores, file, owner, mine, ids, want, deaths, clobbered, undone>>
FinishNotReplaced ==
  /\ Holds("finish") /\ Unchanged
  /\ import' = [import EXCEPT !.phase = "undo"] /\ Begin(Importer, "restore", None)
  /\ UNCHANGED <<chores, file, owner, mine, ids, want, deaths, clobbered, undone>>

(* The next instance is resumed and says that it is ready within 30 s;     *)
(* otherwise it is terminated and the backup restored.                     *)
Resume ==
  /\ import.phase = "resume" /\ job[Importer].pc = "idle"
  /\ \/ import' = ImportEnds(IF import.changed THEN "imported" ELSE "kept") /\ UNCHANGED job
     \/ /\ ~import.changed /\ import' = ImportEnds("kept") /\ UNCHANGED job
     \/ /\ import.changed /\ import' = [import EXCEPT !.phase = "undo"] /\ Begin(Importer, "restore", None)
     \/ import' = ImportEnds("stranded") /\ UNCHANGED job       \* it could not be terminated
  /\ UNCHANGED <<chores, file, owner, mine, ids, want, deaths, clobbered, undone>>
Restored == IF import.had THEN import.previous ELSE Absent
(* Restore puts the backup in place of whatever is there: it takes the     *)
(* mutex again, and does not ask whether somebody has written since.       *)
WrittenSince == want \notin {Source, Restored}
Restore ==
  /\ Holds("restore") /\ file' = Restored
  /\ want' = IF WrittenSince THEN want ELSE Restored
  /\ undone' = (undone \/ WrittenSince)
  /\ import' = IF import.changed THEN ImportEnds("restored") ELSE [import EXCEPT !.phase = "resume"]
  /\ job' = [job EXCEPT ![Importer] = Nothing]
  /\ UNCHANGED <<chores, owner, mine, ids, deaths, clobbered>>
RestoreFails ==
  /\ job[Importer].pc = "wait" /\ job[Importer].op = "restore"
  /\ import' = ImportEnds("stranded") /\ job' = [job EXCEPT ![Importer] = Nothing]
  /\ UNCHANGED <<chores, file, owner, mine, ids, want, deaths, clobbered, undone>>
(* The instance that imported ends; another one may start.                 *)
ImporterExits ==
  /\ import.phase = "done" /\ job[Importer].pc = "idle"
  /\ import' = NoImport /\ job' = [job EXCEPT ![Importer] = Down] /\ mine' = [mine EXCEPT ![Importer] = 0]
  /\ UNCHANGED <<chores, file, owner, ids, want, deaths, clobbered, undone>>

FileNext ==
  \/ \E i \in Instances : \/ Change(i) \/ Initialize(i) \/ Enter(i) \/ TimeOut(i)
                          \/ Stage(i) \/ Replace(i) \/ Leave(i) \/ Fail(i) \/ Die(i)
  \/ Prepare \/ Confirm \/ ArmRestart \/ FinishReplaced \/ FinishRefused \/ FinishNotReplaced
  \/ Resume \/ Restore \/ RestoreFails \/ ImporterExits

FileSpec == FileInit /\ [][FileNext]_fileVars

-----------------------------------------------------------------------------
FileTypeOK ==
  /\ owner \in Instances \cup {None} /\ file.id \in 0 .. LastId
  /\ \A i \in Instances : job[i].pc \in {"idle", "wait", "held", "staged", "down"}
(* No change of an instance is lost or half done to another one's: the     *)
(* file holds every committed edit, in the order of their commits, though  *)
(* each replaces the whole file by a copy taken before (Lock, Update).     *)
(* Only a restore may overwrite one: the change another instance committed *)
(* after the import had failed or while the next instance came up          *)
(* (ConfigImport Restore).                                                 *)
NoUpdateLost == undone \/ file = want
(* The launch history belongs to the profile that exists: deleting and     *)
(* making a profile again under the same name never revives the history    *)
(* of the old one, nor does a late launch add to it (BindProfile).         *)
HistoryOwned == \A k \in DOMAIN file.hist : file.prof # 0 /\ file.hist[k].id = file.id /\ file.id # 0
(* A history is readable: it has no launch twice, and between changes no   *)
(* more than KeepMost entries and KeepUnpinned unpinned ones, but for one  *)
(* entry for each change that was cut short after it wrote its record      *)
(* (ReadBound, Write).                                                     *)
HistoryBounded ==
  /\ IsInjective(Apps(file.hist))
  /\ owner = None => Len(file.hist) <= KeepMost + deaths /\ Len(Unpinned(file.hist)) <= KeepUnpinned + deaths
(* An import replaces only what it has backed up: a change made between    *)
(* the backup and the restart is kept, and the import given up             *)
(* (ArmRestart, FinishAfterShutdown).                                      *)
ImportSound == ~clobbered

(* No instance loses another's change of the settings file but by the      *)
(* restore of an import, a history belongs to its profile and stays        *)
(* readable, and an import replaces only what it has a copy of             *)
(* (ConfigStorage, RecentApplications, ConfigImport).                      *)
FileSound == FileTypeOK /\ NoUpdateLost /\ HistoryOwned /\ HistoryBounded /\ ImportSound
=============================================================================
