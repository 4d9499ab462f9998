------------------------------- MODULE MCHost -------------------------------
(* What runs in the window threads of the program itself, for TLC: the TLS *)
(* layer to a secure proxy (SecureLayer), the proxy test (ProxyTest), the   *)
(* profile page (ProfilePage), the settings file several instances share   *)
(* (SettingsFile) and the launch history's caches (RecentCache).  They     *)
(* share no state, so one of them moves in a behaviour and the others stay *)
(* at their start.                                                         *)
EXTENDS SecureLayer, ProxyTest, SettingsFile, ProfilePage

CONSTANTS Profiles, Loads, Cap, Budgets

VARIABLES moves,
          budget, ver, edit, ctx, loads, entry, order, cat, panel, picker, launch

rv == <<budget, ver, edit, ctx, loads, entry, order, cat, panel, picker, launch>>

Recent == INSTANCE RecentCache WITH page <- panel

(* Situations of SecureLayer: units in and out, a reset, an early FIN.     *)
Scope(in, out, fail, early) == [in |-> in, out |-> out, fail |-> fail, early |-> early]
MCScopes == {Scope(3, 0, FALSE, TRUE), Scope(3, 0, FALSE, FALSE), Scope(1, 1, FALSE, FALSE),
             Scope(1, 0, TRUE, FALSE), Scope(0, 1, TRUE, FALSE)}

(* Every setting the proxy test tells apart.                               *)
MCTestPlans == [proxy : {"direct", "socks5", "socks4", "http11"}, udp : BOOLEAN, probe : BOOLEAN]

(* Situations of ProfilePage: a user and another instance, with the tray.  *)
Stroke(user, tray, others) == [user |-> user, tray |-> tray, others |-> others]
MCStrokes == {Stroke(3, 0, 0), Stroke(2, 0, 1), Stroke(1, 1, 1), Stroke(2, 2, 0)}

(* Situations of SettingsFile: many changes, a death, an import.           *)
Chore(jobs, died, imports) == [jobs |-> jobs, deaths |-> died, imports |-> imports]
MCChores == {Chore(5, 1, 0), Chore(2, 1, 1)}

(* Situations of RecentCache: changes of the history here and outside, of  *)
(* what runs, and loads that fail or cannot be started.                    *)
Budget(e, o, c, p, r, f, s) == [edits |-> e, outside |-> o, context |-> c, opens |-> p,
                                refreshes |-> r, faults |-> f, starved |-> s]
MCBudgets == {Budget(0, 1, 1, 1, 1, 0, FALSE), Budget(0, 0, 1, 1, 1, 1, FALSE),
              Budget(2, 1, 0, 1, 0, 0, FALSE), Budget(1, 0, 1, 1, 0, 0, TRUE),
              Budget(0, 0, 2, 1, 0, 0, FALSE), Budget(1, 1, 1, 0, 0, 0, FALSE)}

MCInit ==
  /\ moves \in {"secure", "test", "page", "file", "recent"}
  /\ scope \in (IF moves = "secure" THEN Scopes ELSE {Scope(0, 1, TRUE, FALSE)}) /\ SecureInit
  /\ tplan \in (IF moves = "test" THEN TestPlans ELSE {[proxy |-> "socks5", udp |-> TRUE, probe |-> TRUE]})
  /\ TestInit
  /\ left \in (IF moves = "page" THEN Strokes ELSE {Stroke(3, 0, 0)}) /\ PageInit
  /\ chores \in (IF moves = "file" THEN Chores ELSE {Chore(5, 1, 0)}) /\ FileInit
  /\ budget \in (IF moves = "recent" THEN Budgets ELSE {Budget(0, 0, 2, 1, 0, 0, FALSE)}) /\ Recent!RecentInit
  /\ moves # "secure" => net.wire = Flight
  /\ moves # "page" => disk = [n \in Names |-> NoName]
  /\ moves # "file" => file = Defaults
  /\ moves # "recent" => ctx.sel = CHOOSE p \in Profiles : TRUE

MCNext ==
  \/ moves = "secure" /\ SecureNext        /\ UNCHANGED <<moves, testVars, pageVars, fileVars, rv>>
  \/ moves = "test"   /\ TestNext          /\ UNCHANGED <<moves, vars, pageVars, fileVars, rv>>
  \/ moves = "page"   /\ PageNext          /\ UNCHANGED <<moves, vars, testVars, fileVars, rv>>
  \/ moves = "file"   /\ FileNext          /\ UNCHANGED <<moves, vars, testVars, pageVars, rv>>
  \/ moves = "recent" /\ Recent!RecentNext /\ UNCHANGED <<moves, vars, testVars, pageVars, fileVars>>

MCSpec == MCInit /\ [][MCNext]_<<moves, vars, testVars, pageVars, fileVars, rv>>

(* A shared load lives exactly as long as somebody uses it; the cache, the *)
(* launch panel and the picker never show a history older than the last    *)
(* change of this process once the load that read it is done, and what is  *)
(* chosen is launched under the profile it was chosen for.  (The parts are *)
(* explained in RecentCache.)                                              *)
RecentSound ==
  moves = "recent" => /\ Recent!RecentTypeOK /\ Recent!RefsExact /\ Recent!CacheSound
                      /\ Recent!ViewsSound /\ Recent!LaunchedRight
=============================================================================
