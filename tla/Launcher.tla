------------------------------ MODULE Launcher ------------------------------
(***************************************************************************)
(* One launch of an application by the user interface (CPage3): ordinary   *)
(* programs created suspended, injected and resumed, packaged ones         *)
(* activated by the shell and attached to (LaunchPackagedAppById), and     *)
(* programs that need administrator rights, which an elevated helper       *)
(* starts (LaunchElevatedAndProxy, ElevatedLaunch).  The paths fall back   *)
(* on each other.  Paths, arguments and the encoding of the helper's       *)
(* request are left out; a request it cannot decode or whose fields it     *)
(* rejects is one fault.                                                   *)
(***************************************************************************)
EXTENDS Integers, Sequences

CONSTANTS Attempts,   \* attachments tried on a packaged application, 15 in the code
          Requests    \* launches to explore, see MCEngine

VARIABLES request,    \* what is launched, and which steps may fail
          stage,      \* where the launch is
          back,       \* where LaunchPackagedAppAndProxy returns to
          tries,      \* attachments tried
          target,     \* the processes started for this launch
          verdict,    \* AppLaunchResult, "none" until then
          stuck       \* history: a resume failed and failed again, or the helper was killed

lvars == <<request, stage, back, tries, target, verdict, stuck>>

-----------------------------------------------------------------------------
LaunchInit ==
  /\ request \in Requests
  /\ stage = "begin" /\ back = "none" /\ tries = 0
  /\ target = <<>> /\ verdict = "none" /\ stuck = FALSE

(* A step succeeds, or fails where the situation lets it. *)
May(step) == {TRUE} \cup (IF step \in request.faults THEN {FALSE} ELSE {})

Process(how, frozen, hooked) ==
  [how |-> how, alive |-> TRUE, frozen |-> frozen, hooked |-> hooked, attached |-> FALSE]
Started(how) == target' = Append(target, Process(how, TRUE, FALSE))
Now == target[Len(target)]
Change(f, v) == [target EXCEPT ![Len(target)] = [@ EXCEPT ![f] = v]]
Killed == Change("alive", FALSE)

Go(s)     == stage' = s /\ UNCHANGED verdict
Finish(r) == stage' = "end" /\ verdict' = r

(* LaunchAndProxyApp up to CreateProcess: shortcuts to packaged            *)
(* applications are activated, installed packages too but with             *)
(* CreateProcess to fall back on.                                          *)
LaunchAndProxyApp ==
  /\ stage = "begin"
  /\ CASE request.kind = "invalid"  -> Finish("INVALID_TARGET") /\ UNCHANGED back
       [] request.kind = "shortcut" -> Go("activate") /\ back' = "end"
       [] request.kind = "package"  -> Go("activate") /\ back' = "create"
       [] request.kind = "program"  ->
            Go(IF request.admin THEN "elevate" ELSE "create") /\ UNCHANGED back
  /\ UNCHANGED <<request, tries, target, stuck>>

(* What follows the packaged attempt: a process that was activated is      *)
(* never started again.                                                    *)
AfterPackaged(r) ==
  IF r \in {"SUCCESS", "PACKAGED_INJECTION_FAILED"} \/ back = "end" THEN Finish(r)
  ELSE IF back = "failed" THEN Finish("CREATE_PROCESS_FAILED")
  ELSE IF request.admin THEN Go("elevate") ELSE Go("create")

(* CreateProcess, suspended.  An error may mean that rights are missing or *)
(* that the file belongs to a package.                                     *)
Create ==
  /\ stage = "create" /\ UNCHANGED <<request, tries, stuck>>
  /\ \E ok \in May("create") :
       IF ok THEN Started("create") /\ Go("inject") /\ UNCHANGED back
       ELSE /\ UNCHANGED target
            /\ CASE request.error = "elevation" -> Go("elevate") /\ UNCHANGED back
                 [] request.error = "package" -> Go("activate") /\ back' = "failed"
                 [] OTHER -> Finish("CREATE_PROCESS_FAILED") /\ UNCHANGED back

(* InjectNewProcess; a strict launch does not run unproxied. *)
GivesUp(ok)       == ~ok /\ request.strict
Inject ==
  /\ stage = "inject" /\ UNCHANGED <<request, back, tries, stuck>>
  /\ \E ok \in May("inject") :
       IF GivesUp(ok) THEN target' = Killed /\ Finish("INJECTION_FAILED")
       ELSE target' = Change("hooked", ok) /\ Go("resume")

(* ResumeThread; a process that cannot be resumed is ended. *)
ForgetFrozen == target
EndFrozen    == Killed
Resume ==
  /\ stage = "resume" /\ UNCHANGED <<request, back, tries, stuck>>
  /\ \E ok \in May("resume") :
       IF ok THEN target' = Change("frozen", FALSE) /\ Finish("SUCCESS")
       ELSE target' = EndFrozen /\ Finish("CREATE_PROCESS_FAILED")

-----------------------------------------------------------------------------
(* LaunchPackagedAppById. *)

(* Activation may return a process that runs already, hooked or not. *)
ActivatePackagedApp ==
  /\ stage = "activate" /\ UNCHANGED <<request, back, tries, stuck>>
  /\ \E ok \in May("activate"), old \in request.running :
       IF ok THEN /\ target' = Append(target, Process(IF old = "none" THEN "activate" ELSE "found",
                                                      FALSE, old = "hooked"))
                  /\ Go("authorize")
       ELSE UNCHANGED target /\ AfterPackaged("CREATE_PROCESS_FAILED")

(* OpenProcess, the registry's answer for a launch on behalf of another    *)
(* process, the pipe's grant, and the user's filter, all before the        *)
(* application is frozen.                                                  *)
Authorize ==
  /\ stage = "authorize" /\ UNCHANGED <<request, back, tries, target, stuck>>
  /\ \E ok \in May("authorize") :
       IF ~ok THEN AfterPackaged("PACKAGED_INJECTION_FAILED")
       ELSE IF request.remote /\ Now.hooked THEN AfterPackaged("SUCCESS") ELSE Go("freeze")

(* CScopedProcessSuspension: without it the attachment goes on. *)
Freeze ==
  /\ stage = "freeze" /\ Go("attach")
  /\ \E ok \in May("freeze") : target' = Change("frozen", ok)
  /\ UNCHANGED <<request, back, tries, stuck>>

LastTry(n) == n = Attempts
Attach ==
  /\ stage = "attach" /\ UNCHANGED <<request, back, stuck>>
  /\ tries' = tries + 1
  /\ \E ok \in May("attach") :
       /\ target' = IF ok THEN [target EXCEPT ![Len(target)] = [@ EXCEPT !.hooked = TRUE, !.attached = TRUE]] ELSE target
       /\ IF ok \/ LastTry(tries') THEN Go("thaw") ELSE Go("attach")

(* Resume, and once more in the destructor when that failed. *)
NotRetried == UNCHANGED <<target, stuck>>
Retried    == \E again \in May("thawAgain") :
                target' = Change("frozen", ~again) /\ stuck' = ~again

Thaw ==
  /\ stage = "thaw" /\ UNCHANGED <<request, back, tries>>
  /\ \E ok \in (IF Now.frozen THEN May("thaw") ELSE {TRUE}) :
       IF ok THEN /\ target' = Change("frozen", FALSE) /\ UNCHANGED stuck
                  /\ IF Now.attached /\ request.remote THEN Go("wait")
                     ELSE AfterPackaged(IF Now.attached THEN "SUCCESS" ELSE "PACKAGED_INJECTION_FAILED")
       ELSE Retried /\ AfterPackaged("PACKAGED_INJECTION_FAILED")

(* On behalf of another process the outcome is the hook's own report; the  *)
(* wait ends with it, with the process, or after ten seconds.              *)
Wait ==
  /\ stage = "wait" /\ UNCHANGED <<request, back, tries, stuck>>
  /\ \E report \in {"succeeded", "failed", "none"} :
       /\ target' = Change("hooked", report # "failed")
       /\ AfterPackaged(IF report = "succeeded" THEN "SUCCESS" ELSE "PACKAGED_INJECTION_FAILED")

-----------------------------------------------------------------------------
(* LaunchElevatedAndProxy and the helper it waits for. *)

ShellExecute ==
  /\ stage = "elevate" /\ UNCHANGED <<request, back, tries, target, stuck>>
  /\ \E ok \in May("uac") :
       IF ok THEN Go("helper") ELSE \E r \in {"UAC_CANCELLED", "ELEVATED_HELPER_FAILED"} : Finish(r)

(* The helper's exit code, as the waiting side translates it. *)
Translate(code) ==
  CASE code = "SUCCESS" -> "SUCCESS"
    [] code \in {"INVALID_TARGET", "INJECTION_FAILED"} -> code
    [] code = "CREATE_FAILED" -> "CREATE_PROCESS_FAILED"
    [] code \in {"INVALID_REQUEST", "NOT_ELEVATED", "RESUME_FAILED", "killed"} -> "ELEVATED_HELPER_FAILED"

(* ElevatedLaunch as far as CreateProcess. *)
HelperStarts ==
  /\ stage = "helper" /\ UNCHANGED <<request, back, tries, stuck>>
  /\ \/ Started("elevated") /\ Go("helperInject")
     \/ \E code \in {"INVALID_REQUEST", "NOT_ELEVATED", "INVALID_TARGET", "CREATE_FAILED"} :
          request.faults # {} /\ Finish(Translate(code)) /\ UNCHANGED target

HelperKills == Killed
HelperInjects ==
  /\ stage = "helperInject" /\ UNCHANGED <<request, back, tries, stuck>>
  /\ \E ok \in May("inject") :
       IF ok THEN target' = Change("hooked", TRUE) /\ Go("helperResume")
       ELSE target' = HelperKills /\ Finish(Translate("INJECTION_FAILED"))

HelperResumes ==
  /\ stage = "helperResume" /\ UNCHANGED <<request, back, tries, stuck>>
  /\ \E ok \in May("resume") :
       IF ok THEN target' = Change("frozen", FALSE) /\ Finish(Translate("SUCCESS"))
       ELSE target' = HelperKills /\ Finish(Translate("RESUME_FAILED"))

(* Somebody ends the helper; the waiting side sees the exit code only. *)
HelperDies ==
  /\ stage \in {"helper", "helperInject", "helperResume"} /\ "killed" \in request.faults
  /\ stuck' = (stage # "helper") /\ Finish(Translate("killed"))
  /\ UNCHANGED <<request, back, tries, target>>

LaunchNext ==
  \/ LaunchAndProxyApp \/ Create \/ Inject \/ Resume
  \/ ActivatePackagedApp \/ Authorize \/ Freeze \/ Attach \/ Thaw \/ Wait
  \/ ShellExecute \/ HelperStarts \/ HelperInjects \/ HelperResumes \/ HelperDies

LaunchSpec == LaunchInit /\ [][LaunchNext]_lvars

-----------------------------------------------------------------------------
(* Types, and a result exactly at the end. *)
LaunchTypeOK ==
  /\ tries \in 0..Attempts
  /\ (verdict # "none") = (stage = "end")
  /\ \A i \in DOMAIN target : target[i].how \in {"create", "activate", "found", "elevated"}

(* Whatever path falls back on whatever other, an application is started   *)
(* at most once (LaunchAndProxyApp).                                       *)
StartsOnce == Len(target) <= 1

(* No launch leaves a process suspended, unless resuming failed twice or   *)
(* the elevated helper was ended from outside.                             *)
NoneLeftFrozen ==
  stage = "end" /\ ~stuck => \A i \in DOMAIN target : target[i].alive => ~target[i].frozen

(* Success means proxied: always for packaged and elevated launches, for   *)
(* ordinary ones when the launch is strict.                                *)
SuccessIsHooked ==
  verdict = "SUCCESS" =>
    /\ Len(target) = 1 /\ Now.alive
    /\ Now.hooked \/ (Now.how = "create" /\ ~request.strict)

(* After a failure the user may start the application again: what this     *)
(* launch created itself is gone.                                          *)
FailureLeavesNone ==
  stage = "end" /\ verdict # "SUCCESS" /\ ~stuck =>
    \A i \in DOMAIN target : target[i].how \in {"create", "elevated"} => ~target[i].alive

(* However LaunchAndProxyApp's steps fail and fall back on each other, the *)
(* program is started once, no failed launch leaves a process and none is  *)
(* left suspended; a strict launch that succeeded has hooked its program.  *)
LaunchSound ==
  LaunchTypeOK /\ StartsOnce /\ FailureLeavesNone /\ NoneLeftFrozen /\ SuccessIsHooked

=============================================================================
