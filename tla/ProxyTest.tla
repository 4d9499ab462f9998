----------------------------- MODULE ProxyTest -----------------------------
(* The proxy test of the settings page: CPage1 starts a CProxyTester for   *)
(* each phase (TCP, then UDP, then IPv6), the tester reports once through  *)
(* OnProxyTesterCallback, and the outcome is shown in a message box whose  *)
(* own message loop goes on dispatching socket events, timers and the      *)
(* deletion of testers.  Everything runs on the user interface thread.     *)
EXTENDS Naturals, FiniteSets

CONSTANTS Ids,       \* addresses of testers, used again after a deletion
          TestPlans  \* settings under test

(* No tester has the address NULL; a switch of the settings is on or off.  *)
ASSUME TestAssumption == 0 \notin Ids /\ \A s \in TestPlans : s.udp \in BOOLEAN

VARIABLES tplan,    \* the settings: proxy, udp (UDP hooked), probe (IPv6 address is valid)
          page,     \* tester, testing, phase, udp, v6, blocked of CPage1
          tester,   \* id -> CProxyTester
          deletes,  \* WM_DELTESTER messages of the manager's window
          box,      \* the open message box
          crashed,  \* ghost: a call through m_pProxyTester = NULL
          passed,   \* ghost: phases of this test whose tester reported success
          verdicts, \* ghost: result boxes of this test
          foreign   \* ghost: a tester that is not the page's reported

testVars == <<tplan, page, tester, deletes, box, crashed, passed, verdicts, foreign>>

NoBox == [kind |-> "none", inner |-> FALSE]
Gone  == [there |-> FALSE, listed |-> FALSE, dgram |-> FALSE, done |-> FALSE, timer |-> "off",
          open |-> FALSE, ready |-> FALSE]

TestInit ==
  /\ tplan \in TestPlans
  /\ page = [tester |-> 0, testing |-> FALSE, phase |-> "none", udp |-> FALSE, v6 |-> "notrun", blocked |-> FALSE]
  /\ tester = [t \in Ids |-> Gone]
  /\ deletes = {} /\ box = NoBox /\ crashed = FALSE /\ passed = {} /\ verdicts = 0 /\ foreign = FALSE

(* CProxyTester::Stop disarms the timer and closes the socket; Release     *)
(* also takes the tester out of the list and posts its deletion.           *)
Stop(T, t)    == [T EXCEPT ![t] = [@ EXCEPT !.timer = "off", !.open = FALSE]]
Release(T, t) == IF t = 0 THEN T ELSE [Stop(T, t) EXCEPT ![t].listed = FALSE]
Posted(t)     == IF t = 0 \/ ~tester[t].listed THEN deletes ELSE deletes \cup {t}
(* Complete reports at most once: it marks the tester before it reports.   *)
Complete(T, t) == Stop([T EXCEPT ![t].done = TRUE], t)

(* CreateTester, Start and AddProxyLayer: the tester is listed, its timer  *)
(* runs before the socket is made, and the socket connects (to the proxy,  *)
(* for UDP over a connection of its own) or Start fails.                   *)
Begun(T, t, dgram) == [T EXCEPT ![t] = [Gone EXCEPT !.there = TRUE, !.listed = TRUE, !.dgram = dgram,
                                                    !.timer = "connect", !.open = TRUE]]
Addresses(T) == {t \in Ids : ~T[t].there}
(* A refused connect() to the proxy is reported through the layer's        *)
(* callback inside Start; without a proxy Start just fails.                *)
StartOutcomes == {"ok", "fail"} \cup (IF tplan.proxy = "direct" THEN {} ELSE {"inside"})

SupportsIpv6ProxyTest == tplan.proxy \in {"direct", "socks5", "http11"}
ClassifyIpv6TestResult(code) ==
  CASE code = "none" -> "available"
    [] code \in {"target", "unreachable"} -> "targetfailed"
    [] OTHER -> "unknown"

(* The result box.  Success asks whether IPv6 is to be blocked when it did *)
(* not work and is not blocked yet.                                        *)
Verdict(ok, v6, inner) ==
  box' = [kind |-> IF ~ok THEN "failed"
                   ELSE IF v6 \in {"targetfailed", "unsupported"} /\ ~page.blocked THEN "ask" ELSE "passed",
          inner |-> inner]

(* StartProxyTestPhase in the callback of a tester that was released.  On  *)
(* an outcome inside Start the callback runs again, for the new tester.    *)
StartUdp(T, p) ==
  \E outcome \in StartOutcomes, n \in Addresses(T) :
     \/ /\ outcome = "ok"
        /\ tester' = Begun(T, n, TRUE) /\ page' = [p EXCEPT !.tester = n, !.phase = "udp"]
        /\ deletes' = Posted(page.tester) /\ UNCHANGED <<box, verdicts>>
     \/ /\ outcome = "fail"
        /\ tester' = Release(Begun(T, n, TRUE), n)
        /\ page' = [p EXCEPT !.tester = 0, !.phase = "none"] /\ deletes' = Posted(page.tester) \cup {n}
        /\ Verdict(FALSE, p.v6, FALSE) /\ verdicts' = verdicts + 1
     \/ /\ outcome = "inside"
        /\ tester' = Complete(Begun(T, n, TRUE), n) /\ page' = [p EXCEPT !.tester = n, !.phase = "udp"]
        /\ deletes' = Posted(page.tester)
        /\ Verdict(FALSE, p.v6, TRUE) /\ verdicts' = verdicts + 1
NoIpv6(T, p, v6) ==
  /\ tester' = T /\ page' = [p EXCEPT !.tester = 0, !.v6 = v6] /\ deletes' = Posted(page.tester)
  /\ Verdict(TRUE, v6, FALSE) /\ verdicts' = verdicts + 1
StartIpv6ProxyTest(T, p) ==
  \/ ~SupportsIpv6ProxyTest /\ NoIpv6(T, p, "unsupported")
  \/ SupportsIpv6ProxyTest /\ ~tplan.probe /\ NoIpv6(T, p, "invalid")
  \/ /\ SupportsIpv6ProxyTest /\ tplan.probe
     /\ \E outcome \in StartOutcomes, n \in Addresses(T), code \in {"unreachable", "other"} :
          \/ /\ outcome = "ok"
             /\ tester' = Begun(T, n, FALSE) /\ page' = [p EXCEPT !.tester = n, !.phase = "ipv6"]
             /\ deletes' = Posted(page.tester) /\ UNCHANGED <<box, verdicts>>
          \/ /\ outcome = "fail"
             /\ tester' = Release(Begun(T, n, FALSE), n)
             /\ page' = [p EXCEPT !.tester = 0, !.phase = "none", !.v6 = ClassifyIpv6TestResult(code)]
             /\ deletes' = Posted(page.tester) \cup {n}
             /\ Verdict(TRUE, ClassifyIpv6TestResult(code), FALSE) /\ verdicts' = verdicts + 1
          \/ /\ outcome = "inside"
             /\ tester' = Complete(Begun(T, n, FALSE), n)
             /\ page' = [p EXCEPT !.tester = n, !.phase = "ipv6", !.v6 = ClassifyIpv6TestResult("other")]
             /\ deletes' = Posted(page.tester)
             /\ Verdict(TRUE, ClassifyIpv6TestResult("other"), TRUE) /\ verdicts' = verdicts + 1

(* OnProxyTesterCallback with the outcome of a phase: the tester is        *)
(* stopped first, then the next phase starts or the result is shown.       *)
Shown(t, p, ok) ==
  /\ tester' = Complete(tester, t) /\ page' = p /\ Verdict(ok, p.v6, FALSE)
  /\ verdicts' = verdicts + 1 /\ UNCHANGED deletes
WantsUdpLate == page.phase = "udp" /\ page.udp   \* mutant: asked when the phase is over
WantsUdp == page.phase = "tcp" /\ page.udp
OnProxyTesterCallback(t, code) ==
  /\ foreign' = (foreign \/ t # page.tester)
  /\ passed' = IF code = "none" THEN passed \cup {page.phase} ELSE passed
  /\ UNCHANGED <<tplan, crashed>>
  /\ \/ /\ page.phase = "ipv6"
        /\ Shown(t, [page EXCEPT !.v6 = ClassifyIpv6TestResult(code)], TRUE)
     \/ page.phase # "ipv6" /\ code = "none" /\ WantsUdp
        /\ StartUdp(Release(Complete(tester, t), t), [page EXCEPT !.tester = 0])
     \/ page.phase \in {"tcp", "udp"} /\ code = "none" /\ ~WantsUdp
        /\ StartIpv6ProxyTest(Release(Complete(tester, t), t), [page EXCEPT !.tester = 0])
     \/ page.phase # "ipv6" /\ code # "none" /\ Shown(t, page, FALSE)

(* OnBnClickedTestproxy: a message box disables the page, so the button is *)
(* pressed only without one.                                               *)
Enabled == box = NoBox /\ ~crashed
Cancel ==
  /\ Enabled /\ page.testing /\ page.tester # 0
  /\ tester' = Release(tester, page.tester) /\ deletes' = Posted(page.tester)
  /\ page' = [page EXCEPT !.tester = 0, !.testing = FALSE, !.phase = "none", !.v6 = "notrun"]
  /\ UNCHANGED <<tplan, box, crashed, passed, verdicts, foreign>>
Cleared == [page EXCEPT !.tester = 0, !.testing = FALSE, !.phase = "none", !.v6 = "notrun", !.udp = FALSE]
OnBnClickedTestproxy ==
  /\ Enabled /\ ~(page.testing /\ page.tester # 0)
  /\ passed' = {}
  /\ \/ /\ box' = [kind |-> "invalid", inner |-> FALSE]
        /\ page' = Cleared /\ tester' = Release(tester, page.tester) /\ deletes' = Posted(page.tester)
        /\ verdicts' = 0
     \/ \E outcome \in StartOutcomes, n \in Addresses(tester) :
          \/ /\ outcome = "ok" /\ verdicts' = 0
             /\ tester' = Begun(Release(tester, page.tester), n, FALSE) /\ deletes' = Posted(page.tester)
             /\ page' = [Cleared EXCEPT !.tester = n, !.testing = TRUE, !.phase = "tcp",
                                        !.udp = tplan.udp /\ tplan.proxy = "socks5"]
             /\ UNCHANGED box
          \/ /\ outcome = "fail" /\ verdicts' = 0
             /\ tester' = Release(Begun(Release(tester, page.tester), n, FALSE), n)
             /\ deletes' = Posted(page.tester) \cup {n}
             /\ page' = [Cleared EXCEPT !.udp = tplan.udp /\ tplan.proxy = "socks5"]
             /\ box' = [kind |-> "start", inner |-> FALSE]
          \/ /\ outcome = "inside" /\ verdicts' = 1
             /\ tester' = Complete(Begun(Release(tester, page.tester), n, FALSE), n)
             /\ deletes' = Posted(page.tester)
             /\ page' = [Cleared EXCEPT !.tester = n, !.phase = "tcp",
                                        !.udp = tplan.udp /\ tplan.proxy = "socks5"]
             /\ Verdict(FALSE, "notrun", TRUE)
  /\ UNCHANGED <<tplan, crashed, foreign>>

(* The user answers the box.  After a result the page lets go of its       *)
(* tester; if the callback ran inside Start, Start then fails and          *)
(* StartProxyTestPhase releases a tester the page no longer has.           *)
CloseBox ==
  /\ ~crashed /\ box # NoBox /\ box' = NoBox
  /\ IF box.kind \in {"invalid", "start"}
     THEN page' = [page EXCEPT !.phase = "none"] /\ UNCHANGED <<tester, deletes, crashed>>
     ELSE /\ tester' = Release(tester, page.tester) /\ deletes' = Posted(page.tester)
          /\ \E yes \in IF box.kind = "ask" THEN BOOLEAN ELSE {FALSE} :
               page' = [page EXCEPT !.tester = 0, !.testing = FALSE, !.phase = "none", !.blocked = @ \/ yes]
          /\ crashed' = box.inner
  /\ UNCHANGED <<tplan, passed, verdicts, foreign>>

(* Events of a tester's socket; a closed socket has none.  OnConnect and   *)
(* OnReceive of CProxyTester, and the failures that OnClose, OnReceive and *)
(* OnLayerCallback report.                                                 *)
Hears(t) == ~crashed /\ tester[t].there /\ tester[t].open /\ ~tester[t].done
OnConnectTcp(t) == Hears(t) /\ ~tester[t].dgram /\ OnProxyTesterCallback(t, "none")
OnConnectUdp(t) ==
  /\ Hears(t) /\ tester[t].dgram /\ ~tester[t].ready
  /\ tester' = [tester EXCEPT ![t] = [@ EXCEPT !.ready = TRUE, !.timer = "reply"]]
  /\ UNCHANGED <<tplan, page, deletes, box, crashed, passed, verdicts, foreign>>
OnReply(t) == Hears(t) /\ tester[t].ready /\ OnProxyTesterCallback(t, "none")
OnFailure(t) == Hears(t) /\ \E code \in {"target", "unreachable", "other"} : OnProxyTesterCallback(t, code)

(* OnTimer looks the tester up in the list before it touches it.           *)
OnTimer(t) ==
  /\ ~crashed /\ tester[t].timer # "off"
  /\ \/ tester[t].listed /\ ~tester[t].done /\ OnProxyTesterCallback(t, "other")
     \/ /\ ~tester[t].listed \/ tester[t].done
        /\ tester' = [tester EXCEPT ![t].timer = "off"]
        /\ UNCHANGED <<tplan, page, deletes, box, crashed, passed, verdicts, foreign>>
(* WM_DELTESTER; the loop of an open box dispatches it as well.            *)
DeleteTester(t) ==
  /\ ~crashed /\ t \in deletes /\ deletes' = deletes \ {t}
  /\ tester' = [tester EXCEPT ![t] = [Gone EXCEPT !.timer = tester[t].timer]]
  /\ UNCHANGED <<tplan, page, box, crashed, passed, verdicts, foreign>>

TestNext ==
  \/ Cancel \/ OnBnClickedTestproxy \/ CloseBox
  \/ \E t \in Ids : OnConnectTcp(t) \/ OnConnectUdp(t) \/ OnReply(t) \/ OnFailure(t) \/ OnTimer(t) \/ DeleteTester(t)

TestSpec == TestInit /\ [][TestNext]_testVars

-----------------------------------------------------------------------------
TestTypeOK ==
  /\ page.tester \in Ids \cup {0} /\ page.phase \in {"none", "tcp", "udp", "ipv6"}
  /\ deletes \subseteq Ids
  /\ box.kind \in {"none", "invalid", "start", "failed", "ask", "passed"}
(* Every report comes from the tester the page holds (the assertion in     *)
(* OnProxyTesterCallback): a released one is silent.                       *)
ReportsAreCurrent == ~foreign
(* Without a box the page is testing exactly when it has a tester and a    *)
(* phase, so the button cancels what runs and nothing else.                *)
PageConsistent ==
  box = NoBox /\ ~crashed => /\ page.testing <=> page.tester # 0
                             /\ page.testing <=> page.phase # "none"
(* A tester at work always has its timer, so a test ends however silent    *)
(* the proxy is; a timer belongs to a listed tester that has not reported. *)
TestTimed ==
  \A t \in Ids : tester[t].timer # "off" <=> tester[t].listed /\ ~tester[t].done
(* Only the page's tester is in the list, and every tester out of it is    *)
(* deleted by exactly one message.                                         *)
TestersFreed ==
  /\ \A t \in Ids : tester[t].listed => page.tester = t
  /\ \A t \in Ids : tester[t].there /\ ~tester[t].listed <=> t \in deletes
(* One result per test, and a success is shown only when every phase asked *)
(* for has succeeded; IPv6 is called available only when it was reached.   *)
VerdictHonest ==
  /\ verdicts <= 1
  /\ box.kind \in {"ask", "passed"} =>
       /\ "tcp" \in passed /\ (page.udp => "udp" \in passed)
       /\ page.v6 = "available" => "ipv6" \in passed

(* Only the tester the page waits for reports to it; a test that runs has  *)
(* a timer, every tester is freed, and a verdict says what the phases of   *)
(* this test found (OnProxyTesterCallback, CProxyTesterMgr).               *)
TestSound ==
  /\ TestTypeOK /\ ReportsAreCurrent /\ PageConsistent /\ TestTimed /\ TestersFreed /\ VerdictHonest

=============================================================================
