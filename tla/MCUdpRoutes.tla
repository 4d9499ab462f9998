---------------------------- MODULE MCUdpRoutes ----------------------------
(* Destinations for model checking UdpRoutes: two private resolvers and the
   public one; two names, one of which has the address of an IP destination
   on the same port; another address and another port. *)
EXTENDS UdpRoutes, TLC

Dest(h, p, dom, private) == [host |-> h, port |-> p, dom |-> dom, private |-> private]
PublicDns == Dest("9.9.9.9", 53, FALSE, FALSE)
Router    == Dest("10.0.0.1", 53, FALSE, TRUE)
Router2   == Dest("10.0.0.2", 53, FALSE, TRUE)
Site      == Dest("site", 443, TRUE, FALSE)
Site2     == Dest("site2", 443, TRUE, FALSE)
SiteIP    == Dest("1.1.1.1", 443, FALSE, FALSE)
OtherIP   == Dest("2.2.2.2", 443, FALSE, FALSE)
Ntp       == Dest("1.1.1.1", 123, FALSE, FALSE)

MCHome(host) == "1.1.1.1"
MCDests == {PublicDns, Router, Router2, Site, Site2, SiteIP, OtherIP, Ntp}
\* The redirection matters to the resolvers only.
Scope(dests, apply, lose, fail) ==
    [dests |-> dests, apply |-> apply, lose |-> lose, fail |-> fail,
     first |-> IF \E d \in dests : d.port = 53 THEN BOOLEAN ELSE {TRUE}]

\* Nobody interferes: redirected resolvers, names, addresses on one port.
\* The pipe fails: calls and answers are lost.
\* The tables of the hook are not told: lost tasks, a switched redirection.
Stable == {Scope({Router, Router2}, FALSE, FALSE, FALSE),
           Scope({Router, PublicDns}, FALSE, FALSE, FALSE),
           Scope({Site, Site2}, FALSE, FALSE, FALSE),
           Scope({Site, SiteIP, Ntp}, FALSE, FALSE, FALSE)}
Failing == {Scope({Router}, FALSE, FALSE, TRUE), Scope({Site, SiteIP}, FALSE, FALSE, TRUE)}
Disturbed == {Scope({Router}, TRUE, FALSE, TRUE), Scope({Router}, FALSE, TRUE, TRUE)}
AllScopes == Stable \cup Failing \cup Disturbed

Symmetry == Permutations(Handles) \cup Permutations(Threads) \cup Permutations(Ports)
=============================================================================
