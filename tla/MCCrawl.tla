------------------------------ MODULE MCCrawl ------------------------------
(* Small instances of Crawl for TLC: sites of three pages, robots.txt and a *)
(* foreign host, with repeated, circular and foreign links and redirects.   *)
EXTENDS Crawl, TLC

CONSTANTS home, news, shop, robots, foreign

MCUrls == {home, news, shop, robots, foreign}
MCInScope == MCUrls \ {foreign}

Links(ls) == [kind |-> "page", links |-> ls, rules |-> {}]
Rules(us) == [kind |-> "page", links |-> <<>>, rules |-> us]
To(u) == [kind |-> "redirect", to |-> u]

MCSites ==
    {(home :> h) @@ (news :> n) @@ (shop :> s) @@ (robots :> r) @@ (foreign :> Links(<<>>)) :
        h \in {Links(<<news, shop>>), Links(<<shop, foreign, shop, news>>), To(news)},
        n \in {Links(<<home>>), Links(<<shop>>), To(shop), To(news), To(foreign)},
        s \in {Links(<<>>), Links(<<news>>), To(Nowhere), To(home)},
        r \in {Rules({}), Rules({shop}), Rules({home}), To(news)}}
MCStarts == {home, foreign}

Limit(u, d, r, b) == [urls |-> u, depth |-> d, redirects |-> r, robots |-> b]
MCLimits == {Limit(9, 9, 2, TRUE), Limit(9, 9, 1, FALSE), Limit(9, 1, 2, FALSE),
             Limit(3, 9, 2, FALSE), Limit(2, 9, 2, TRUE), Limit(1, 1, 2, TRUE)}
=============================================================================
