------------------------------- MODULE Crawl -------------------------------
(***************************************************************************)
(* WebScanner::crawl and the exchanges of the ScopedHttpClient it makes:   *)
(* robots.txt first, then page after page from a stack of URLs, following  *)
(* redirects by hand.                                                      *)
(*                                                                         *)
(* A URL is a model value.  InScope are those of the origin of the scan.   *)
(* What a server would answer at a URL is fixed for the length of a crawl, *)
(* but any request may fail: connection, timeout, body over the limit.     *)
(* A robots.txt is the set of URLs its prefixes rule out.  The crawl is    *)
(* one task; an action is one turn of a loop or one request.               *)
(***************************************************************************)
EXTENDS Integers, Sequences, FiniteSets

CONSTANTS
    Urls,
    InScope,        \* the URLs NetworkScope allows
    Nowhere,        \* a redirect without a usable Location; no URL
    RobotsTxt,      \* the URL of robots.txt
    Sites,          \* what servers may answer
    Starts,         \* where a crawl may start
    LimitSets       \* the limits a crawl may be given

Page == [kind : {"page"}, links : Seq(Urls), rules : SUBSET Urls]
Redirect == [kind : {"redirect"}, to : Urls \cup {Nowhere}]
\* crawl_max_urls, crawl_depth, max_redirects, respect_robots_txt
Limits == [urls : Nat \ {0}, depth : Nat, redirects : Nat, robots : BOOLEAN]

ASSUME UrlsAssumption ==
    /\ Nowhere \notin Urls
    /\ InScope \subseteq Urls
    /\ RobotsTxt \in InScope
    /\ Starts \subseteq Urls
ASSUME SitesAssumption ==
    \A s \in Sites : \A u \in Urls :
        \/ /\ s[u].kind = "page"
           /\ s[u].links \in Seq(Urls) /\ s[u].rules \subseteq Urls
        \/ s[u] \in Redirect
ASSUME LimitsAssumption == LimitSets \subseteq Limits

VARIABLES
    site, start, limits,
    pc,             \* where the crawl is
    rules,          \* what robots.txt rules out
    queue,          \* the stack of URLs to fetch, each with its depth
    visited,        \* the URLs fetched, or tried
    x,              \* the exchange under way
    hops,           \* request_count
    left,           \* links of the page at hand not yet looked at
    pages,          \* the pages collected: what was asked for, what came
    outcome,        \* what the scanner returns
    sent, requests, failed, cut     \* history

vars == <<site, start, limits, pc, rules, queue, visited, x, hops, left, pages,
          outcome, sent, requests, failed, cut>>
given == <<site, start, limits>>
history == <<sent, requests, failed, cut>>

-----------------------------------------------------------------------------

NoExchange == [asked |-> Nowhere, at |-> Nowhere, depth |-> 0, redirects |-> 0]
Exchange(u, d) == [asked |-> u, at |-> u, depth |-> d, redirects |-> 0]

\* Whether a URL may be asked for: the origin, and robots.txt if it counts.
Allowed(u) == u \in InScope /\ (limits.robots => u \notin rules)

Init ==
    /\ site \in Sites
    /\ start \in Starts
    /\ limits \in LimitSets
    /\ pc = "start"
    /\ rules = {}
    /\ queue = <<>>
    /\ visited = {}
    /\ x = NoExchange
    /\ hops = 0
    /\ left = <<>>
    /\ pages = {}
    /\ outcome = "none"
    /\ sent = {}
    /\ requests = 0
    /\ failed = {}
    /\ cut = {}

-----------------------------------------------------------------------------
(* The beginning *)

RejectStart ==
    /\ pc = "start"
    /\ start \notin InScope
    /\ outcome' = "error"
    /\ pc' = "done"
    /\ UNCHANGED <<given, rules, queue, visited, x, hops, left, pages, history>>

BeginCrawl ==
    /\ pc = "start"
    /\ start \in InScope
    /\ queue' = <<[url |-> start, depth |-> 0]>>
    /\ \/ /\ limits.robots
          /\ x' = Exchange(RobotsTxt, 0)
          /\ pc' = "robots"
       \/ /\ ~limits.robots
          /\ pc' = "loop"
          /\ UNCHANGED x
    /\ UNCHANGED <<given, rules, visited, hops, left, pages, outcome, history>>

-----------------------------------------------------------------------------
(* The exchange: one request after the other, up to the last redirect *)

\* The counter of the fetch of robots.txt is its own; a failure there means
\* that nothing is ruled out.
GiveUp(counted) ==
    /\ x' = NoExchange
    /\ pc' = "loop"
    /\ \/ /\ pc = "robots"
          /\ hops' = 0
          /\ rules' = {}
          /\ UNCHANGED failed
       \/ /\ pc = "page"
          /\ hops' = counted
          /\ failed' = failed \cup {x.asked}
          /\ UNCHANGED rules

\* Seeded bug: one request more than the budget.
BudgetLeft_OffByOne == hops <= limits.urls

\* The counter is compared as it was before this request.
BudgetLeft == hops < limits.urls

\* authorise, and the budget of requests; both before anything is sent.
Refused ==
    /\ pc \in {"robots", "page"}
    /\ x.at \notin InScope \/ ~BudgetLeft
    /\ GiveUp(hops + 1)
    /\ UNCHANGED <<given, queue, visited, left, pages, outcome, sent, requests, cut>>

Send ==
    /\ pc \in {"robots", "page"}
    /\ x.at \in InScope /\ BudgetLeft
    /\ sent' = sent \cup {[url |-> x.at, for |-> pc]}
    /\ requests' = IF pc = "page" THEN requests + 1 ELSE requests

SendFails ==
    /\ Send
    /\ GiveUp(hops + 1)
    /\ UNCHANGED <<given, queue, visited, left, pages, outcome, cut>>

\* Seeded bugs: nothing but the origin is checked of a redirect; nothing at all.
MayFollow_NoRobots(u) == u \in InScope
MayFollow_Anything(u) == u # Nowhere

\* A redirect is followed when the next hop is in scope and, for a page, not
\* ruled out.
MayFollow(u) ==
    /\ u \in InScope
    /\ pc = "page" /\ limits.robots => u \notin rules

Redirected ==
    /\ Send
    /\ site[x.at].kind = "redirect"
    /\ LET next == site[x.at].to
       IN  \/ /\ x.redirects < limits.redirects /\ MayFollow(next)
              /\ x' = [x EXCEPT !.at = next, !.redirects = @ + 1]
              /\ hops' = hops + 1
              /\ UNCHANGED <<pc, rules, failed>>
           \/ /\ ~(x.redirects < limits.redirects /\ MayFollow(next))
              /\ GiveUp(hops + 1)
    /\ UNCHANGED <<given, queue, visited, left, pages, outcome, cut>>

\* Whatever is served is read as a robots.txt.
TakeRobots ==
    /\ pc = "robots"
    /\ Send
    /\ site[x.at].kind = "page"
    /\ rules' = site[x.at].rules
    /\ hops' = 0
    /\ x' = NoExchange
    /\ pc' = "loop"
    /\ UNCHANGED <<given, queue, visited, left, pages, outcome, failed, cut>>

\* Seeded bug: a page reached by a redirect is not searched for links.
TakePage_Direct ==
    /\ pc = "page"
    /\ Send
    /\ site[x.at].kind = "page"
    /\ pages' = pages \cup {[asked |-> x.asked, got |-> x.at]}
    /\ hops' = hops + 1
    /\ \/ /\ x.depth < limits.depth /\ x.redirects = 0
          /\ left' = site[x.at].links
          /\ pc' = "links"
          /\ UNCHANGED <<x, cut>>
       \/ /\ x.depth >= limits.depth \/ x.redirects > 0
          /\ x' = NoExchange
          /\ pc' = "loop"
          /\ UNCHANGED <<left, cut>>
    /\ UNCHANGED <<given, rules, queue, visited, outcome, failed>>

TakePage ==
    /\ pc = "page"
    /\ Send
    /\ site[x.at].kind = "page"
    /\ pages' = pages \cup {[asked |-> x.asked, got |-> x.at]}
    /\ hops' = hops + 1
    /\ \/ /\ x.depth < limits.depth
          /\ left' = site[x.at].links
          /\ pc' = "links"
          /\ UNCHANGED <<x, cut>>
       \/ /\ x.depth >= limits.depth
          /\ cut' = cut \cup {"depth"}
          /\ x' = NoExchange
          /\ pc' = "loop"
          /\ UNCHANGED left
    /\ UNCHANGED <<given, rules, queue, visited, outcome, failed>>

-----------------------------------------------------------------------------
(* The links of a page *)

\* What waits counts like what was fetched, a URL that waits twice included.
PushLink ==
    /\ pc = "links" /\ left # <<>>
    /\ Cardinality(visited) + Len(queue) < limits.urls
    /\ Allowed(Head(left)) /\ Head(left) \notin visited
    /\ queue' = Append(queue, [url |-> Head(left), depth |-> x.depth + 1])
    /\ left' = Tail(left)
    /\ UNCHANGED <<given, pc, rules, visited, x, hops, pages, outcome, history>>

\* Links out of scope are dropped when the page is parsed, before the limit
\* is looked at.
PassLink ==
    /\ pc = "links" /\ left # <<>>
    /\ \/ Head(left) \notin InScope
       \/ /\ Cardinality(visited) + Len(queue) < limits.urls
          /\ ~Allowed(Head(left)) \/ Head(left) \in visited
    /\ left' = Tail(left)
    /\ UNCHANGED <<given, pc, rules, queue, visited, x, hops, pages, outcome, history>>

EndLinks ==
    /\ pc = "links"
    /\ \/ /\ left = <<>>
          /\ UNCHANGED cut
       \/ /\ left # <<>> /\ Head(left) \in InScope
          /\ Cardinality(visited) + Len(queue) >= limits.urls
          /\ cut' = cut \cup {"urls"}
    /\ left' = <<>>
    /\ x' = NoExchange
    /\ pc' = "loop"
    /\ UNCHANGED <<given, rules, queue, visited, hops, pages, outcome, sent,
                   requests, failed>>

-----------------------------------------------------------------------------
(* The loop over the stack *)

Top == queue[Len(queue)]
Popped == SubSeq(queue, 1, Len(queue) - 1)
More == pc = "loop" /\ queue # <<>> /\ Cardinality(visited) < limits.urls

\* Seeded bug: a URL that is passed over stays on the stack.
PassUrl_Stays ==
    /\ More
    /\ Top.url \in visited \/ ~Allowed(Top.url)
    /\ UNCHANGED <<given, pc, rules, queue, visited, x, hops, left, pages, outcome,
                   history>>

PassUrl ==
    /\ More
    /\ Top.url \in visited \/ ~Allowed(Top.url)
    /\ queue' = Popped
    /\ UNCHANGED <<given, pc, rules, visited, x, hops, left, pages, outcome, history>>

FetchUrl ==
    /\ More
    /\ Top.url \notin visited /\ Allowed(Top.url)
    /\ queue' = Popped
    /\ visited' = visited \cup {Top.url}
    /\ x' = Exchange(Top.url, Top.depth)
    /\ pc' = "page"
    /\ UNCHANGED <<given, rules, hops, left, pages, outcome, history>>

\* However the crawl went, the scanner goes on with the pages there are.
EndCrawl ==
    /\ pc = "loop"
    /\ queue = <<>> \/ Cardinality(visited) >= limits.urls
    /\ outcome' = "ok"
    /\ pc' = "done"
    /\ UNCHANGED <<given, rules, queue, visited, x, hops, left, pages, history>>

-----------------------------------------------------------------------------

Next ==
    \/ RejectStart \/ BeginCrawl
    \/ Refused \/ SendFails \/ Redirected \/ TakeRobots \/ TakePage
    \/ PushLink \/ PassLink \/ EndLinks
    \/ PassUrl \/ FetchUrl \/ EndCrawl

\* A request is answered or times out, and the crawl is a loop of its task.
Spec == Init /\ [][Next]_vars /\ WF_vars(Next)

-----------------------------------------------------------------------------
(* Properties *)

\* Every variable holds a value of its kind.
TypeOK ==
    /\ site \in Sites /\ start \in Starts /\ limits \in Limits
    /\ pc \in {"start", "robots", "loop", "page", "links", "done"}
    /\ rules \subseteq Urls
    /\ queue \in Seq([url : InScope, depth : Nat])
    /\ visited \subseteq InScope
    /\ x \in [asked : InScope \cup {Nowhere}, at : InScope \cup {Nowhere},
              depth : Nat, redirects : Nat]
    /\ pc \in {"robots", "page", "links"} => x.at \in InScope /\ x.asked \in InScope
    /\ hops \in Nat /\ requests \in Nat
    /\ left \in Seq(Urls)
    /\ pages \subseteq [asked : InScope, got : InScope]
    /\ outcome \in {"none", "ok", "error"}
    /\ sent \subseteq [url : InScope, for : {"robots", "page"}]
    /\ failed \subseteq InScope
    /\ cut \subseteq {"depth", "urls"}

\* Lines 4-6 of web.rs: every request, redirects included, stays in the
\* origin of the scan, and none for a page goes where robots.txt forbids.
StaysInBounds ==
    \A s \in sent : s.url \in InScope
                    /\ (s.for = "page" /\ limits.robots => s.url \notin rules)

\* The budget (line 7 of web.rs): a crawl sends no more requests for pages
\* than crawl_max_urls, redirects included, and never holds more URLs, those
\* that wait included.
WithinBudget ==
    /\ requests <= limits.urls
    /\ Cardinality(visited) + Len(queue) <= limits.urls

\* A crawl that met neither the depth nor the number of URLs has tried every
\* link of every page it collected; and what it tried came or failed.
LinksFollowed ==
    pc = "done" /\ outcome = "ok" /\ cut = {} =>
        /\ \A p \in pages : \A i \in DOMAIN site[p.got].links :
               Allowed(site[p.got].links[i]) => site[p.got].links[i] \in visited
        /\ Allowed(start) => start \in visited
        /\ visited = failed \cup {p.asked : p \in pages}

\* No false success (docs/product-contract.md:83): a web scan all of whose
\* requests failed is not a success.
NoFalseSuccess ==
    pc = "done" /\ visited # {} /\ pages = {} => outcome = "error"

\* A crawl ends, however the pages link and redirect.
CrawlEnds == <>(pc = "done")
=============================================================================
