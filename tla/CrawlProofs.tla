---------------------------- MODULE CrawlProofs ----------------------------
(***************************************************************************)
(* Theorems about Crawl, for every site, start and limits.                 *)
(***************************************************************************)
EXTENDS Crawl, SequenceTheorems, FiniteSetTheorems, TLAPS

Waiting == [url : InScope, depth : Nat]
Exchanges == [asked : InScope \cup {Nowhere}, at : InScope \cup {Nowhere},
              depth : Nat, redirects : Nat]

-----------------------------------------------------------------------------
(* Lemmas about the helpers *)

\* Taking the top off a stack leaves the rest of it.
LEMMA PoppedRest ==
    ASSUME NEW S, NEW s \in Seq(S), s # <<>>
    PROVE  /\ Len(s) \in Nat /\ Len(s) >= 1
           /\ s[Len(s)] \in S
           /\ SubSeq(s, 1, Len(s) - 1) \in Seq(S)
           /\ Len(SubSeq(s, 1, Len(s) - 1)) = Len(s) - 1
           /\ \A i \in 1..(Len(s) - 1) : SubSeq(s, 1, Len(s) - 1)[i] = s[i]
  <1>1. Len(s) \in Nat /\ Len(s) >= 1
    BY EmptySeq, LenProperties
  <1>2. \A i \in 1..(Len(s) - 1) : s[i] \in S
    BY <1>1, ElementOfSeq
  <1> DEFINE n == Len(s) - 1
  <1>3. n \in Nat /\ 1 \in Int
    BY <1>1
  <1>4. /\ SubSeq(s, 1, n) \in Seq(S)
        /\ Len(SubSeq(s, 1, n)) = (IF 1 <= n THEN n - 1 + 1 ELSE 0)
        /\ \A i \in 1..(n - 1 + 1) : SubSeq(s, 1, n)[i] = s[1 + i - 1]
    BY <1>2, <1>3, SubSeqProperties
  <1>5. s[Len(s)] \in S
    BY <1>1, ElementOfSeq
  <1> HIDE DEF n
  <1>6. n - 1 + 1 = n /\ \A i \in 1..n : 1 + i - 1 = i
    BY <1>3
  <1>7. Len(SubSeq(s, 1, n)) = n /\ \A i \in 1..n : SubSeq(s, 1, n)[i] = s[i]
    BY <1>3, <1>4, <1>6
  <1> QED  BY <1>1, <1>4, <1>5, <1>7 DEF n

\* What a server answers, and what the limits are.
LEMMA AnswerKind ==
    ASSUME site \in Sites, NEW u \in Urls
    PROVE  /\ site[u].kind = "page" =>
                  site[u].links \in Seq(Urls) /\ site[u].rules \subseteq Urls
           /\ site[u].kind = "redirect" => site[u].to \in Urls \cup {Nowhere}
  BY SitesAssumption DEF Redirect

LEMMA LimitsKind ==
    ASSUME limits \in Limits
    PROVE  /\ limits.urls \in Nat /\ limits.urls >= 1
           /\ limits.depth \in Nat /\ limits.redirects \in Nat
  BY DEF Limits

-----------------------------------------------------------------------------
(* Types *)

\* Giving up an exchange keeps the types.
LEMMA GiveUpType ==
    ASSUME TypeOK, NEW n \in Nat, GiveUp(n)
    PROVE  /\ x' \in Exchanges /\ pc' = "loop" /\ hops' \in Nat
           /\ rules' \subseteq Urls /\ failed' \subseteq InScope
  BY DEF TypeOK, GiveUp, NoExchange, Exchanges

\* Sending a request does.
LEMMA SendType ==
    ASSUME TypeOK, Send
    PROVE  /\ sent' \subseteq [url : InScope, for : {"robots", "page"}]
           /\ requests' \in Nat
           /\ x.at \in InScope /\ x.asked \in InScope /\ x.at \in Urls
           /\ pc \in {"robots", "page"}
  <1>1. x.at \in InScope /\ pc \in {"robots", "page"} /\ x.asked \in InScope
    BY DEF TypeOK, Send
  <1>2. [url |-> x.at, for |-> pc] \in [url : InScope, for : {"robots", "page"}]
    BY <1>1
  <1> QED  BY <1>1, <1>2, UrlsAssumption DEF TypeOK, Send

LEMMA TypeInit == Init => TypeOK
  BY LimitsAssumption DEF Init, TypeOK, NoExchange

LEMMA TypeStep == TypeOK /\ [Next]_vars => TypeOK'
  <1> SUFFICES ASSUME TypeOK, [Next]_vars PROVE TypeOK'
    OBVIOUS
  <1>0. /\ hops + 1 \in Nat /\ queue \in Seq(Waiting) /\ x \in Exchanges
        /\ site \in Sites /\ left \in Seq(Urls)
    BY DEF TypeOK, Waiting, Exchanges
  <1>1. CASE RejectStart
    BY <1>1 DEF TypeOK, RejectStart, given, history
  <1>2. CASE BeginCrawl
    <2>1. <<[url |-> start, depth |-> 0]>> \in Seq(Waiting)
      BY <1>2 DEF BeginCrawl, Waiting
    <2>2. Exchange(RobotsTxt, 0) \in Exchanges
      BY UrlsAssumption DEF Exchange, Exchanges
    <2>3. x' \in Exchanges /\ (pc' = "robots" => x'.at \in InScope /\ x'.asked \in InScope)
          /\ pc' \in {"robots", "loop"}
      BY <1>0, <1>2, <2>2, UrlsAssumption DEF BeginCrawl, Exchange
    <2> QED
      BY <1>2, <2>1, <2>3 DEF TypeOK, BeginCrawl, given, history, Waiting, Exchanges
  <1>3. CASE Refused
    BY <1>0, <1>3, GiveUpType DEF TypeOK, Refused, given, Exchanges
  <1>4. CASE SendFails
    <2>1. GiveUp(hops + 1) /\ Send
      BY <1>4 DEF SendFails
    <2> QED
      BY <1>0, <1>4, <2>1, GiveUpType, SendType DEF TypeOK, SendFails, given, Exchanges
  <1>5. CASE Redirected
    <2>0. Send
      BY <1>5 DEF Redirected
    <2> DEFINE next == site[x.at].to
    <2>1. CASE /\ MayFollow(next)
               /\ x' = [x EXCEPT !.at = next, !.redirects = @ + 1]
               /\ hops' = hops + 1
               /\ UNCHANGED <<pc, rules, failed>>
      <3>1. next \in InScope
        BY <2>1 DEF MayFollow
      <3> HIDE DEF next
      <3>2. x' \in Exchanges /\ x'.at = next /\ x'.asked = x.asked
        <4>1. /\ x.asked \in InScope \cup {Nowhere} /\ x.depth \in Nat
              /\ x.redirects + 1 \in Nat
          BY <1>0 DEF Exchanges
        <4>2. x' = [asked |-> x.asked, at |-> next, depth |-> x.depth,
                    redirects |-> x.redirects + 1]
          BY <1>0, <2>1 DEF Exchanges
        <4> QED  BY <3>1, <4>1, <4>2 DEF Exchanges
      <3> QED
        BY <1>0, <1>5, <2>0, <2>1, <3>1, <3>2, SendType
           DEF TypeOK, Redirected, given, Exchanges
    <2>2. CASE GiveUp(hops + 1)
      BY <1>0, <1>5, <2>0, <2>2, GiveUpType, SendType
         DEF TypeOK, Redirected, given, Exchanges
    <2> QED  BY <1>5, <2>1, <2>2 DEF Redirected
  <1>6. CASE TakeRobots
    <2>1. Send /\ site[x.at].rules = rules' /\ site[x.at].kind = "page"
      BY <1>6 DEF TakeRobots
    <2>2. rules' \subseteq Urls
      BY <1>0, <2>1, SendType, AnswerKind
    <2> QED
      BY <1>6, <2>1, <2>2, SendType DEF TypeOK, TakeRobots, given, NoExchange
  <1>7. CASE TakePage
    <2>1. Send /\ site[x.at].kind = "page"
      BY <1>7 DEF TakePage
    <2>2. site[x.at].links \in Seq(Urls)
      BY <1>0, <2>1, SendType, AnswerKind
    <2>3. [asked |-> x.asked, got |-> x.at] \in [asked : InScope, got : InScope]
      BY <2>1, SendType
    <2>4. /\ left' \in Seq(Urls) /\ pc' \in {"links", "loop"}
          /\ x' = x \/ (x' = NoExchange /\ pc' = "loop")
          /\ cut' \subseteq {"depth", "urls"}
      BY <1>0, <1>7, <2>2 DEF TakePage, TypeOK
    <2>5. x' \in Exchanges /\ (pc' = "links" => x'.at \in InScope /\ x'.asked \in InScope)
      BY <1>0, <2>1, <2>4, SendType DEF NoExchange, Exchanges
    <2> QED
      BY <1>0, <1>7, <2>1, <2>3, <2>4, <2>5, SendType
         DEF TypeOK, TakePage, given, Exchanges
  <1>8. CASE PushLink
    <2>1. Head(left) \in InScope /\ Tail(left) \in Seq(Urls)
      BY <1>0, <1>8, HeadTailProperties DEF PushLink, Allowed
    <2>2. [url |-> Head(left), depth |-> x.depth + 1] \in Waiting
      BY <1>0, <2>1 DEF Waiting, Exchanges
    <2>a. queue' = Append(queue, [url |-> Head(left), depth |-> x.depth + 1])
      BY <1>8 DEF PushLink
    <2>3. queue' \in Seq(Waiting)
      BY <1>0, <2>a, <2>2, AppendProperties
    <2> QED
      BY <1>8, <2>1, <2>3 DEF TypeOK, PushLink, given, history, Waiting
  <1>9. CASE PassLink
    <2>1. Tail(left) \in Seq(Urls)
      BY <1>0, <1>9, HeadTailProperties DEF PassLink
    <2>2. left' = Tail(left) /\ UNCHANGED <<given, pc, rules, queue, visited, x, hops,
                                            pages, outcome, history>>
      BY <1>9 DEF PassLink
    <2> QED  BY <2>1, <2>2 DEF TypeOK, given, history
  <1>10. CASE EndLinks
    <2>1. cut' \subseteq {"depth", "urls"}
      BY <1>10 DEF EndLinks, TypeOK
    <2>2. /\ left' = <<>> /\ x' = NoExchange /\ pc' = "loop"
          /\ UNCHANGED <<given, rules, queue, visited, hops, pages, outcome, sent,
                         requests, failed>>
      BY <1>10 DEF EndLinks
    <2> QED  BY <2>1, <2>2 DEF TypeOK, given, NoExchange
  <1>11. CASE PassUrl
    <2>1. queue' \in Seq(Waiting)
      BY <1>0, <1>11, PoppedRest DEF PassUrl, More, Popped
    <2> QED  BY <1>11, <2>1 DEF TypeOK, PassUrl, More, given, history, Waiting
  <1>12. CASE FetchUrl
    <2>1. queue' \in Seq(Waiting) /\ Top \in Waiting
      BY <1>0, <1>12, PoppedRest DEF FetchUrl, More, Popped, Top
    <2>2. Top.url \in InScope /\ Top.depth \in Nat
      BY <2>1 DEF Waiting
    <2>3. x' \in Exchanges /\ x'.at \in InScope /\ x'.asked \in InScope
      BY <1>12, <2>2 DEF FetchUrl, Exchange, Exchanges
    <2> QED
      BY <1>12, <2>1, <2>2, <2>3 DEF TypeOK, FetchUrl, given, history, Waiting, Exchanges
  <1>13. CASE EndCrawl
    BY <1>13 DEF TypeOK, EndCrawl, given, history
  <1>14. CASE UNCHANGED vars
    BY <1>14 DEF TypeOK, vars
  <1> QED
    BY <1>1, <1>2, <1>3, <1>4, <1>5, <1>6, <1>7, <1>8, <1>9, <1>10, <1>11, <1>12,
       <1>13, <1>14 DEF Next

\* Every variable of a crawl keeps its type.
THEOREM TypeCorrect == Spec => []TypeOK
  BY TypeInit, TypeStep, PTL DEF Spec

-----------------------------------------------------------------------------
(* The beginning: until robots.txt is read nothing else happens *)

Beginning == pc \in {"start", "robots"}

\* Before the first page: nothing visited, collected or asked for but
\* robots.txt, and the start is what waits.
Early ==
    Beginning =>
        /\ visited = {} /\ pages = {} /\ failed = {} /\ requests = 0
        /\ \A s \in sent : s.for = "robots"
        /\ pc = "start" => queue = <<>>
        /\ pc = "robots" => queue = <<[url |-> start, depth |-> 0]>>

LEMMA EarlyInit == Init => Early
  BY DEF Init, Early, Beginning

LEMMA EarlyStep == TypeOK /\ Early /\ [Next]_vars => Early'
  <1> SUFFICES ASSUME TypeOK, Early, [Next]_vars, Beginning' PROVE Early'
    BY DEF Early
  <1>1. CASE BeginCrawl
    BY <1>1 DEF Early, Beginning, BeginCrawl, given, history
  <1>2. CASE Redirected
    <2>1. pc' = "robots" /\ pc = "robots"
      BY <1>2 DEF Redirected, GiveUp, Send, Beginning
    <2>2. UNCHANGED failed
      BY <1>2, <2>1 DEF Redirected, GiveUp
    <2>3. \A s \in sent' : s.for = "robots"
      BY <1>2, <2>1 DEF Redirected, Send, Early, Beginning
    <2> QED
      BY <1>2, <2>1, <2>2, <2>3 DEF Early, Beginning, Redirected, Send, given
  <1>3. CASE UNCHANGED vars
    BY <1>3 DEF Early, Beginning, vars
  <1>4. CASE \/ RejectStart \/ Refused \/ SendFails \/ TakeRobots \/ TakePage
             \/ PushLink \/ PassLink \/ EndLinks \/ PassUrl \/ FetchUrl \/ EndCrawl
    BY <1>4 DEF Beginning, RejectStart, Refused, SendFails, GiveUp, TakeRobots,
                TakePage, PushLink, PassLink, EndLinks, PassUrl, More, FetchUrl, EndCrawl
  <1> QED  BY <1>1, <1>2, <1>3, <1>4 DEF Next

-----------------------------------------------------------------------------
(* Bounds *)

\* What is about to be asked for as a page is allowed.
Bounds ==
    /\ pc = "page" => Allowed(x.at)
    /\ \A s \in sent : s.for = "page" => Allowed(s.url)

LEMMA BoundsInit == Init => Bounds
  BY DEF Init, Bounds

\* Once a page is asked for, robots.txt is settled.
LEMMA RulesStay ==
    ASSUME [Next]_vars, ~Beginning
    PROVE  rules' = rules /\ limits' = limits /\ ~Beginning' /\ start' = start
           /\ site' = site
  BY DEF Next, vars, given, Beginning, RejectStart, BeginCrawl, Refused, SendFails,
         Redirected, GiveUp, Send, TakeRobots, TakePage, PushLink, PassLink,
         EndLinks, PassUrl, More, FetchUrl, EndCrawl

LEMMA BoundsStep == TypeOK /\ Early /\ Early' /\ Bounds /\ [Next]_vars => Bounds'
  <1> SUFFICES ASSUME TypeOK, Early, Early', Bounds, [Next]_vars PROVE Bounds'
    OBVIOUS
  <1>1. CASE Beginning'
    BY <1>1 DEF Early, Bounds, Beginning
  <1>2. CASE Beginning /\ ~Beginning'
    <2>1. pc' \in {"loop", "done"} /\ \A s \in sent' : s.for = "robots"
      BY <1>2 DEF Next, vars, Beginning, Early, RejectStart, BeginCrawl, Refused,
                  SendFails, Redirected, GiveUp, Send, TakeRobots, TakePage, PushLink,
                  PassLink, EndLinks, PassUrl, More, FetchUrl, EndCrawl, history
    <2> QED  BY <2>1 DEF Bounds
  <1>3. CASE ~Beginning
    <2>0. rules' = rules /\ limits' = limits
      BY <1>3, RulesStay
    <2>a. \A u : Allowed(u)' <=> Allowed(u)
      BY <2>0 DEF Allowed
    <2>1. ASSUME sent' = sent, pc' # "page" \/ UNCHANGED <<pc, x>>
          PROVE  Bounds'
      BY <2>0, <2>1 DEF Bounds, Allowed
    <2>2. ASSUME Send, pc' # "page" \/ Allowed(x'.at)
          PROVE  Bounds'
      <3>1. \A s \in sent' : s \in sent \/ (s.url = x.at /\ s.for = pc)
        BY <2>2 DEF Send
      <3> QED  BY <2>0, <2>2, <3>1 DEF Bounds, Allowed
    <2>3. CASE FetchUrl
      <3>1. sent' = sent /\ x'.at = Top.url /\ Allowed(Top.url)
        BY <2>3 DEF FetchUrl, Exchange, history
      <3>2. Allowed(x.at)'
        BY <2>0, <3>1 DEF Allowed
      <3>3. (\A s \in sent : s.for = "page" => Allowed(s.url))'
        BY <2>0, <3>1 DEF Bounds, Allowed
      <3> QED  BY <3>2, <3>3 DEF Bounds
    <2>4. CASE Redirected
      <3>1. pc = "page" /\ Send
        BY <1>3, <2>4 DEF Redirected, Send, Beginning
      <3> DEFINE next == site[x.at].to
      <3>2. CASE GiveUp(hops + 1)
        BY <2>2, <3>1, <3>2 DEF GiveUp
      <3>3. CASE MayFollow(next) /\ x' = [x EXCEPT !.at = next, !.redirects = @ + 1]
        <4>1. Allowed(next)
          BY <3>1, <3>3 DEF MayFollow, Allowed
        <4> HIDE DEF next
        <4>2. x'.at = next
          BY <3>3 DEF TypeOK
        <4> QED  BY <2>2, <3>1, <4>1, <4>2
      <3> QED  BY <2>4, <3>2, <3>3 DEF Redirected
    <2>5. CASE SendFails \/ TakePage
      BY <1>3, <2>2, <2>5 DEF SendFails, GiveUp, TakePage
    <2>6. CASE RejectStart \/ Refused \/ PushLink \/ PassLink \/ EndLinks \/ PassUrl \/ EndCrawl
      BY <2>1, <2>6 DEF RejectStart, Refused, GiveUp, PushLink, PassLink, EndLinks,
                        PassUrl, More, EndCrawl, history
    <2>7. CASE BeginCrawl \/ TakeRobots
      BY <1>3, <2>7 DEF BeginCrawl, TakeRobots, Beginning
    <2>8. CASE UNCHANGED vars
      BY <2>1, <2>8 DEF vars
    <2> QED  BY <2>3, <2>4, <2>5, <2>6, <2>7, <2>8 DEF Next
  <1> QED  BY <1>1, <1>2, <1>3

LEMMA BoundsHold == TypeOK /\ Bounds => StaysInBounds
  BY DEF TypeOK, Bounds, StaysInBounds, Allowed

\* No request leaves the origin of the scan, and none for a page goes where
\* robots.txt forbids, redirects included.
THEOREM InBounds == Spec => []StaysInBounds
  BY TypeInit, TypeStep, EarlyInit, EarlyStep, BoundsInit, BoundsStep, BoundsHold,
     PTL DEF Spec

-----------------------------------------------------------------------------
(* Budget *)

\* A request for a page is counted, and what waits and what was visited
\* share the limit.
Budget ==
    /\ requests <= limits.urls
    /\ ~Beginning => requests <= hops
    /\ IsFiniteSet(visited)
    /\ Cardinality(visited) + Len(queue) <= limits.urls

LEMMA BudgetInit == Init => Budget
  <1> SUFFICES ASSUME Init PROVE Budget
    OBVIOUS
  <1>1. limits.urls \in Nat /\ limits.urls >= 1
    BY LimitsAssumption, LimitsKind DEF Init
  <1> QED  BY <1>1, FS_EmptySet DEF Init, Budget

LEMMA BudgetStep == TypeOK /\ Early /\ Budget /\ [Next]_vars => Budget'
  <1> SUFFICES ASSUME TypeOK, Early, Budget, [Next]_vars PROVE Budget'
    OBVIOUS
  <1>0. /\ limits.urls \in Nat /\ limits.urls >= 1 /\ limits' = limits
        /\ hops \in Nat /\ requests \in Nat /\ queue \in Seq(Waiting)
        /\ Len(queue) \in Nat /\ Cardinality(visited) \in Nat
    <2>1. limits' = limits
      BY DEF Next, vars, given, RejectStart, BeginCrawl, Refused, SendFails, Redirected,
             TakeRobots, TakePage, PushLink, PassLink, EndLinks, PassUrl, FetchUrl, EndCrawl
    <2>2. queue \in Seq(Waiting) /\ Len(queue) \in Nat
      BY LenProperties DEF TypeOK, Waiting
    <2> QED  BY <2>1, <2>2, LimitsKind, FS_CardinalityType DEF TypeOK, Budget
  <1>1. ASSUME UNCHANGED <<visited, queue, requests>>, hops' = hops \/ hops' = hops + 1,
               Beginning' <=> Beginning
        PROVE  Budget'
    BY <1>0, <1>1 DEF Budget
  <1>2. ASSUME Send, UNCHANGED <<visited, queue>>,
               (Beginning /\ Beginning') \/ (Beginning /\ hops' = 0)
                   \/ (~Beginning /\ ~Beginning' /\ hops' = hops + 1)
        PROVE  Budget'
    <2>1. requests' = requests \/ requests' = requests + 1
      BY <1>2 DEF Send
    <2>2. Beginning => requests = 0 /\ requests' = 0
      BY <1>2 DEF Send, Early, Beginning
    <2>3. ~Beginning => requests' = requests + 1 /\ hops < limits.urls
      BY <1>2 DEF Send, Beginning, BudgetLeft
    <2> QED  BY <1>0, <1>2, <2>1, <2>2, <2>3 DEF Budget
  <1>3. CASE RejectStart
    BY <1>0, <1>3 DEF RejectStart, Budget, Early, Beginning, history, given
  <1>4. CASE BeginCrawl
    <2>1. Len(queue') = 1 /\ UNCHANGED <<visited, requests, hops>> /\ requests = 0
          /\ visited = {}
      BY <1>4 DEF BeginCrawl, history, Early, Beginning
    <2> QED  BY <1>0, <2>1, FS_EmptySet DEF Budget
  <1>5. CASE Refused
    <2>1. UNCHANGED <<visited, queue, requests>>
      BY <1>5 DEF Refused
    <2>2. CASE pc = "robots"
      BY <1>0, <1>5, <2>1, <2>2 DEF Refused, GiveUp, Budget, Early, Beginning
    <2>3. CASE pc = "page"
      BY <1>1, <1>5, <2>1, <2>3 DEF Refused, GiveUp, Beginning
    <2> QED  BY <1>5, <2>2, <2>3 DEF Refused
  <1>6. CASE SendFails
    BY <1>2, <1>6 DEF SendFails, GiveUp, Beginning
  <1>7. CASE Redirected
    <2>1. Send /\ UNCHANGED <<visited, queue>> /\ pc \in {"robots", "page"}
      BY <1>7 DEF Redirected, Send
    <2>2. CASE hops' = hops + 1 /\ pc' = pc
      BY <1>2, <2>1, <2>2 DEF Beginning
    <2>3. CASE GiveUp(hops + 1)
      BY <1>2, <2>1, <2>3 DEF GiveUp, Beginning
    <2> QED  BY <1>7, <2>2, <2>3 DEF Redirected
  <1>8. CASE TakeRobots
    BY <1>2, <1>8 DEF TakeRobots, Beginning
  <1>9. CASE TakePage
    BY <1>2, <1>9 DEF TakePage, Beginning
  <1>10. CASE PushLink
    <2>1. queue' = Append(queue, [url |-> Head(left), depth |-> x.depth + 1])
          /\ UNCHANGED <<visited, requests, hops>> /\ ~Beginning /\ ~Beginning'
          /\ Cardinality(visited) + Len(queue) < limits.urls
      BY <1>10 DEF PushLink, history, Beginning
    <2>2. Len(queue') = Len(queue) + 1
      BY <1>0, <2>1
    <2> QED  BY <1>0, <2>1, <2>2 DEF Budget
  <1>11. CASE PassLink \/ EndLinks \/ EndCrawl
    BY <1>1, <1>11 DEF PassLink, EndLinks, EndCrawl, history, Beginning
  <1>12. CASE PassUrl
    <2>1. Len(queue') = Len(queue) - 1
      BY <1>0, <1>12, PoppedRest DEF PassUrl, More, Popped
    <2>2. UNCHANGED <<visited, requests, hops>> /\ ~Beginning /\ ~Beginning'
      BY <1>12 DEF PassUrl, More, Beginning, history
    <2> QED  BY <1>0, <2>1, <2>2 DEF Budget
  <1>13. CASE FetchUrl
    <2>1. Len(queue') = Len(queue) - 1
      BY <1>0, <1>13, PoppedRest DEF FetchUrl, More, Popped
    <2>2. UNCHANGED <<requests, hops>> /\ ~Beginning /\ ~Beginning'
          /\ visited' = visited \cup {Top.url} /\ Top.url \notin visited
      BY <1>13 DEF FetchUrl, More, Beginning, history
    <2>3. IsFiniteSet(visited') /\ Cardinality(visited') = Cardinality(visited) + 1
      BY <2>2, FS_AddElement DEF Budget
    <2> QED  BY <1>0, <2>1, <2>2, <2>3 DEF Budget
  <1>14. CASE UNCHANGED vars
    BY <1>1, <1>14 DEF vars, Beginning
  <1> QED
    BY <1>3, <1>4, <1>5, <1>6, <1>7, <1>8, <1>9, <1>10, <1>11, <1>12, <1>13, <1>14 DEF Next

\* A crawl sends no more requests for pages than crawl_max_urls, and never
\* holds more URLs.
THEOREM BudgetKept == Spec => []WithinBudget
  <1>1. Budget => WithinBudget
    BY DEF Budget, WithinBudget
  <1> QED
    BY <1>1, TypeInit, TypeStep, EarlyInit, EarlyStep, BudgetInit, BudgetStep, PTL DEF Spec

-----------------------------------------------------------------------------
(* Every link is tried *)

InQueue(u) == \E i \in 1..Len(queue) : queue[i].url = u
InLeft(u) == \E i \in 1..Len(left) : left[i] = u
LinksOf(u) == {site[u].links[i] : i \in 1..Len(site[u].links)}

\* As long as no limit is met, a link of a page collected was tried, waits on
\* the stack, or is among the links not yet looked at.  What was tried came,
\* failed, or is under way.
Tracked ==
    /\ \A p \in pages : site[p.got].kind = "page"
    /\ cut = {} =>
           \A p \in pages : \A u \in LinksOf(p.got) :
               Allowed(u) => \/ u \in visited \/ InQueue(u)
                             \/ pc = "links" /\ p.got = x.at /\ InLeft(u)
    /\ ~Beginning /\ outcome # "error" =>
           (Allowed(start) => start \in visited \/ InQueue(start))
    /\ visited = failed \cup {p.asked : p \in pages}
                        \cup {u \in {x.asked} : pc = "page"}
    /\ pc = "done" /\ outcome = "ok" => queue = <<>>

\* The outcome is set by the last step.
Undecided == pc # "done" => outcome = "none"

LEMMA UndecidedInit == Init => Undecided
  BY DEF Init, Undecided

LEMMA UndecidedStep == Undecided /\ [Next]_vars => Undecided'
  BY DEF Next, vars, Undecided, RejectStart, BeginCrawl, Refused, SendFails, Redirected,
         GiveUp, Send, TakeRobots, TakePage, PushLink, PassLink, EndLinks, PassUrl, More,
         FetchUrl, EndCrawl

LEMMA TrackedInit == Init => Tracked
  BY DEF Init, Tracked, Beginning

\* What a step changes of the stack, element by element.
LEMMA PoppedQueue ==
    ASSUME TypeOK, queue # <<>>, queue' = Popped
    PROVE  \A u : InQueue(u) => u = Top.url \/ InQueue(u)'
  <1>1. /\ Len(queue) \in Nat /\ Len(queue) >= 1 /\ Len(queue') = Len(queue) - 1
        /\ \A i \in 1..(Len(queue) - 1) : queue'[i] = queue[i]
    BY PoppedRest DEF TypeOK, Popped
  <1>2. \A i \in 1..Len(queue) :
            i = Len(queue) \/ (i \in 1..Len(queue') /\ queue'[i] = queue[i])
    BY <1>1
  <1> QED  BY <1>2 DEF InQueue, Top

LEMMA PushedQueue ==
    ASSUME TypeOK, NEW e \in Waiting, queue' = Append(queue, e)
    PROVE  /\ \A u : InQueue(u) => InQueue(u)'
           /\ InQueue(e.url)'
  <1>1. queue \in Seq(Waiting)
    BY DEF TypeOK, Waiting
  <1>2. /\ Len(queue) \in Nat /\ Len(queue') = Len(queue) + 1
        /\ queue'[Len(queue) + 1] = e
        /\ \A i \in 1..Len(queue) : queue'[i] = queue[i]
    BY <1>1, AppendProperties, LenProperties
  <1>3. /\ Len(queue) + 1 \in 1..Len(queue')
        /\ \A i \in 1..Len(queue) : i \in 1..Len(queue')
    BY <1>2
  <1>4. InQueue(e.url)'
    BY <1>2, <1>3 DEF InQueue
  <1>5. \A u : InQueue(u) => InQueue(u)'
    BY <1>2, <1>3 DEF InQueue
  <1> QED  BY <1>4, <1>5

LEMMA TailLeft ==
    ASSUME TypeOK, left # <<>>, left' = Tail(left)
    PROVE  \A u : InLeft(u) => u = Head(left) \/ InLeft(u)'
  <1>1. /\ Len(left) \in Nat /\ Len(left') = Len(left) - 1
        /\ \A i \in 1..Len(left') : left'[i] = left[i + 1]
    BY HeadTailProperties, LenProperties DEF TypeOK
  <1>2. \A i \in 1..Len(left) :
            i = 1 \/ (i - 1 \in 1..Len(left') /\ left'[i - 1] = left[i])
    BY <1>1
  <1>3. left[1] = Head(left)
    OBVIOUS
  <1> QED  BY <1>2, <1>3 DEF InLeft

\* A step that collects nothing and forgets nothing keeps track.
LEMMA TrackedKept ==
    ASSUME Tracked, ~Beginning, [Next]_vars, UNCHANGED <<pages, outcome>>,
           cut \subseteq cut', visited \subseteq visited',
           \A u : InQueue(u) => u \in visited' \/ ~Allowed(u) \/ InQueue(u)',
           cut' = {} => \A u : pc = "links" /\ Allowed(u) /\ InLeft(u) =>
               \/ u \in visited' \/ InQueue(u)'
               \/ pc' = "links" /\ x' = x /\ InLeft(u)',
           pc' # "done",
           visited' = failed' \cup {p.asked : p \in pages}
                              \cup {u \in {x'.asked} : pc' = "page"}
    PROVE  Tracked'
  <1>1. rules' = rules /\ limits' = limits /\ ~Beginning' /\ start' = start
        /\ site' = site
    BY RulesStay
  <1>2. \A u : Allowed(u)' <=> Allowed(u)
    BY <1>1 DEF Allowed
  <1>3. \A u : LinksOf(u)' = LinksOf(u)
    BY <1>1 DEF LinksOf
  <1>4. ASSUME cut' = {}, NEW p \in pages', NEW u \in LinksOf(p.got)', Allowed(u)
        PROVE  \/ u \in visited' \/ InQueue(u)'
               \/ pc' = "links" /\ p.got = x'.at /\ InLeft(u)'
    <2>1. cut = {} /\ p \in pages /\ u \in LinksOf(p.got)
      BY <1>3, <1>4
    <2>2. u \in visited \/ InQueue(u) \/ (pc = "links" /\ p.got = x.at /\ InLeft(u))
      BY <1>4, <2>1 DEF Tracked
    <2>3. CASE u \in visited \/ InQueue(u)
      BY <1>4, <2>3
    <2>4. CASE pc = "links" /\ p.got = x.at /\ InLeft(u)
      BY <1>4, <2>4
    <2> QED  BY <2>2, <2>3, <2>4
  <1>5. ASSUME outcome' # "error", Allowed(start)'
        PROVE  (start \in visited \/ InQueue(start))'
    <2>1. Allowed(start) /\ outcome # "error"
      BY <1>1, <1>2, <1>5 DEF Allowed
    <2>2. start \in visited \/ InQueue(start)
      BY <2>1 DEF Tracked
    <2>3. \/ start \in visited'
          \/ \E i \in 1..Len(queue') : queue'[i].url = start
      BY <2>1, <2>2 DEF InQueue
    <2> QED  BY <1>1, <2>3 DEF InQueue
  <1> QED  BY <1>1, <1>2, <1>4, <1>5 DEF Tracked, Allowed

\* A step of the beginning starts it.
LEMMA TrackedBegun ==
    ASSUME Early, Beginning, ~Beginning', pages' = {}, visited' = {}, failed' = {},
           pc' = "loop", outcome' = outcome,
           queue' = <<[url |-> start, depth |-> 0]>>, start' = start
    PROVE  Tracked'
  <1>1. 1 \in 1..Len(queue') /\ queue'[1].url = start'
    OBVIOUS
  <1>2. InQueue(start)'
    BY <1>1 DEF InQueue
  <1> QED  BY <1>2 DEF Tracked

LEMMA TrackedStep ==
    /\ TypeOK /\ Early /\ Early' /\ Budget /\ Undecided
    /\ Tracked /\ [Next]_vars
    => Tracked'
  <1> SUFFICES ASSUME TypeOK, Early, Early', Budget, Undecided, Tracked, [Next]_vars
               PROVE  Tracked'
    OBVIOUS
  <1>1. CASE Beginning'
    <2>1. pages' = {} /\ visited' = {} /\ failed' = {} /\ pc' # "page" /\ pc' # "done"
      BY <1>1 DEF Early, Beginning
    <2> QED  BY <1>1, <2>1 DEF Tracked
  <1>2. CASE Beginning /\ ~Beginning'
    <2>1. pages = {} /\ visited = {} /\ failed = {}
      BY <1>2 DEF Early
    <2>2. CASE RejectStart
      BY <2>1, <2>2 DEF RejectStart, Tracked, Beginning, history
    <2>3. CASE BeginCrawl
      <3>1. /\ pc' = "loop" /\ queue' = <<[url |-> start, depth |-> 0]>>
            /\ UNCHANGED <<pages, visited, failed, outcome, start>>
        BY <1>2, <2>3 DEF BeginCrawl, Beginning, history, given
      <3> QED  BY <1>2, <2>1, <3>1, TrackedBegun
    <2>4. CASE Refused \/ SendFails \/ Redirected \/ TakeRobots
      <3>1. pc = "robots" /\ pc' = "loop"
        BY <1>2, <2>4 DEF Refused, SendFails, Redirected, TakeRobots, GiveUp, Send,
                          Beginning
      <3>2. UNCHANGED <<queue, pages, visited, failed, outcome, start>>
        BY <2>4, <3>1 DEF Refused, SendFails, Redirected, TakeRobots, GiveUp, given
      <3>3. queue = <<[url |-> start, depth |-> 0]>>
        BY <3>1 DEF Early, Beginning
      <3> QED  BY <1>2, <2>1, <3>1, <3>2, <3>3, TrackedBegun
    <2>5. CASE \/ TakePage \/ PushLink \/ PassLink \/ EndLinks \/ PassUrl \/ FetchUrl
               \/ EndCrawl
      BY <1>2, <2>5 DEF TakePage, PushLink, PassLink, EndLinks, PassUrl, FetchUrl, More,
                        EndCrawl, Beginning
    <2>6. CASE UNCHANGED vars
      BY <1>2, <2>6 DEF vars, Beginning
    <2> QED  BY <2>2, <2>3, <2>4, <2>5, <2>6 DEF Next
  <1>3. CASE ~Beginning
    <2>1. CASE Refused \/ SendFails \/ (Redirected /\ GiveUp(hops + 1))
      <3>1. /\ pc = "page" /\ pc' = "loop" /\ failed' = failed \cup {x.asked}
            /\ UNCHANGED <<queue, visited, pages, outcome, cut>>
        BY <1>3, <2>1 DEF Refused, SendFails, Redirected, GiveUp, Send, Beginning
      <3>2. visited' = failed' \cup {p.asked : p \in pages}
                               \cup {u \in {x'.asked} : pc' = "page"}
        BY <3>1 DEF Tracked
      <3>3. \A u : InQueue(u) => InQueue(u)'
        BY <3>1 DEF InQueue
      <3> QED  BY <1>3, <3>1, <3>2, <3>3, TrackedKept
    <2>2. CASE Redirected /\ ~GiveUp(hops + 1)
      <3> DEFINE next == site[x.at].to
      <3>1. /\ pc = "page" /\ pc' = "page" /\ UNCHANGED failed
            /\ x' = [x EXCEPT !.at = next, !.redirects = @ + 1]
            /\ UNCHANGED <<queue, visited, pages, outcome, cut>>
        BY <1>3, <2>2 DEF Redirected, Send, Beginning
      <3> HIDE DEF next
      <3>2. x'.asked = x.asked
        BY <3>1 DEF TypeOK
      <3>3. \A u : InQueue(u) => InQueue(u)'
        BY <3>1 DEF InQueue
      <3>4. visited' = failed' \cup {p.asked : p \in pages}
                               \cup {u \in {x'.asked} : pc' = "page"}
        BY <3>1, <3>2 DEF Tracked
      <3> QED  BY <1>3, <3>1, <3>3, <3>4, TrackedKept
    <2>3. CASE TakePage
      <3>1. /\ pc = "page" /\ site[x.at].kind = "page"
            /\ pages' = pages \cup {[asked |-> x.asked, got |-> x.at]}
            /\ pc' \in {"links", "loop"} /\ cut \subseteq cut'
            /\ cut' = {} => pc' = "links" /\ x' = x /\ left' = site[x.at].links
            /\ UNCHANGED <<queue, visited, failed, outcome>>
        BY <2>3 DEF TakePage
      <3>2. rules' = rules /\ limits' = limits /\ ~Beginning' /\ start' = start
            /\ site' = site
        BY <1>3, RulesStay
      <3>3. /\ \A u : Allowed(u)' <=> Allowed(u)
            /\ \A u : InQueue(u)' <=> InQueue(u)
            /\ \A u : LinksOf(u)' = LinksOf(u)
        BY <3>1, <3>2 DEF Allowed, InQueue, LinksOf
      <3>4. ASSUME cut' = {}, NEW p \in pages', NEW u \in LinksOf(p.got), Allowed(u)
            PROVE  \/ u \in visited' \/ InQueue(u)'
                   \/ pc' = "links" /\ p.got = x'.at /\ InLeft(u)'
        <4>1. CASE p \in pages
          BY <3>1, <3>3, <3>4, <4>1 DEF Tracked
        <4>2. CASE p = [asked |-> x.asked, got |-> x.at]
          <5>1. p.got = x'.at /\ left' = site[p.got].links /\ pc' = "links"
            BY <3>1, <3>4, <4>2
          <5>2. InLeft(u)'
            BY <3>4, <5>1 DEF LinksOf, InLeft
          <5> QED  BY <5>1, <5>2
        <4> QED  BY <3>1, <4>1, <4>2
      <3>5. {p.asked : p \in pages'} = {p.asked : p \in pages} \cup {x.asked}
        <4> DEFINE n == [asked |-> x.asked, got |-> x.at]
        <4>1. pages' = pages \cup {n} /\ n.asked = x.asked
          BY <3>1
        <4> HIDE DEF n
        <4> QED  BY <4>1
      <3>6. visited' = failed' \cup {p.asked : p \in pages'}
                               \cup {u \in {x'.asked} : pc' = "page"}
        BY <3>1, <3>5 DEF Tracked
      <3>7. outcome' # "error" =>
                (Allowed(start)' => start' \in visited' \/ InQueue(start)')
        BY <1>3, <3>1, <3>2, <3>3 DEF Tracked, Allowed, InQueue
      <3>8. \A p \in pages' : site'[p.got].kind = "page"
        BY <3>1, <3>2 DEF Tracked
      <3>9. cut' = {} =>
                \A p \in pages' : \A u \in LinksOf(p.got)' :
                    Allowed(u)' => \/ u \in visited' \/ InQueue(u)'
                                   \/ pc' = "links" /\ p.got = x'.at /\ InLeft(u)'
        BY <3>3, <3>4
      <3>10. start' \in visited' \/ (\E i \in 1..Len(queue') : queue'[i].url = start')
             \/ outcome' = "error" \/ ~Allowed(start)'
        BY <3>7 DEF InQueue
      <3>11. pc' # "done"
        BY <3>1
      <3> QED
        BY <3>6, <3>8, <3>9, <3>10, <3>11 DEF Tracked, InQueue
    <2>4. CASE PushLink
      <3>1. /\ pc = "links" /\ left # <<>> /\ pc' = "links" /\ left' = Tail(left)
            /\ queue' = Append(queue, [url |-> Head(left), depth |-> x.depth + 1])
            /\ Head(left) \in InScope
            /\ UNCHANGED <<visited, pages, outcome, x, cut, failed>>
        BY <2>4 DEF PushLink, history, Allowed
      <3>2. [url |-> Head(left), depth |-> x.depth + 1] \in Waiting
        BY <3>1 DEF TypeOK, Waiting
      <3> DEFINE e == [url |-> Head(left), depth |-> x.depth + 1]
      <3>3. e.url = Head(left)
        OBVIOUS
      <3>4. e \in Waiting /\ queue' = Append(queue, e)
        BY <3>1, <3>2
      <3> HIDE DEF e
      <3>5. \A u : InQueue(u) => InQueue(u)'
        BY <3>4, PushedQueue
      <3>6. \E i \in 1..Len(queue') : queue'[i].url = e.url
        <4>1. \A d \in Waiting : queue' = Append(queue, d) =>
                  \E i \in 1..Len(queue') : queue'[i].url = d.url
          BY PushedQueue DEF InQueue
        <4> QED  BY <3>4, <4>1
      <3>7. \A u : InLeft(u) => InQueue(u)' \/ InLeft(u)'
        BY <3>1, <3>3, <3>6, TailLeft DEF InQueue
      <3>8. visited' = failed' \cup {p.asked : p \in pages}
                               \cup {u \in {x'.asked} : pc' = "page"}
        BY <3>1 DEF Tracked
      <3> QED  BY <1>3, <3>1, <3>5, <3>7, <3>8, TrackedKept
    <2>5. CASE PassLink
      <3>1. /\ pc = "links" /\ left # <<>> /\ pc' = "links" /\ left' = Tail(left)
            /\ UNCHANGED <<queue, visited, pages, outcome, x, cut, failed>>
            /\ Allowed(Head(left)) => Head(left) \in visited
        BY <2>5 DEF PassLink, history, Allowed
      <3>2. \A u : InQueue(u) => InQueue(u)'
        BY <3>1 DEF InQueue
      <3>3. \A u : InLeft(u) /\ Allowed(u) => u \in visited' \/ InLeft(u)'
        BY <3>1, TailLeft
      <3>4. visited' = failed' \cup {p.asked : p \in pages}
                               \cup {u \in {x'.asked} : pc' = "page"}
        BY <3>1 DEF Tracked
      <3> QED  BY <1>3, <3>1, <3>2, <3>3, <3>4, TrackedKept
    <2>6. CASE EndLinks
      <3>1. /\ pc = "links" /\ pc' = "loop" /\ cut \subseteq cut'
            /\ cut' = {} => left = <<>>
            /\ UNCHANGED <<queue, visited, pages, outcome, failed>>
        BY <2>6 DEF EndLinks
      <3>2. \A u : InQueue(u) => InQueue(u)'
        BY <3>1 DEF InQueue
      <3>3. cut' = {} => \A u : ~InLeft(u)
        BY <3>1 DEF InLeft
      <3>4. visited' = failed' \cup {p.asked : p \in pages}
                               \cup {u \in {x'.asked} : pc' = "page"}
        BY <3>1 DEF Tracked
      <3> QED  BY <1>3, <3>1, <3>2, <3>3, <3>4, TrackedKept
    <2>7. CASE PassUrl
      <3>1. /\ queue # <<>> /\ queue' = Popped /\ pc = "loop" /\ pc' = "loop"
            /\ Top.url \in visited \/ ~Allowed(Top.url)
            /\ UNCHANGED <<visited, pages, outcome, cut, failed>>
        BY <2>7 DEF PassUrl, More, history
      <3>2. \A u : InQueue(u) => u \in visited' \/ ~Allowed(u) \/ InQueue(u)'
        BY <3>1, PoppedQueue
      <3>3. visited' = failed' \cup {p.asked : p \in pages}
                               \cup {u \in {x'.asked} : pc' = "page"}
        BY <3>1 DEF Tracked
      <3> QED  BY <1>3, <3>1, <3>2, <3>3, TrackedKept
    <2>8. CASE FetchUrl
      <3>1. /\ queue # <<>> /\ queue' = Popped /\ pc = "loop" /\ pc' = "page"
            /\ visited' = visited \cup {Top.url} /\ x'.asked = Top.url
            /\ UNCHANGED <<pages, outcome, cut, failed>>
        BY <2>8 DEF FetchUrl, More, history, Exchange
      <3>2. \A u : InQueue(u) => u \in visited' \/ ~Allowed(u) \/ InQueue(u)'
        BY <3>1, PoppedQueue
      <3>3. visited' = failed' \cup {p.asked : p \in pages}
                               \cup {u \in {x'.asked} : pc' = "page"}
        BY <3>1 DEF Tracked
      <3> QED  BY <1>3, <3>1, <3>2, <3>3, TrackedKept
    <2>9. CASE EndCrawl
      <3>1. /\ pc = "loop" /\ pc' = "done"
            /\ queue = <<>> \/ Cardinality(visited) >= limits.urls
            /\ outcome' = "ok"
            /\ UNCHANGED <<queue, visited, pages, cut, failed>>
        BY <2>9 DEF EndCrawl, history
      <3>2. queue = <<>>
        <4>1. queue \in Seq(Waiting) /\ Len(queue) \in Nat
          BY LenProperties DEF TypeOK, Waiting
        <4>2. Cardinality(visited) \in Nat /\ limits.urls \in Nat
          BY FS_CardinalityType, LimitsKind DEF Budget, TypeOK
        <4>3. Cardinality(visited) >= limits.urls => Len(queue) = 0
          BY <4>1, <4>2 DEF Budget
        <4>4. Len(queue) = 0 => queue = <<>>
          BY <4>1, EmptySeq
        <4> QED  BY <3>1, <4>3, <4>4
      <3>3. rules' = rules /\ limits' = limits /\ ~Beginning' /\ start' = start
            /\ site' = site
        BY <1>3, RulesStay
      <3>4. outcome # "error"
        BY <3>1 DEF Undecided
      <3> QED  BY <1>3, <3>1, <3>2, <3>3, <3>4 DEF Tracked, Allowed, InQueue, LinksOf
    <2>10. CASE RejectStart \/ BeginCrawl \/ TakeRobots
      BY <1>3, <2>10 DEF RejectStart, BeginCrawl, TakeRobots, Beginning
    <2>11. CASE UNCHANGED vars
      BY <2>11 DEF vars, Tracked, Beginning, Allowed, InQueue, InLeft, LinksOf
    <2> QED
      BY <2>1, <2>2, <2>3, <2>4, <2>5, <2>6, <2>7, <2>8, <2>9, <2>10, <2>11 DEF Next
  <1> QED  BY <1>1, <1>2, <1>3

LEMMA TrackedHolds ==
    TypeOK /\ Early /\ Tracked => LinksFollowed
  <1> SUFFICES ASSUME TypeOK, Early, Tracked, pc = "done", outcome = "ok", cut = {}
               PROVE  /\ \A p \in pages : \A i \in DOMAIN site[p.got].links :
                             Allowed(site[p.got].links[i])
                                 => site[p.got].links[i] \in visited
                      /\ Allowed(start) => start \in visited
                      /\ visited = failed \cup {p.asked : p \in pages}
    BY DEF LinksFollowed
  <1>1. \A u : ~InQueue(u)
    BY DEF Tracked, InQueue
  <1>2. Allowed(start) => start \in visited
    BY <1>1 DEF Tracked, Beginning
  <1>3. visited = failed \cup {p.asked : p \in pages}
    BY DEF Tracked
  <1>4. ASSUME NEW p \in pages, NEW i \in DOMAIN site[p.got].links,
               Allowed(site[p.got].links[i])
        PROVE  site[p.got].links[i] \in visited
    <2>1. p.got \in Urls /\ site \in Sites
      BY UrlsAssumption DEF TypeOK
    <2>2. site[p.got].kind = "page"
      BY DEF Tracked
    <2>3. site[p.got].links \in Seq(Urls)
      BY <2>1, <2>2, SitesAssumption DEF Redirect
    <2>4. i \in 1..Len(site[p.got].links)
      BY <2>3, LenProperties
    <2>5. site[p.got].links[i] \in LinksOf(p.got)
      BY <2>4 DEF LinksOf
    <2> QED  BY <1>1, <1>4, <2>5 DEF Tracked
  <1> QED  BY <1>2, <1>3, <1>4

\* LinksFollowed in every run: a crawl that met neither the depth nor the
\* number of URLs (web.rs:302-343) has tried every link it may follow.
THEOREM AllTried == Spec => []LinksFollowed
  <1> QED
    BY TypeInit, TypeStep, EarlyInit, EarlyStep, BudgetInit, BudgetStep, UndecidedInit,
       UndecidedStep, TrackedInit, TrackedStep, TrackedHolds, PTL DEF Spec
=============================================================================
