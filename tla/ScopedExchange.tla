----------------------------- MODULE ScopedExchange -----------------------------
(***************************************************************************)
(* One exchange of the ScopedHttpClient (vest-scanner/src/http_client.rs)  *)
(* in full: the origin, the budget and robots.txt, the addresses a host    *)
(* resolves to (net_safety.rs), methods and bodies across redirects, and   *)
(* the limit on the body.  Crawl has the exchanges of a crawl, without     *)
(* addresses, methods and bodies.                                          *)
(*                                                                         *)
(* A name may resolve to something else at every hop.  An address, and a   *)
(* literal host, is known by what it is; so is a host name (HostKinds).    *)
(***************************************************************************)
EXTENDS Integers, Sequences, FiniteSets

CONSTANTS
    ExJobs,     \* what is asked for, and how: see IsExchangeJob
    ExUrls,     \* where a redirect may lead
    ExSizes     \* how large a body may be

PrivateAddresses == {"private", "loopback", "linkLocal", "unspecified", "broadcast", "sharedNat",
                     "uniqueLocal", "mappedPrivate"}
Addresses == PrivateAddresses \cup {"public"}
HostKinds == Addresses \cup {"name", "metadataName"}
\* The budgets the client is made with when nothing else is said.
DefaultBudgets == [redirects |-> 5, bytes |-> 5242880, policy |-> "truncate"]

\* url: scheme, userinfo, host (a kind and a label), port, path.
IsUrl(url) ==
    /\ url.scheme \in {"http", "https", "other"} /\ url.userinfo \in BOOLEAN
    /\ url.kind \in HostKinds
IsExchangeJob(job) ==
    /\ IsUrl(job.url) /\ job.method \in {"GET", "POST"} /\ job.sends \in {"none", "form", "body"}
    /\ job.redirects \in Nat /\ job.bytes \in Nat /\ job.budget \in Nat
    /\ job.policy \in {"truncate", "reject"} /\ job.deny \in BOOLEAN
ASSUME ExchangeAssumption ==
    /\ \A job \in ExJobs : IsExchangeJob(job)
    /\ \A url \in ExUrls : IsUrl(url)
    /\ ExSizes \subseteq Nat

VARIABLES
    exJob,
    exStage,    \* "idle", "hop" (to be checked), "waiting" (for an answer), "done"
    exAt,       \* where the exchange is,
    exMethod, exSends,  \* with what
    exSent,     \* the requests that went out, each with the addresses it could go to
    exGot       \* how it ended, and the bytes of the body taken

exVars == <<exJob, exStage, exAt, exMethod, exSends, exSent, exGot>>

NoUrl == [scheme |-> "other", userinfo |-> FALSE, kind |-> "name", host |-> "", port |-> 0, path |-> ""]
NoExchangeJob == [url |-> NoUrl, method |-> "GET", sends |-> "none", redirects |-> 0, bytes |-> 0, budget |-> 0,
                  policy |-> "truncate", deny |-> FALSE, robots |-> {}]
Got(how, bytes) == [how |-> how, bytes |-> bytes]

ExTypeOK ==
    /\ exStage \in {"idle", "hop", "waiting", "done"}
    /\ IsUrl(exAt) /\ exMethod \in {"GET", "POST"} /\ exSends \in {"none", "form", "body"}
    /\ exGot.how \in {"none", "body", "Scan", "Timeout"} /\ exGot.bytes \in Nat
    /\ \A i \in DOMAIN exSent : exSent[i].addrs \subseteq Addresses

ExInit ==
    /\ exJob = NoExchangeJob /\ exStage = "idle" /\ exAt = NoUrl
    /\ exMethod = "GET" /\ exSends = "none" /\ exSent = <<>> /\ exGot = Got("none", 0)

-----------------------------------------------------------------------------
\* reject_disallowed_url, and NetworkScope::allows: the same scheme, host and port.
Disallowed(url) == url.scheme = "other" \/ url.userinfo
Origin(url) == <<url.scheme, url.host, url.port>>
ScopeAllows(scope, url) == ~Disallowed(url) /\ Origin(url) = Origin(scope)

\* is_private_or_metadata_host, by the name alone.
PrivateHost(url) == url.kind \in PrivateAddresses \cup {"metadataName"}
\* A literal address resolves to itself, a name to whatever it is told.
ResolvesTo(url, addrs) == addrs \subseteq Addresses /\ (url.kind \in Addresses => addrs = {url.kind})

\* Seeded bug: one address that is not private is enough.
AddressesAllowed_Some(url, addrs) == ~PrivateHost(url) /\ addrs \ PrivateAddresses # {}

\* ensure_connect_addrs_allowed: every address must be.
AddressesAllowed(url, addrs) == ~PrivateHost(url) /\ addrs # {} /\ addrs \cap PrivateAddresses = {}

RobotsDisallow(job, url) == url.path \in job.robots

\* A form of a GET becomes its query.
ExBegin(job) ==
    /\ exStage = "idle"
    /\ exJob' = job /\ exAt' = job.url /\ exMethod' = job.method
    /\ exSends' = IF job.method = "GET" /\ job.sends = "form" THEN "none" ELSE job.sends
    /\ exStage' = IF Disallowed(job.url) THEN "done" ELSE "hop"
    /\ exGot' = IF Disallowed(job.url) THEN Got("Scan", 0) ELSE Got("none", 0)
    /\ UNCHANGED exSent

ExFails(how) ==
    /\ exGot' = Got(how, 0) /\ exStage' = "done"
    /\ UNCHANGED <<exJob, exAt, exMethod, exSends, exSent>>

\* The hop is authorised and paid for, or the exchange ends.
InBudget == Len(exSent) < exJob.budget
HopRefused == exStage = "hop" /\ ~(ScopeAllows(exJob.url, exAt) /\ InBudget) /\ ExFails("Scan")

\* The addresses are looked up and pinned, and the request goes out; without
\* deny_private_targets the connection looks them up itself.
HopGoesOut(addrs) ==
    /\ exStage = "hop" /\ ScopeAllows(exJob.url, exAt) /\ InBudget
    /\ ResolvesTo(exAt, addrs)
    /\ exJob.deny => AddressesAllowed(exAt, addrs)
    /\ exSent' = Append(exSent, [url |-> exAt, method |-> exMethod, sends |-> exSends, addrs |-> addrs])
    /\ exStage' = "waiting"
    /\ UNCHANGED <<exJob, exAt, exMethod, exSends, exGot>>
AddressesRefused(addrs) ==
    /\ exStage = "hop" /\ ScopeAllows(exJob.url, exAt) /\ InBudget
    /\ ResolvesTo(exAt, addrs) /\ exJob.deny /\ ~AddressesAllowed(exAt, addrs)
    /\ ExFails("Scan")

\* map_reqwest_error: time and connection are told from the rest.
RequestFails == exStage = "waiting" /\ (ExFails("Timeout") \/ ExFails("Scan"))

\* A redirect: 301, 302 and 303 end a POST, 307 and 308 keep it.
MayFollowTo(url) ==
    /\ Len(exSent) <= exJob.redirects
    /\ ScopeAllows(exJob.url, url) /\ ~RobotsDisallow(exJob, url)
RedirectFollowed(url, keeps) ==
    /\ exStage = "waiting" /\ MayFollowTo(url)
    /\ exAt' = url
    /\ exMethod' = IF keeps THEN exMethod ELSE "GET"
    /\ exSends' = IF keeps \/ exMethod = "GET" THEN exSends ELSE "none"
    /\ exStage' = "hop"
    /\ UNCHANGED <<exJob, exSent, exGot>>
RedirectRefused(url) == exStage = "waiting" /\ ~MayFollowTo(url) /\ ExFails("Scan")

\* The body, its length declared or not, up to the limit.
Taken(size) ==
    IF size <= exJob.bytes THEN Got("body", size)
    ELSE IF exJob.policy = "truncate" THEN Got("body", exJob.bytes) ELSE Got("Scan", 0)
BodyArrives(size) ==
    /\ exStage = "waiting"
    /\ exGot' = Taken(size) /\ exStage' = "done"
    /\ UNCHANGED <<exJob, exAt, exMethod, exSends, exSent>>

ExStep ==
    \/ HopRefused \/ RequestFails
    \/ \E addrs \in SUBSET {"public", "private", "loopback"} \cup {{exAt.kind}} :
           HopGoesOut(addrs) \/ AddressesRefused(addrs)
    \/ \E url \in ExUrls : RedirectRefused(url) \/ \E keeps \in BOOLEAN : RedirectFollowed(url, keeps)
    \/ \E size \in ExSizes : BodyArrives(size)
ExNext == (\E job \in ExJobs : ExBegin(job)) \/ ExStep
ExSpec == ExInit /\ [][ExNext]_exVars

-----------------------------------------------------------------------------
\* However often a server redirects and a name changes its address, every request
\* goes to the origin that was allowed, where robots.txt lets a redirect go, with
\* private targets denied only to addresses all of which are public; no more of them
\* than the budget and the redirects allow; what was to be sent once is never sent on
\* after a redirect that ended the POST; and never more than the limit is taken.
EveryHopChecked ==
    /\ \A i \in DOMAIN exSent :
         LET request == exSent[i] IN
         /\ ScopeAllows(exJob.url, request.url)
         /\ i > 1 => request.url.path \notin exJob.robots
         /\ exJob.deny => request.url.kind \in {"public", "name"} /\ request.addrs = {"public"}
         /\ (exJob.method = "POST" /\ request.method = "GET") =>
                \A j \in i..Len(exSent) : exSent[j].sends = "none" /\ exSent[j].method = "GET"
    /\ Len(exSent) <= exJob.budget /\ Len(exSent) <= exJob.redirects + 1
    /\ exGot.bytes <= exJob.bytes
=============================================================================
