------------------------------- MODULE WebProbes -------------------------------
(***************************************************************************)
(* What the web scanner does with the pages its crawl returned: passive    *)
(* checks of the headers and, with consent, probes: one request after the  *)
(* other, page by page, check by check.  Every check of every page has a   *)
(* request budget of its own.                                              *)
(*                                                                         *)
(* A page is a record of its URL, the parameters of its query, its forms,  *)
(* whether its path speaks of searching, the security headers it misses,   *)
(* and whether every origin may read it.                                   *)
(***************************************************************************)
EXTENDS Naturals, FiniteSets, Sequences, SequencesExt

CONSTANTS
    WpSites,        \* what the crawl may return: sequences of pages
    WpHoles,        \* sets of holes there may be, see IsHole
    WpRedirecting,  \* places whose first answer is a redirect
    WpUrlLike,      \* names of parameters that speak of URLs or redirects,
    WpFileLike,     \* and of files, paths or inclusion
    WpBudgets,      \* crawl_max_urls
    WpMaxFailures   \* requests that fail (bounds TLC)

VARIABLES
    wpScan,     \* the pages, the holes, the consent, the budget; who asked
    wpStage,    \* "idle", "pages", "reported"
    wpPage,     \* the page that is looked at
    wpCheck,    \* the number of the check it is going through,
    wpAttempt,  \* of the attempt in that check,
    wpPayload,  \* and of the payload
    wpCount,    \* the request counter of the check
    wpFindings, \* the findings so far, in order
    wpUsed,     \* <<page, check>> -> requests sent for it (history)
    wpFailed    \* <<page, check, attempt, payload>> that failed (history)

wpVars == <<wpScan, wpStage, wpPage, wpCheck, wpAttempt, wpPayload, wpCount, wpFindings, wpUsed, wpFailed>>

-----------------------------------------------------------------------------
ProbeChecks == <<"exposure", "xss", "sqli", "ssrf", "traversal", "command">>

\* How many payloads an attempt has, by its kind; which kinds go on after a hit.
Payloads == [exposure |-> 1, xssForm |-> 5, xssUrl |-> 1, sqli |-> 5, ssrf |-> 4,
             traversalForm |-> 9, traversalUrl |-> 9, command |-> 3]
GoesOn == {"traversalForm", "traversalUrl"}

ClassOf == [exposure |-> "Unknown", xssForm |-> "XSS", xssUrl |-> "XSS", sqli |-> "SQLInjection",
            ssrf |-> "SSRF", traversalForm |-> "PathTraversal", traversalUrl |-> "PathTraversal",
            command |-> "CommandInjection"]

\* A hole shows itself to one payload of one kind of attempt.
IsHole(h) == h.kind \in DOMAIN Payloads /\ h.payload \in 1..Payloads[h.kind]
WpForms == [action : STRING, method : STRING, inputs : Seq(STRING)]
WpPages == [url : STRING, query : Seq(STRING), forms : Seq(WpForms), searching : BOOLEAN, missing : STRING,
            wildcard : BOOLEAN]
ASSUME ProbeAssumption ==
    /\ \A h \in UNION WpHoles : IsHole(h)
    /\ \A site \in WpSites : site \in Seq(WpPages)
    /\ WpMaxFailures \in Nat /\ WpBudgets \subseteq Nat

Attempt(kind, param, at, method) == [kind |-> kind, param |-> param, at |-> at, method |-> method]

\* Those of the names that are wanted, in their order.
Only(names, wanted) == FlattenSeq([i \in DOMAIN names |-> IF names[i] \in wanted THEN <<names[i]>> ELSE <<>>])

\* One attempt per input of a form, in their order.
OnForms(page, kind, names) ==
    FlattenSeq([i \in DOMAIN page.forms |->
        LET form == page.forms[i]
            wanted == Only(form.inputs, names)
        IN  [j \in DOMAIN wanted |-> Attempt(kind, wanted[j], form.action, form.method)]])
Inputs(page) == FlattenSeq([i \in DOMAIN page.forms |-> page.forms[i].inputs])
Names(page) == Range(Inputs(page)) \cup Range(page.query)

\* The first of equal names stays.
Distinct(names) == FoldLeft(LAMBDA seen, n : IF n \in Range(seen) THEN seen ELSE Append(seen, n), <<>>, names)
OnUrl(kind, at, names) == [i \in DOMAIN names |-> Attempt(kind, names[i], at, "GET")]

\* Parameters the path lets one expect.
Candidates(page) ==
    Distinct((IF page.searching THEN <<"q", "query", "search">> ELSE <<>>) \o Inputs(page))

Attempts(page, check) ==
    CASE check = "exposure"  -> OnUrl("exposure", page.url, <<".git/HEAD", ".env">>)
      [] check = "xss"       -> OnForms(page, "xssForm", Names(page)) \o OnUrl("xssUrl", page.url, page.query)
                                    \o OnUrl("xssUrl", page.url, Candidates(page))
      [] check = "sqli"      -> OnForms(page, "sqli", Names(page))
      [] check = "ssrf"      -> OnForms(page, "ssrf", WpUrlLike)
      [] check = "traversal" ->
            OnForms(page, "traversalForm", WpFileLike)
                \o OnUrl("traversalUrl", page.url, Only(Distinct(page.query \o Inputs(page)), WpFileLike))
      [] check = "command"   -> OnForms(page, "command", Names(page))

\* Titles: reflection in a URL parameter does not say of which page.
TitleOf(attempt) ==
    [what |-> attempt.kind, param |-> attempt.param, at |-> IF attempt.kind = "xssUrl" THEN "" ELSE attempt.at]
ProbeFinding(attempt) == [title |-> TitleOf(attempt), class |-> ClassOf[attempt.kind]]

\* The passive checks.
HeaderFindings(page) ==
    (IF page.missing = "" THEN <<>>
     ELSE << [title |-> [what |-> "headers", param |-> page.missing, at |-> ""], class |-> "CORS"] >>)
    \o (IF page.wildcard THEN << [title |-> [what |-> "wildcard", param |-> "", at |-> page.url], class |-> "CORS"] >>
        ELSE <<>>)

\* Of findings with the same title and class the first stays.  Seeded bug: the
\* class alone is compared.
Deduped_ByClass(findings) ==
    FoldLeft(LAMBDA kept, f : IF \E g \in Range(kept) : g.class = f.class THEN kept ELSE Append(kept, f),
             <<>>, findings)
Deduped(findings) == Distinct(findings)

-----------------------------------------------------------------------------
NoScan == [pages |-> <<>>, holes |-> {}, consent |-> FALSE, budget |-> 0, inspect |-> FALSE]

WpTypeOK ==
    /\ wpScan.holes \subseteq UNION WpHoles /\ wpScan.pages \in WpSites \cup {<<>>}
    /\ wpStage \in {"idle", "pages", "reported"}
    /\ wpPage \in 0..(Len(wpScan.pages) + 1) /\ wpCheck \in 0..Len(ProbeChecks)
    /\ wpAttempt \in Nat /\ wpPayload \in 0..9 /\ wpCount \in 0..wpScan.budget
    /\ Cardinality(wpFailed) <= WpMaxFailures

WpInit ==
    /\ wpScan = NoScan /\ wpStage = "idle"
    /\ wpPage = 0 /\ wpCheck = 0 /\ wpAttempt = 0 /\ wpPayload = 0 /\ wpCount = 0
    /\ wpFindings = <<>> /\ wpUsed = <<>> /\ wpFailed = {}

\* A scan of the crawled pages; inspect_url looks at one page and does not probe
\* its parameters.
WpBegin(scan) ==
    /\ wpStage = "idle"
    /\ scan.inspect => Len(scan.pages) = 1
    /\ wpScan' = scan
    /\ wpStage' = "pages" /\ wpPage' = 1 /\ wpCheck' = 0
    /\ wpUsed' = [slot \in (DOMAIN scan.pages) \X Range(ProbeChecks) |-> 0]
    /\ UNCHANGED <<wpAttempt, wpPayload, wpCount, wpFindings, wpFailed>>

Page == wpScan.pages[wpPage]
Looking == wpStage = "pages" /\ wpPage <= Len(wpScan.pages)
CheckName == ProbeChecks[wpCheck]
Todo == Attempts(Page, CheckName)
AtPayload == Looking /\ wpCheck > 0 /\ wpAttempt <= Len(Todo)
Slot == <<wpPage, CheckName>>

\* The next check begins with a counter of its own.
OnToCheck(n) == wpCheck' = n /\ wpAttempt' = 1 /\ wpPayload' = 1 /\ wpCount' = 0
LastCheck == IF wpScan.inspect THEN 1 ELSE Len(ProbeChecks)

PassiveChecks ==
    /\ Looking /\ wpCheck = 0
    /\ wpFindings' = wpFindings \o HeaderFindings(Page)
    /\ IF wpScan.consent THEN OnToCheck(1) /\ UNCHANGED wpPage
       ELSE wpPage' = wpPage + 1 /\ UNCHANGED <<wpCheck, wpAttempt, wpPayload, wpCount>>
    /\ UNCHANGED <<wpScan, wpStage, wpUsed, wpFailed>>

NextCheck ==
    /\ Looking /\ wpCheck > 0 /\ ~AtPayload
    /\ IF wpCheck < LastCheck THEN OnToCheck(wpCheck + 1) /\ UNCHANGED wpPage
       ELSE wpPage' = wpPage + 1 /\ wpCheck' = 0 /\ UNCHANGED <<wpAttempt, wpPayload, wpCount>>
    /\ UNCHANGED <<wpScan, wpStage, wpFindings, wpUsed, wpFailed>>

\* On to the next payload, or attempt.
Forward(over) ==
    IF over \/ wpPayload = Payloads[Todo[wpAttempt].kind]
    THEN wpAttempt' = wpAttempt + 1 /\ wpPayload' = 1
    ELSE wpPayload' = wpPayload + 1 /\ UNCHANGED wpAttempt

Shows(attempt) ==
    \E h \in wpScan.holes : /\ h.kind = attempt.kind /\ h.param = attempt.param
                            /\ h.at = attempt.at /\ h.payload = wpPayload

\* A request with its redirects: each hop takes one of the budget.
Submittable(attempt) == attempt.method \in {"GET", "POST"}
Hops(attempt) == IF attempt.at \in WpRedirecting THEN 2 ELSE 1
Probe(hops) ==
    /\ AtPayload /\ hops = Hops(Todo[wpAttempt]) /\ Submittable(Todo[wpAttempt])
    /\ wpCount + hops <= wpScan.budget
    /\ wpCount' = wpCount + hops
    /\ wpUsed' = [wpUsed EXCEPT ![Slot] = @ + hops]
    /\ LET attempt == Todo[wpAttempt]
       IN  /\ wpFindings' = IF Shows(attempt) THEN Append(wpFindings, ProbeFinding(attempt)) ELSE wpFindings
           /\ Forward(Shows(attempt) /\ attempt.kind \notin GoesOn)
    /\ UNCHANGED <<wpScan, wpStage, wpPage, wpCheck, wpFailed>>

\* The request is sent and fails, on the way or by a redirect that is not followed.
ProbeFails ==
    /\ AtPayload /\ Submittable(Todo[wpAttempt])
    /\ wpCount < wpScan.budget /\ Cardinality(wpFailed) < WpMaxFailures
    /\ wpCount' = wpCount + 1
    /\ wpUsed' = [wpUsed EXCEPT ![Slot] = @ + 1]
    /\ wpFailed' = wpFailed \cup {<<wpPage, CheckName, wpAttempt, wpPayload>>}
    /\ Forward(FALSE)
    /\ UNCHANGED <<wpScan, wpStage, wpPage, wpCheck, wpFindings>>

\* The budget is spent, or the form has another method: nothing is sent.
ProbeRefused ==
    /\ AtPayload
    /\ ~Submittable(Todo[wpAttempt]) \/ wpCount >= wpScan.budget
    /\ Forward(FALSE)
    /\ UNCHANGED <<wpScan, wpStage, wpPage, wpCheck, wpCount, wpFindings, wpUsed, wpFailed>>

\* The last request of the budget is answered by a redirect.
ProbeCutShort ==
    /\ AtPayload /\ Submittable(Todo[wpAttempt])
    /\ wpCount + 1 = wpScan.budget /\ Hops(Todo[wpAttempt]) = 2
    /\ wpCount' = wpScan.budget
    /\ wpUsed' = [wpUsed EXCEPT ![Slot] = @ + 1]
    /\ Forward(FALSE)
    /\ UNCHANGED <<wpScan, wpStage, wpPage, wpCheck, wpFindings, wpFailed>>

\* A scan removes what it has twice.
WpReport ==
    /\ wpStage = "pages" /\ ~Looking
    /\ wpFindings' = IF wpScan.inspect THEN wpFindings ELSE Deduped(wpFindings)
    /\ wpStage' = "reported"
    /\ UNCHANGED <<wpScan, wpPage, wpCheck, wpAttempt, wpPayload, wpCount, wpUsed, wpFailed>>

WpStep == PassiveChecks \/ NextCheck \/ Probe(1) \/ Probe(2) \/ ProbeFails \/ ProbeRefused
          \/ ProbeCutShort \/ WpReport
WpNext ==
    \/ \E site \in WpSites, holes \in WpHoles, budget \in WpBudgets, consent, inspect \in BOOLEAN :
         WpBegin([pages |-> site, holes |-> holes, consent |-> consent, budget |-> budget, inspect |-> inspect])
    \/ WpStep
WpSpec == WpInit /\ [][WpNext]_wpVars

-----------------------------------------------------------------------------
\* Where the attempts are that would see a hole.
AttemptsAt(hole) ==
    {slot \in (DOMAIN wpUsed) \X (1..20) :
        LET todo == Attempts(wpScan.pages[slot[1][1]], slot[1][2])
        IN  /\ slot[2] \in DOMAIN todo
            /\ todo[slot[2]].kind = hole.kind /\ todo[slot[2]].param = hole.param
            /\ todo[slot[2]].at = hole.at /\ Submittable(todo[slot[2]])}

\* With consent every hole an attempt can see is reported by its title, unless the
\* very request failed or the budget of that check was used up on that page by its
\* own requests: other pages, other checks, other holes, failures and the removal
\* of doubles cost no finding.  Without consent nothing is sent.
VulnerableReported ==
    wpStage = "reported" =>
        IF wpScan.consent
        THEN \A hole \in wpScan.holes :
                \A slot \in AttemptsAt(hole) :
                   \/ wpScan.inspect /\ hole.kind # "exposure"
                   \/ ProbeFinding(hole) \in Range(wpFindings)
                   \/ <<slot[1][1], slot[1][2], slot[2], hole.payload>> \in wpFailed
                   \/ wpUsed[slot[1]] >= wpScan.budget
        ELSE \A slot \in DOMAIN wpUsed : wpUsed[slot] = 0
=============================================================================
