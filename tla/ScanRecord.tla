----------------------------- MODULE ScanRecord -----------------------------
(***************************************************************************)
(* What the database promises about a scan, without processes, findings or *)
(* failures: the promise README.md and docs/product-contract.md make about *)
(* `vest scan --resume`.  A scan is begun with a frozen list of scanners,  *)
(* covers them one by one and durably, ends completed only when all are    *)
(* covered, and may be taken up again, where it was left, until then.      *)
(***************************************************************************)
EXTENDS Sequences

CONSTANTS Scans, Scanners, Lists

VARIABLES
    status,     \* status[c]
    list,       \* list[c]: the frozen scanner list
    covered     \* covered[c]: the scanners whose outcome is durable

vars == <<status, list, covered>>

Listed(c) == {list[c][i] : i \in DOMAIN list[c]}

Init ==
    /\ status = [c \in Scans |-> "unborn"]
    /\ list = [c \in Scans |-> <<>>]
    /\ covered = [c \in Scans |-> {}]

Begin(c) ==
    /\ status[c] = "unborn"
    /\ status' = [status EXCEPT ![c] = "running"]
    /\ \E l \in Lists : list' = [list EXCEPT ![c] = l]
    /\ UNCHANGED covered

Cover(c) ==
    /\ status[c] = "running"
    /\ \E s \in Listed(c) \ covered[c] :
           covered' = [covered EXCEPT ![c] = @ \cup {s}]
    /\ UNCHANGED <<status, list>>

\* All scanners covered and no provider failure.
Complete(c) ==
    /\ status[c] = "running"
    /\ Listed(c) \subseteq covered[c]
    /\ status' = [status EXCEPT ![c] = "completed"]
    /\ UNCHANGED <<list, covered>>

\* A scan that covered nothing does not end: it stays running.
Degrade(c) ==
    /\ status[c] = "running"
    /\ covered[c] # {}
    /\ status' = [status EXCEPT ![c] = "failed"]
    /\ UNCHANGED <<list, covered>>

Reopen(c) ==
    /\ status[c] = "failed"
    /\ status' = [status EXCEPT ![c] = "running"]
    /\ UNCHANGED <<list, covered>>

\* Deletion first forgets the coverage, then the scan.
Forget(c) ==
    /\ status[c] \notin {"unborn", "gone"}
    /\ covered' = [covered EXCEPT ![c] = {}]
    /\ UNCHANGED <<status, list>>

Remove(c) ==
    /\ status[c] \notin {"unborn", "gone"}
    /\ covered[c] = {}
    /\ status' = [status EXCEPT ![c] = "gone"]
    /\ list' = [list EXCEPT ![c] = <<>>]
    /\ UNCHANGED covered

Next ==
    \E c \in Scans :
        Begin(c) \/ Cover(c) \/ Complete(c) \/ Degrade(c) \/ Reopen(c)
            \/ Forget(c) \/ Remove(c)

Spec == Init /\ [][Next]_vars
=============================================================================
