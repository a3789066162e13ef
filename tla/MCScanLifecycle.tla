-------------------------- MODULE MCScanLifecycle --------------------------
(* Small instances of ScanLifecycle for TLC: two scanners whose findings    *)
(* overlap in the key `leak`, and an agent that may add `model`.            *)
EXTENDS ScanLifecycle

CONSTANTS web, files, leak, xss, model

MCScanners == {files, web}
MCLists == {<<files, web>>, <<files>>}
MCKeys == {leak, xss, model}
MCAgentKeys == {model}
MCProviders == {"none", "agent"}
MCNoProvider == {"none"}

\* The target may change between two runs of a scanner, or the scanner may
\* have been switched off.
MCResults == [s \in MCScanners |->
                 IF s = web THEN {{leak, xss}, {xss}, {}} ELSE {{leak}, {}}]
\* A target and a configuration that do not change.
MCStableResults == [s \in MCScanners |->
                       IF s = web THEN {{leak, xss}} ELSE {{leak}}]

MCNoOverlap == {}
MCOverlapResume == {"resume"}
MCOverlapDelete == {"delete"}

MCAllFailing == {"scanner", "provider", "process"}
MCProcessFailing == {"process"}
=============================================================================
