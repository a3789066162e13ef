------------------------------ MODULE MemoryRules ------------------------------
(***************************************************************************)
(* The memory scanner.  It reads no process: by default it refuses, and    *)
(* with --allow-memory-simulation it looks at made-up regions.  Data is a  *)
(* sequence of bytes; addresses are places in a region, whose base is a    *)
(* multiple of 16.                                                         *)
(***************************************************************************)
EXTENDS Integers, FiniteSets, Sequences

Bytes == 0..255
AnyByte == 256          \* the wildcard of a pattern: "??", "?" and what is no byte

\* Whether pattern lies at offset m of data; offsets count from 0.
FitsAt(data, pattern, m) ==
    /\ m + Len(pattern) <= Len(data)
    /\ \A j \in 1..Len(pattern) : pattern[j] = AnyByte \/ data[m + j] = pattern[j]

\* What the plain search finds; an empty pattern is nowhere.
Offsets(data, pattern) ==
    IF pattern = <<>> THEN {} ELSE {m \in 0..(Len(data) - 1) : FitsAt(data, pattern, m)}

Executable(region) == region.permissions \in {"RX", "RWX"}

\* The made-up regions, by platform.
Region(name, permissions) == [name |-> name, permissions |-> permissions]
SimulatedRegions(platform) ==
    CASE platform = "windows" -> {Region("game.exe", "RX"), Region("game.exe", "RW"), Region("ntdll.dll", "RX"),
                                  Region("", "RWX")}
      [] platform = "linux"   -> {Region("game", "RX"), Region("[heap]", "RW"), Region("[anon]", "RWX")}
      [] platform = "macos"   -> {Region("__TEXT", "RX"), Region("__DATA", "RW")}
      [] OTHER                -> {}

\* Their bytes: counting up, with a jump, two returns and a piece of code put in.
FabricatedBytes(size) ==
    LET put == [k \in {256, 257, 258, 259, 260, 336, 384, 512, 513, 514, 515} |->
                  CASE k = 256 -> 233 [] k = 257 -> 69 [] k = 258 -> 35 [] k = 259 -> 1 [] k = 260 -> 0
                    [] k \in {336, 384, 515} -> 195 [] k \in {512, 513} -> 144 [] k = 514 -> 88]
    IN  [i \in 1..size |-> IF size > 256 /\ i - 1 \in DOMAIN put THEN put[i - 1] ELSE (i - 1) % 256]

\* Regions that can be written and executed, and nameless ones that can be written.
SuspiciousRegions(regions) ==
    {<<"suspicious region", r>> : r \in {x \in regions : x.permissions = "RWX"}}
    \cup {<<"unnamed writable region", r>> : r \in {x \in regions : x.permissions \in {"RW", "RWX"} /\ x.name = ""}}

HookPatterns ==
    << <<233, AnyByte, AnyByte, AnyByte, AnyByte>>, <<255, 37>>, <<104, AnyByte, AnyByte, AnyByte, AnyByte, 195>>,
       <<72, 184, AnyByte, AnyByte, AnyByte, AnyByte, AnyByte, AnyByte, AnyByte, AnyByte, 255, 224>>,
       <<255, 37, AnyByte, AnyByte, AnyByte, AnyByte>> >>
ShellcodePatterns ==
    << <<106, 2, 91, 184>>, <<85, 139, 236>>, <<106, 0, 106, 0>>, <<106, 64, 104, 0, 48>> >>

\* Hooks lie at multiples of 8.  Of what is found at one address the first stays,
\* hooks first and then in the order of the patterns.
HooksAt(data, m) == {i \in DOMAIN HookPatterns : m % 8 = 0 /\ FitsAt(data, HookPatterns[i], m)}
ShellcodeAt(data, m) == {i \in DOMAIN ShellcodePatterns : FitsAt(data, ShellcodePatterns[i], m)}
DetectHooks(data) ==
    {<<IF HooksAt(data, m) # {} THEN "hook" ELSE "shellcode", m>> :
        m \in {n \in 0..Len(data) : HooksAt(data, n) # {} \/ ShellcodeAt(data, n) # {}}}

\* What a scan reports; every finding is marked as simulated.
MemoryFindings(platform, options, size) ==
    {[title |-> f, simulated |-> TRUE] :
       f \in (IF "regions" \in options THEN SuspiciousRegions(SimulatedRegions(platform)) ELSE {})
             \cup (IF "hooks" \in options /\ \E r \in SimulatedRegions(platform) : Executable(r)
                   THEN DetectHooks(FabricatedBytes(size)) ELSE {})}

\* Pointers to an address, in 8 bytes; the last window of the data is not looked at.
FindPointers(data, target) ==
    {m \in 0..(Len(data) - 9) : \A j \in 1..8 : data[m + j] = target[j]}
=============================================================================
