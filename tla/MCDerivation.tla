---------------------------- MODULE MCDerivation ----------------------------
(* What rows say once they are derived or joined, each on a small instance  *)
(* of its own: a behaviour is one source's timeline, linking's, a few Pixel *)
(* builds', the weekly search for names, or the reading of a paged list.    *)
EXTENDS Linking, Timelines, PixelParts, Labels, Pages

VARIABLE part
allVars == <<linkVars, copies, partVars, labelVars, pageVars, part>>

CONSTANTS r1, r2, r3, t0

Src(platform, kind, name) == [platform |-> platform, kind |-> kind, name |-> name]
iosA == Src("ios", "carrier", "A")
padA == Src("ipados", "carrier", "A")
iosB == Src("ios", "carrier", "B")
pixA == Src("android", "carrier", "A")
pixC == Src("android", "carrier", "C")
cscG == Src("samsung", "carrier", "G")

MCSources == {iosA, padA, iosB, pixA, pixC, cscG}
MCKeyOrder == <<pixA, pixC, iosA, iosB, padA, cscG>>
MCRules == {r1, r2, r3, t0}
MCHeads ==
  [s \in MCSources |->
     IF s = iosA THEN {{r1, r2}, {r1, t0}}
     ELSE IF s = padA THEN {{r1, r3}, {r2}}
     ELSE IF s = iosB THEN {{r3}}
     ELSE IF s = pixA THEN {{r1, r2}, {r3, t0}}
     ELSE IF s = pixC THEN {{r3}, {r1}}
     ELSE {{r1, r2, r3}}]
MCLinks == {{iosB, pixC}}
MCUnnamed == {pixC}
MCSplits == {<<iosA, pixC>>}
MCPlatformFirst == {<<"android", "C">>}

Release(on, id, text, beta) == [kind |-> "release", day |-> on, id |-> id, text |-> text, beta |-> beta]
File(on, text) == [kind |-> "ota", day |-> on, id |-> "file", text |-> text, beta |-> FALSE]
Copy(line, sha, version, at) == [line |-> line, sha |-> sha, version |-> version, at |-> at]
MCCopies ==
  {Copy("main", 1, 1, Release(2, "B1", 5, TRUE)), Copy("main", 2, 1, Release(2, "B2", 6, FALSE)),
   Copy("main", 1, 1, File(4, 3)), Copy("main", 3, 1, File(4, 3)), Copy("main", 3, 1, File(1, 1)),
   Copy("main", 4, 1, Release(0, "B0", 4, FALSE)), Copy("main", 5, 1, File(0, 0)),
   Copy("main", 1, 2, Release(5, "B3", 7, TRUE)), Copy("main", 2, 2, Release(6, "B4", 8, FALSE)),
   Copy("model", 1, 1, File(4, 3))}
MCLineOrder == <<"main", "model">>

MCParts == {<<1, 1>>, <<1, 2>>, <<2, 1>>}
MCVersionRank == [b \in {1, 2} |-> 3 - b]
MCBodies ==
  {[header |-> 1, firmware |-> 1, configs |-> 1], [header |-> 1, firmware |-> 1, configs |-> 2],
   [header |-> 2, firmware |-> 1, configs |-> 1]}
MCLaunchDays == [d \in {1, 2} |-> IF d = 1 THEN {1, 3} ELSE {2}]

MCCodes == 1 .. 3
MCKindOf == [c \in MCCodes |-> IF c = 3 THEN "modem" ELSE "device"]
MCKindOrder == <<"device", "modem">>

NoList ==
  /\ windowed = FALSE /\ limit = 1 /\ place = [k \in {} |-> 0] /\ stayed = {} /\ slid = FALSE
  /\ after = {} /\ given = <<>> /\ reading = "ended" /\ changes = 0

Init ==
  /\ PartsInit /\ LinkInit /\ LabelsInit
  /\ \/ part \in {"links", "parts", "names"} /\ copies = {} /\ NoList
     \/ part = "lines" /\ TimelineInit /\ NoList
     \/ part = "pages" /\ copies = {} /\ PagesInit
Next ==
  /\ UNCHANGED part
  /\ \/ part = "links" /\ LinkNext /\ UNCHANGED <<copies, partVars, labelVars, pageVars>>
     \/ part = "lines" /\ TimelineNext /\ UNCHANGED <<linkVars, partVars, labelVars, pageVars>>
     \/ part = "parts" /\ PartsNext /\ UNCHANGED <<linkVars, copies, labelVars, pageVars>>
     \/ part = "names" /\ LabelsNext /\ UNCHANGED <<linkVars, copies, partVars, pageVars>>
     \/ part = "pages" /\ PagesNext /\ UNCHANGED <<linkVars, copies, partVars, labelVars>>
Spec == Init /\ [][Next]_allVars
=============================================================================
