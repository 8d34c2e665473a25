----------------------------- MODULE PixelParts -----------------------------
(* A Pixel build's rows, joined from one record per device in whatever      *)
(* order their messages come; the 5G each device is judged to have; and     *)
(* Android's routing.                                                       *)
(*                                                                          *)
(* Builds are numbered in the order of their sort keys, the release day     *)
(* first; VersionRank orders them by version first.  Devices are numbered   *)
(* by their codes.  A record says [header, firmware, configs]: what all     *)
(* devices of the build must agree on, the modem's firmware, and its        *)
(* configurations, which also tell whether the device has 5G.  Its carrier  *)
(* list is known by the record.                                             *)
EXTENDS Integers, Sequences, FiniteSets, Sorting

CONSTANTS Parts,        \* <<build, device>>: the records Google's page leads to
          VersionRank,  \* build -> its place by version, patch level, day and id
          Bodies,       \* what a record may say
          FiveG,        \* the configurations of a 5G radio
          LaunchDays,   \* device -> the days checks may list it under
          MaxRecords,   \* records written, rewritten ones counted
          MaxFailures   \* attempts of a message that fail between two writes

NoRecord == [header |-> 0, firmware |-> 0, configs |-> 0]
Builds == {p[1] : p \in Parts}
Devices == {p[2] : p \in Parts}

ASSUME PixelPartsAssumption ==
  /\ Parts \subseteq Nat \X Nat /\ NoRecord \notin Bodies
  /\ VersionRank \in [Builds -> Nat]
  /\ \A b, c \in Builds : VersionRank[b] = VersionRank[c] => b = c
  /\ LaunchDays \in [Devices -> SUBSET (Nat \ {0})]

VARIABLES
  day,        \* device -> its release day in the devices table, 0 without a row
  has5g,      \* device -> "yes", "no" or, not judged, "null"
  record,     \* part -> its record in the bucket, or NoRecord
  messages,   \* the parts queued to be indexed
  job,        \* the message in hand
  listed,     \* build -> its row's devices, in order, <<>> without a row
  header,     \* build -> its row's header
  modems,     \* build -> its modems: [firmware, devices]
  configs,    \* build -> device -> its configurations, 0 for none
  routes,     \* <<part, record>> Android is routed by, <<>> for none
  records, attempts,
  dead,       \* parts whose message was dead-lettered
  moved       \* devices were listed or moved after a message was taken

partVars == <<day, has5g, record, messages, job, listed, header, modems, configs, routes,
              records, attempts, dead, moved>>

NoJob == [part |-> <<>>]
DevicesOf(b) == {listed[b][i] : i \in DOMAIN listed[b]}

PartsInit ==
  /\ day = [d \in Devices |-> 0] /\ has5g = [d \in Devices |-> "null"]
  /\ record = [p \in Parts |-> NoRecord]
  /\ messages = {} /\ job = NoJob
  /\ listed = [b \in Builds |-> <<>>] /\ header = [b \in Builds |-> 0]
  /\ modems = [b \in Builds |-> {}]
  /\ configs = [b \in Builds |-> [d \in Devices |-> 0]]
  /\ routes = <<>>
  /\ records = 0 /\ attempts = 0 /\ dead = {} /\ moved = FALSE

-----------------------------------------------------------------------------
(* What the feed's checks and units write. *)

(* syncDevices: a device new, or listed with an earlier day than held.      *)
SyncDevices(d) ==
  /\ \E to \in LaunchDays[d] :
       /\ day[d] = 0 \/ to < day[d]
       /\ day' = [day EXCEPT ![d] = to]
  /\ moved' = (moved \/ job # NoJob \/ \E b \in Builds : listed[b] # <<>>)
  /\ UNCHANGED <<has5g, record, messages, job, listed, header, modems, configs, routes, records, attempts, dead>>

(* A unit's last step: the record, and its message.                         *)
WritePart(p) ==
  /\ records < MaxRecords
  /\ \E c \in Bodies \ {record[p]} : record' = [record EXCEPT ![p] = c]
  /\ messages' = messages \cup {p}
  /\ records' = records + 1
  /\ UNCHANGED <<day, has5g, job, listed, header, modems, configs, routes, attempts, dead, moved>>

-----------------------------------------------------------------------------
(* releaseRows, for one device's record. *)

(* newestFirst: newest first, a launch's highest code first, unlisted last. *)
NewestFirst(d, e) ==
  \/ day[d] > day[e]
  \/ day[d] = day[e] /\ IF day[d] = 0 THEN d < e ELSE d > e

(* withPart's modems: the device leaves those it was in, then joins one of  *)
(* its firmware whose every device has its configurations, or has its own.  *)
Left(b, d) == {n \in {[m EXCEPT !.devices = @ \ {d}] : m \in modems[b]} : n.devices # {}}
\* Mutant: any modem of its firmware.
SharesFirmware(b, m, c) == m.firmware = c.firmware
Shares(b, m, c) == m.firmware = c.firmware /\ \A e \in m.devices : configs[b][e] = c.configs
WithPart(b, d, c) ==
  LET left == Left(b, d)
      same == {m \in left : Shares(b, m, c)}
      own == [firmware |-> c.firmware, devices |-> {d}]
  IN IF same = {} THEN {left \cup {own}}
     ELSE {(left \ {m}) \cup {[m EXCEPT !.devices = @ \cup {d}]} : m \in same}

Agrees(b, c) == listed[b] = <<>> \/ header[b] = c.header

(* readRelease, releaseFacts and withPart: what is to be written, from the  *)
(* record, the devices' order and the build's rows as they are now.         *)
TakePart(p) ==
  /\ job = NoJob /\ p \in messages
  /\ Agrees(p[1], record[p])
  /\ \E joined \in WithPart(p[1], p[2], record[p]), devices \in {Sorted(DevicesOf(p[1]) \cup {p[2]}, NewestFirst)} :
       job' = [part |-> p, record |-> record[p], devices |-> devices, modems |-> joined,
               todo |-> {"release", "modems", "configs"}, at |-> "rows"]
  /\ UNCHANGED <<day, has5g, record, messages, listed, header, modems, configs, routes, records, attempts, dead, moved>>

(* A record that disagrees on the header throws on every try.               *)
RefusePart(p) ==
  /\ job = NoJob /\ p \in messages
  /\ ~Agrees(p[1], record[p])
  /\ messages' = messages \ {p} /\ dead' = dead \cup {p}
  /\ UNCHANGED <<day, has5g, record, job, listed, header, modems, configs, routes, records, attempts, moved>>

(* putRelease: three tables, each in a transaction of its own, at once.     *)
PutTable(table) ==
  /\ job # NoJob /\ job.at = "rows" /\ table \in job.todo
  /\ job' = [job EXCEPT !.todo = @ \ {table}]
  /\ LET b == job.part[1] IN
     /\ IF table = "release"
          THEN listed' = [listed EXCEPT ![b] = job.devices] /\ header' = [header EXCEPT ![b] = job.record.header]
          ELSE UNCHANGED <<listed, header>>
     /\ modems' = IF table = "modems" THEN [modems EXCEPT ![b] = job.modems] ELSE modems
     /\ configs' = IF table = "configs" THEN [configs EXCEPT ![b][job.part[2]] = job.record.configs] ELSE configs
  /\ UNCHANGED <<day, has5g, record, messages, routes, records, attempts, dead, moved>>

(* newestReleaseDevices: none of a later sort key lists the device.         *)
\* Mutant: whatever releases list it.
JudgedByAny(b, d) == TRUE
Judged(b, d) == \A c \in Builds : c > b => d \notin DevicesOf(c)

Radio(c) == IF c.configs \in FiveG THEN "yes" ELSE "no"

(* judgeRadios: setHas5g updates the device's row, if it has one.           *)
JudgeRadios ==
  /\ job # NoJob /\ job.at = "rows" /\ job.todo = {}
  /\ job' = [job EXCEPT !.at = "routes"]
  /\ LET d == job.part[2] IN
     has5g' = IF Judged(job.part[1], d) /\ day[d] # 0
                THEN [has5g EXCEPT ![d] = Radio(job.record)] ELSE has5g
  /\ UNCHANGED <<day, record, messages, listed, header, modems, configs, routes, records, attempts, dead, moved>>

(* routePixels: of the newest by version; then the message is acknowledged. *)
\* Mutant: whichever build is indexed last.
NewestBuildAny(b) == TRUE
NewestBuild(b) == \A c \in Builds : VersionRank[c] > VersionRank[b] => listed[c] = <<>>
RoutePixels ==
  /\ job # NoJob /\ job.at = "routes"
  /\ routes' = IF job.devices[1] = job.part[2] /\ NewestBuild(job.part[1])
                 THEN <<job.part, job.record>> ELSE routes
  /\ messages' = IF record[job.part] = job.record THEN messages \ {job.part} ELSE messages
  /\ job' = NoJob
  /\ UNCHANGED <<day, has5g, record, listed, header, modems, configs, records, attempts, dead, moved>>

(* An attempt fails between two writes; the message is delivered again.     *)
FailPart ==
  /\ job # NoJob /\ attempts < MaxFailures
  /\ attempts' = attempts + 1
  /\ job' = NoJob
  /\ UNCHANGED <<day, has5g, record, messages, listed, header, modems, configs, routes, records, dead, moved>>

PartsNext ==
  \/ \E d \in Devices : SyncDevices(d)
  \/ \E p \in Parts : WritePart(p) \/ TakePart(p) \/ RefusePart(p)
  \/ \E table \in {"release", "modems", "configs"} : PutTable(table)
  \/ JudgeRadios \/ RoutePixels \/ FailPart

PartsSpec == PartsInit /\ [][PartsNext]_partVars

-----------------------------------------------------------------------------
(* Properties. *)

Owed(b) == {p \in messages \cup dead : p[1] = b}

(* However a build's messages are ordered, repeated and cut short between   *)
(* its tables, once none is owed its rows list every device once, with its  *)
(* record's firmware and configurations, and a modem's devices all carry    *)
(* the same ones (withPart, putRelease).                                    *)
PartsWhole ==
  \A b \in Builds : Owed(b) = {} /\ listed[b] # <<>> =>
    \A p \in Parts : p[1] = b /\ record[p] # NoRecord =>
      /\ p[2] \in DevicesOf(b)
      /\ configs[b][p[2]] = record[p].configs
      /\ {m.firmware : m \in {n \in modems[b] : p[2] \in n.devices}} = {record[p].firmware}
      /\ \A m, n \in modems[b] : p[2] \in m.devices \cap n.devices => m = n
      /\ \A m \in modems[b] : p[2] \in m.devices => \A e \in m.devices : configs[b][e] = record[p].configs

(* A device's 5G, once judged, is what the last build released of those it  *)
(* is listed in says, though older builds are indexed later, unless that build's message *)
(* is owed (judgeRadios).                                                   *)
RadiosTrue ==
  \A d \in Devices : has5g[d] # "null" =>
    \E b \in Builds : d \in DevicesOf(b) /\ (\A c \in Builds : c > b => d \notin DevicesOf(c))
      /\ (<<b, d>> \in Owed(b) \/ has5g[d] = Radio(record[<<b, d>>]))

(* Until a check moves devices, Android is routed by what the newest        *)
(* version's newest device's record now says, whichever of its messages and *)
(* of older builds', though released later, came last (routePixels).        *)
RoutesOfNewest ==
  \A b \in Builds : listed[b] # <<>> /\ NewestBuild(b) /\ Owed(b) = {} /\ ~moved =>
    routes = <<<<b, listed[b][1]>>, record[<<b, listed[b][1]>>]>>
=============================================================================
