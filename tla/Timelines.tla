----------------------------- MODULE Timelines -----------------------------
(* A source's timeline, from the copies of it the index holds: one entry    *)
(* per distinct content on a line, newest first, each under the slug its    *)
(* page is known by.                                                        *)
(*                                                                          *)
(* A copy is [line, sha, version, at]; `at` is the release or OTA file that *)
(* carries it: [kind, day, id, text, beta], where day 0 is unknown and      *)
(* `text` is the place of the release's id, or of the file's day, in the    *)
(* order of text.  Versions, days and shas are numbers in their order.      *)
EXTENDS Integers, Sequences, FiniteSets, FiniteSetsExt, SequencesExt, Sorting

CONSTANTS Copies,     \* every copy of the source releases and files may hold
          LineOrder   \* its lines, the default first (linesOf)

(* What tells a content's first appearance; nothing tells an undated file's.*)
SeenOf(at) ==
  IF at.kind = "release" THEN <<"image", at.id>>
  ELSE IF at.day = 0 THEN <<>> ELSE <<"ota", at.day>>

ASSUME TimelinesAssumption ==
  /\ IsFiniteSet(Copies) /\ \A c \in Copies : {c.sha, c.version, c.at.day, c.at.text} \subseteq Nat
  /\ Range(LineOrder) = {c.line : c \in Copies}
  /\ \A c, d \in Copies : c.at.text = d.at.text <=> SeenOf(c.at) = SeenOf(d.at)

VARIABLE copies

Lines == {c.line : c \in copies}

(* byAppearance: dated first, oldest first, then by what names it.          *)
Earlier(a, b) ==
  \/ a.day # 0 /\ b.day = 0
  \/ (a.day = 0) = (b.day = 0) /\ (a.day < b.day \/ (a.day = b.day /\ a.text < b.text))

\* Mutant: a content any beta shipped.
OnlyBetasAny(same) == \E c \in same : c.at.kind = "release" /\ c.at.beta

OnlyBetas(same) == \A c \in same : c.at.kind = "release" /\ c.at.beta

(* contentOf: what a set of copies of one sha under one version says.       *)
ContentOf(same) ==
  LET c == CHOOSE c \in same : TRUE
      first == CHOOSE a \in {d.at : d \in same} : \A d \in same : d.at = a \/ ~Earlier(d.at, a)
      days == {d.at.day : d \in same} \ {0}
  IN [sha |-> c.sha, version |-> c.version, firstSeen |-> SeenOf(first),
      firstDay |-> IF days = {} THEN 0 ELSE Min(days),
      lastDay |-> IF days = {} THEN 0 ELSE Max(days),
      beta |-> OnlyBetas(same)]

OnLine(line) == {c \in copies : c.line = line}
Contents(line) ==
  {ContentOf({d \in OnLine(line) : d.sha = c.sha /\ d.version = c.version}) : c \in OnLine(line)}

(* The order of a line: newest version, then last day, first.               *)
Newer(a, b) ==
  \/ a.version > b.version
  \/ a.version = b.version /\ (a.lastDay > b.lastDay \/ (a.lastDay = b.lastDay /\ a.sha < b.sha))

(* versionSlug: the newest content of a version has its bare name, an older *)
(* one is told apart by its first appearance.                               *)
Older(c, line) == \E d \in Contents(line) : d.version = c.version /\ Newer(d, c)

\* Mutant: told apart by its place among the version's contents.
SlugByPlace(c, line) ==
  LET newer == {d \in Contents(line) : d.version = c.version /\ Newer(d, c)}
  IN IF newer = {} THEN <<c.version>> ELSE <<c.version, Cardinality(newer)>>

\* Mutant: told apart by its day.
SlugByDay(c, line) == IF Older(c, line) THEN <<c.version, c.firstDay>> ELSE <<c.version>>

Slug(c, line) == IF Older(c, line) /\ c.firstSeen # <<>> THEN <<c.version, c.firstSeen>> ELSE <<c.version>>

(* lineEntries throws: a slug names two contents.                           *)
Clash(line) == \E c, d \in Contents(line) : c # d /\ Slug(c, line) = Slug(d, line)

LineEntries(line) ==
  LET ordered == Sorted(Contents(line), Newer) IN
  [i \in DOMAIN ordered |->
     [slug |-> Slug(ordered[i], line), version |-> ordered[i].version, sha |-> ordered[i].sha,
      beta |-> ordered[i].beta, day |-> ordered[i].firstDay,
      changed |-> i = Len(ordered) \/ ordered[i + 1].sha # ordered[i].sha]]

(* head: the newest entry that is no beta, else the newest.                 *)
HeadAt(line) ==
  LET final == {i \in DOMAIN LineEntries(line) : ~LineEntries(line)[i].beta}
  IN IF final = {} THEN 1 ELSE Min(final)

(* versionOn: the version a slug names, on the default line where none is   *)
(* asked for, or the line's head where no slug is.                          *)
\* Mutant: by the version the slug starts with.
AtVersion(entries, slug) == SelectInSeq(entries, LAMBDA e : e.version = slug[1])

At(entries, slug) == SelectInSeq(entries, LAMBDA e : e.slug = slug)

DefaultLine == SelectSeq(LineOrder, LAMBDA l : l \in Lines)[1]
VersionOn(line, slug) ==
  LET entries == LineEntries(line)
      i == IF slug = <<>> THEN HeadAt(line) ELSE At(entries, slug)
  IN [found |-> i # 0, entry |-> IF i = 0 THEN <<>> ELSE entries[i],
      previous |-> IF i = 0 \/ i = Len(entries) THEN <<>> ELSE entries[i + 1]]

-----------------------------------------------------------------------------
TimelineInit == copies \in {{c} : c \in Copies}

(* Facts of a record or file add a copy, and a record written again without *)
(* the source takes its copy back; deriveSource throws where none is left.  *)
AddCopy == \E c \in Copies \ copies : copies' = copies \cup {c}
DropCopy == \E c \in copies : copies' = copies \ {c} /\ copies' # {}

TimelineNext == AddCopy \/ DropCopy

TimelineSpec == TimelineInit /\ [][TimelineNext]_copies

-----------------------------------------------------------------------------
(* Properties. *)

(* Copies whose release, or whose files' day, holds two contents of one     *)
(* version, and files with no day: what first appearance cannot tell apart. *)
Alike(held) ==
  {c \in held : SeenOf(c.at) = <<>> \/ \E d \in held : /\ d.line = c.line /\ d.version = c.version
                                                     /\ d.sha # c.sha /\ SeenOf(d.at) = SeenOf(c.at)}

(* The derivation of a source fails only over contents first appearance     *)
(* cannot tell apart: never because a version is reused, a content comes    *)
(* back, or two releases share a day (lineEntries).                         *)
ClashesOnlyAlike == \A line \in Lines : Clash(line) => Alike(OnLine(line)) # {}

(* Every content a line holds is found under its own slug, with the entry   *)
(* after it as its previous version, so no page is shadowed by another's    *)
(* (versionOn, lineEntries).                                                *)
SlugsResolve ==
  \A line \in Lines : ~Clash(line) => \A c \in Contents(line) :
    LET at == VersionOn(line, Slug(c, line))
        after == {d \in Contents(line) : Newer(c, d)}
    IN /\ at.found /\ at.entry.sha = c.sha /\ at.entry.version = c.version
       /\ IF after = {} THEN at.previous = <<>>
          ELSE \E d \in after : /\ at.previous.sha = d.sha /\ at.previous.version = d.version
                                /\ \A x \in after \ {d} : Newer(d, x)

(* The version shown where none is named is one some release that is no     *)
(* beta shipped, and none so shipped is of a later version, though contents *)
(* ship in betas first and come back in them (head, contentOf).             *)
HeadShipped == copies # {} =>
  LET at == VersionOn(DefaultLine, <<>>).entry
      shipped == {c \in OnLine(DefaultLine) : ~(c.at.kind = "release" /\ c.at.beta)}
  IN shipped # {} => \E c \in shipped : /\ c.sha = at.sha /\ c.version = at.version
                                        /\ \A d \in shipped : d.version <= c.version

(* A dated slug names after a step the content it named before.             *)
Pinned ==
  \A line \in Lines \cap Lines' : \A c \in Contents(line) : \A d \in Contents(line)' :
    Len(Slug(c, line)) = 2 /\ Slug(c, line) = Slug(d, line)' => c.sha = d.sha

(* The slug of an older content, by its first appearance, never comes to    *)
(* name another, as contents come back, are backfilled or are taken away,   *)
(* but for contents first appearance cannot tell apart (versionSlug).       *)
DatedSlugsPinned == [][Alike(copies \cup copies') = {} => Pinned]_copies
=============================================================================
