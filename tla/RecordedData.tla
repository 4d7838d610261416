---------------------------- MODULE RecordedData ----------------------------
(***************************************************************************)
(* What is recorded and what a replay sees of it: src/data/cache.py,       *)
(* live.py and scripts/backfill.py.  Recorders run backfill: pages of bars *)
(* for the window that ends today, then the manifest, then the document    *)
(* that stands for those whose request names no date (a FRED series, the   *)
(* facts of a company: the code records them in the same way, each on its  *)
(* own).  They may overlap, be refused by the vendor, or die between any   *)
(* two system calls.                                                       *)
(*                                                                         *)
(* A file is an inode.  Recorders of one key share the name of the         *)
(* temporary file, so that one may truncate, complete or rename the inode  *)
(* another writes to.  What an inode holds is the day the vendor gave the  *)
(* answer, from which its rows follow, or Torn.                            *)
(***************************************************************************)
EXTENDS PointInTime

CONSTANTS
  Recorders,    \* processes that may run backfill
  NumPages,     \* pages of one window of bars
  Publications, \* rows the vendors may publish, each on its day
  Thin,         \* windows whose bars, all recorded, do not do for a replay
  MaxDay,       \* bound: days that pass
  MaxRuns       \* bound: runs of backfill

\* A page of a window, or the document, which belongs to none.
Keys == [window : 1..MaxDay, item : 1..NumPages] \cup [window : {0}, item : {0}]
TheDocument == [window |-> 0, item |-> 0]
Inodes == 1..(Cardinality(Recorders) + 1)

Torn == 0
NoFile == 0

ASSUME RecordedAssumption ==
  /\ IsFiniteSet(Recorders)
  /\ {NumPages, MaxRuns} \subseteq Nat /\ MaxDay \in Nat \ {0}
  /\ Thin \subseteq 1..MaxDay
  /\ \A p \in Publications : p.period \in Nat /\ p.missing \in BOOLEAN

VARIABLES
  day,        \* today, and the version of what the vendors answer
  rows,       \* rows published so far
  site,       \* for each day, the value of each period the vendors showed
  temporary,  \* the inode at <key>.json.tmp
  file,       \* the inode at <key>.json
  content,    \* what each inode of a key holds
  manifest,   \* manifest.json: the window, NoFile, or torn (window Torn)
  recorder,   \* the program of each recorder
  runs,       \* runs of backfill so far
  raced       \* history: keys two recorders asked for at once

vars == <<day, rows, site, temporary, file, content, manifest, recorder, runs, raced>>
files == <<temporary, file, content>>
world == <<day, rows, site>>

Idle == [pc |-> "idle", window |-> 0, todo |-> <<>>, answer |-> 0, inode |-> 0]
-----------------------------------------------------------------------------
(* The vendors.                                                            *)

\* What the vendor's page for a series shows of each period.
Shown(published, series, d) ==
  LET Of(p) == {r \in published : r.series = series /\ r.period = p /\ r.stamp <= d}
      Latest(p) == CHOOSE r \in Of(p) : \A q \in Of(p) : q.stamp <= r.stamp
  IN {<<p, Latest(p).value>> : p \in {q \in 0..d : Of(q) # {}}}

SeriesNames == Filed \cup {p.series : p \in Publications}

\* A day begins, and one row, a release or a revision, is published or none.
\* A figure once released is revised, never withdrawn.
Tick ==
  /\ day < MaxDay
  /\ day' = day + 1
  /\ \/ UNCHANGED rows
     \/ \E p \in Publications :
          /\ p.stamp = day + 1 /\ p.period <= day + 1
          /\ p.series \in Daily => p.period + PublicationLag = day + 1
          /\ p.missing => \A r \in rows : r.series # p.series \/ r.period # p.period
          /\ rows' = rows \cup
               {[series |-> p.series, period |-> p.period, stamp |-> day + 1,
                 value |-> IF p.missing THEN Missing ELSE 10 * p.period + day + 1]}
  /\ site' = Append(site, [s \in SeriesNames |-> Shown(rows', s, day + 1)])
  /\ UNCHANGED <<files, manifest, recorder, runs, raced>>

\* The rows of a document the vendor answered with on day d.
Document(d) == {r \in rows : r.stamp <= d}
-----------------------------------------------------------------------------
(* ResponseCache and CachingFetcher.                                       *)

Intact(k) == file[k] # NoFile /\ content[k][file[k]] # Torn

\* The answer a cached request gets; 0 for none.
Cached(k) == IF Intact(k) THEN content[k][file[k]] ELSE Torn

Becomes(p, program) == recorder' = [recorder EXCEPT ![p] = program]
Key(p) == Head(recorder[p].todo)

Recording(k) ==
  {p \in Recorders : /\ recorder[p].pc \in {"open", "write", "replace"}
                     /\ Key(p) = k}

\* What follows a key that is recorded, or the last page: the manifest.
Advanced(program) ==
  LET key == Head(program.todo) rest == Tail(program.todo) IN
  [program EXCEPT !.todo = rest,
     !.pc = IF key.window > 0 /\ (rest = <<>> \/ Head(rest).window = 0) THEN "manifest"
            ELSE IF rest = <<>> THEN "idle" ELSE "get"]

\* Mutant: a page that fails is passed over.
FailedPage(program) ==
  LET rest == Tail(program.todo)
  IN [program EXCEPT !.todo = rest,
        !.pc = IF rest = <<>> THEN "idle"
               ELSE IF Head(program.todo).window > 0 /\ Head(rest).window = 0
               THEN "manifest" ELSE "get"]

\* A failure ends the prices, or one document; backfill goes on.
Failed(program) ==
  LET rest == IF Head(program.todo).window = 0 THEN Tail(program.todo) ELSE <<TheDocument>>
  IN [program EXCEPT !.todo = rest, !.pc = IF rest = <<>> THEN "idle" ELSE "get"]

\* Mutant: the request is always made.
GetAnew(p) ==
  /\ recorder[p].pc = "get"
  /\ \/ Becomes(p, [recorder[p] EXCEPT !.pc = "open", !.answer = day])
     \/ Becomes(p, Failed(recorder[p]))
  /\ raced' = IF Recording(Key(p)) = {} THEN raced ELSE raced \cup {Key(p)}
  /\ UNCHANGED <<world, files, manifest, runs>>

\* get_json: a hit, an entry that does not parse, or a request to the vendor.
Get(p) ==
  /\ recorder[p].pc = "get"
  /\ IF file[Key(p)] # NoFile
     THEN /\ Becomes(p, IF Intact(Key(p)) THEN Advanced(recorder[p]) ELSE Failed(recorder[p]))
          /\ UNCHANGED raced
     ELSE /\ \/ Becomes(p, [recorder[p] EXCEPT !.pc = "open", !.answer = day])
             \/ Becomes(p, Failed(recorder[p]))
          /\ raced' = IF Recording(Key(p)) = {} THEN raced ELSE raced \cup {Key(p)}
  /\ UNCHANGED <<world, files, manifest, runs>>

Fresh(k) == CHOOSE i \in Inodes \ ({file[k], temporary[k]} \cup
                                    {recorder[q].inode : q \in Recording(k)}) : TRUE

\* put: write_text truncates the temporary file, whoever left it there.
Open(p) ==
  /\ recorder[p].pc = "open"
  /\ LET k == Key(p)
         inode == IF temporary[k] = NoFile THEN Fresh(k) ELSE temporary[k]
     IN /\ temporary' = [temporary EXCEPT ![k] = inode]
        /\ content' = [content EXCEPT ![k][inode] = Torn]
        /\ Becomes(p, [recorder[p] EXCEPT !.pc = "write", !.inode = inode])
  /\ UNCHANGED <<world, file, manifest, runs, raced>>

\* A different answer another recorder wrote may stick out behind this one.
Write(p) ==
  /\ recorder[p].pc = "write"
  /\ LET k == Key(p) held == content[k][recorder[p].inode] IN
     \E d \in {recorder[p].answer} \cup
               (IF held \in {Torn, recorder[p].answer} THEN {} ELSE {Torn}) :
        content' = [content EXCEPT ![k][recorder[p].inode] = d]
  /\ Becomes(p, [recorder[p] EXCEPT !.pc = "replace"])
  /\ UNCHANGED <<world, temporary, file, manifest, runs, raced>>

\* replace renames what now has the temporary name; nothing may have it.
Replace(p) ==
  /\ recorder[p].pc = "replace"
  /\ LET k == Key(p) IN
     IF temporary[k] = NoFile
     THEN Becomes(p, [Failed(recorder[p]) EXCEPT !.inode = 0]) /\ UNCHANGED files
     ELSE /\ file' = [file EXCEPT ![k] = temporary[k]]
          /\ temporary' = [temporary EXCEPT ![k] = NoFile]
          /\ Becomes(p, [Advanced(recorder[p]) EXCEPT !.inode = 0])
          /\ UNCHANGED content
  /\ UNCHANGED <<world, manifest, runs, raced>>
-----------------------------------------------------------------------------
(* backfill.                                                               *)

Requests(window) ==
  [i \in 1..NumPages |-> [window |-> window, item |-> i]]
    \o <<TheDocument>>

Begin(p) ==
  /\ recorder[p].pc = "idle"
  /\ runs < MaxRuns
  /\ runs' = runs + 1
  /\ Becomes(p, [Idle EXCEPT !.pc = "get", !.window = day, !.todo = Requests(day)])
  /\ UNCHANGED <<world, files, manifest, raced>>

\* write_manifest, in place: truncated, then written.
ManifestOpen(p) ==
  /\ recorder[p].pc = "manifest"
  /\ manifest' = [exists |-> TRUE, window |-> Torn]
  /\ Becomes(p, [recorder[p] EXCEPT !.pc = "manifest_write"])
  /\ UNCHANGED <<world, files, runs, raced>>

ManifestWrite(p) ==
  /\ recorder[p].pc = "manifest_write"
  /\ manifest' = [exists |-> TRUE, window |-> recorder[p].window]
  /\ Becomes(p, [recorder[p] EXCEPT !.pc = "get"])
  /\ UNCHANGED <<world, files, runs, raced>>

\* The process dies; what it wrote stays.
Die(p) ==
  /\ recorder[p].pc # "idle"
  /\ Becomes(p, Idle)
  /\ UNCHANGED <<world, files, manifest, runs, raced>>
-----------------------------------------------------------------------------
(* live.py: what a replay, always offline, makes of the recording.         *)

Readable == manifest.exists /\ manifest.window # Torn

Pages(window) == [window : {window}, item : 1..NumPages]

\* Pages that are missing or torn raise; a window without events, or with fewer
\* than minimum_symbols that have a beta, is as little use.
resolve_setup ==
  IF /\ Readable
     /\ \A k \in Pages(manifest.window) : Intact(k)
     /\ manifest.window \notin Thin
  THEN "real" ELSE "synthetic"

\* The rows an offline client is given, and the day they were recorded.
RecordedOn == Cached(TheDocument)
Replayed(s) == {r \in Document(RecordedOn) : r.series = s}
-----------------------------------------------------------------------------
Init ==
  /\ day = 1
  /\ rows = {}
  /\ site = <<[s \in SeriesNames |-> {}]>>
  /\ temporary = [k \in Keys |-> NoFile]
  /\ file = [k \in Keys |-> NoFile]
  /\ content = [k \in Keys |-> [i \in Inodes |-> Torn]]
  /\ manifest = [exists |-> FALSE, window |-> Torn]
  /\ recorder = [p \in Recorders |-> Idle]
  /\ runs = 0
  /\ raced = {}

Next ==
  \/ Tick
  \/ \E p \in Recorders :
       \/ Begin(p) \/ Get(p) \/ Open(p) \/ Write(p) \/ Replace(p)
       \/ ManifestOpen(p) \/ ManifestWrite(p) \/ Die(p)

Spec == Init /\ [][Next]_vars
-----------------------------------------------------------------------------
(* Properties.                                                             *)

\* The last period a page shows a figure for, and the figure; <<>> for none.
Newest(shown) ==
  LET figures == {f \in shown : f[2] # Missing} IN
  IF figures = {} THEN <<>>
  ELSE CHOOSE f \in figures : \A g \in figures : g[1] <= f[1]

Answer(vintage) == IF vintage = None THEN <<>> ELSE <<vintage.period, vintage.value>>

\* A decision on day t that reads the recording sees of each macro series what
\* the vendor's page showed on day t, before any later release or revision; of
\* a filing, what it showed a publication lag before.
ReplayMatchesLive ==
  \A t \in 1..RecordedOn :
    /\ \A s \in SeriesNames \ Filed :
         Answer(as_of(parse_observations(Replayed(s)), t)) = Newest(site[t][s])
    /\ LET Known(i) == IF t <= PublicationLag THEN <<>>
                       ELSE Newest(site[t - PublicationLag][ConceptTags[i]])
           known == {i \in DOMAIN ConceptTags : Known(i) # <<>>}
       IN Answer(get_fundamentals(Document(RecordedOn), t)) =
            IF known = {} THEN <<>>
            ELSE Known(CHOOSE i \in known : \A j \in known : i <= j)

Figures(t, s) == {f \in site[t][s] : f[2] # Missing}

\* year_over_year_change divides two figures as they stood on the day of the
\* decision, whatever was revised since, and they are a year apart and as many
\* periods more as have no figure between them: fred.py:216 counts positions.
YearOverYearCountsPositions ==
  \A t \in 1..RecordedOn, year \in {1, 2}, s \in SeriesNames \ Filed :
    LET series == parse_observations(Replayed(s))
        pair == year_over_year(series, t, year)
        shown == Figures(t, s)
    IN pair # <<>> =>
         LET unpublished == {p \in pair[2].period..pair[1].period :
                               \A f \in shown : f[1] # p}
         IN /\ {Answer(pair[1]), Answer(pair[2])} \subseteq shown
            /\ \A i \in 1..2 : pair[i] = latest_for_period(series, pair[i].period, t)
            /\ pair[1].period - pair[2].period = year + Cardinality(unpublished)

\* A manifest is only there to be read when a replay can follow it: whatever
\* died, was refused or was repeated, each of its pages is recorded whole,
\* unless two recorders raced for one (cache.py:195 shares the name), and the
\* replay is of market data unless there is too little of it in the window.
ManifestIsReplayable ==
  (Readable /\ Pages(manifest.window) \cap raced = {})
     => resolve_setup = IF manifest.window \in Thin THEN "synthetic" ELSE "real"

\* What was recorded is never replaced, nor torn, by a later run.
RecordingIsStable ==
  [][\A k \in Keys : (Intact(k) /\ k \notin raced) => Cached(k)' = Cached(k)]_vars
=============================================================================
