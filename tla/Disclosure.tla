----------------------------- MODULE Disclosure -----------------------------
(***************************************************************************)
(* Formal disclosures: the background job of engine/src/disclosure_sync.rs *)
(* reads the statutory index of CNInfo column by column and page by page,  *)
(* archives the document behind every row (source-verification), and       *)
(* ingests the row (disclosure/src/lib.rs); then it ingests what a mirror  *)
(* lists, for discovery only.  One job runs at a time (BackgroundJobs has  *)
(* how it starts and ends); a user may stop it at any time, any request,   *)
(* write or document may fail, and the process may be killed between any   *)
(* two steps.                                                              *)
(*                                                                         *)
(* A disclosure is its `notice`: the title without the words that mark a   *)
(* revision, what they say of its kind, the day and the security codes,    *)
(* from which the code makes its identity.  Of a document's versions there *)
(* is one: an archived document is its url.  `listing` is what the indexes *)
(* answer during a job, in their order; it may be another in the next job. *)
(*                                                                         *)
(* The health of the providers (which nothing here reads), attachments,    *)
(* structured events, categories, texts, logs and the clock's going back   *)
(* are left out.                                                           *)
(***************************************************************************)
EXTENDS Naturals, Sequences, FiniteSets

CONSTANTS Listings,      \* [official: columns of pages of entries, mirror: entries]
          MaxPages,      \* max_pages of the request
          MaxSyncs,      \* bound: jobs
          MaxTroubles    \* bound: failing requests, documents and writes, kills

EntriesOf(l) ==
  UNION {UNION {{l.official[c][p][r] : r \in DOMAIN l.official[c][p]} :
                  p \in DOMAIN l.official[c]} : c \in DOMAIN l.official}
OfficialEntries == UNION {EntriesOf(l) : l \in Listings}
Entries == OfficialEntries \cup UNION {{l.mirror[r] : r \in DOMAIN l.mirror} : l \in Listings}
Notices == {e.notice : e \in Entries}
Urls == {e.url : e \in Entries}
Providers == {"cninfo", "eastmoney_notice_mirror"}

\* An answered page has rows: the job takes a page without any for the last.
ASSUME DisclosureAssumption ==
  /\ MaxPages \in Nat \ {0} /\ MaxSyncs \in Nat /\ MaxTroubles \in Nat
  /\ \A l \in Listings :
       /\ l.official \in Seq(Seq(Seq(OfficialEntries))) /\ l.official # <<>>
       /\ \A c \in DOMAIN l.official : \A p \in DOMAIN l.official[c] : l.official[c][p] # <<>>
       /\ l.mirror \in Seq(Entries)
  /\ \A n \in Notices : n.kind \in {"active", "revised", "cancelled"} /\ n.day \in Nat

VARIABLES listing,
          disclosures,  \* disclosures: a row for every notice that was ingested
          entrances,    \* disclosure_sources: <<provider, url>> -> the notice
          archived,     \* research_source_versions
          sync,         \* the job: where it is, and its snapshot
          stopped,      \* its token is cancelled
          syncs, troubles

disclosureVars == <<listing, disclosures, entrances, archived, sync, stopped, syncs, troubles>>

NotRunning(status) ==
  [pc |-> "idle", column |-> 1, page |-> 1, row |-> 1, version |-> {}, gaps |-> FALSE,
   status |-> status]

DisclosureInit ==
  /\ listing \in Listings
  /\ disclosures = [n \in {} |-> {}] /\ entrances = [s \in {} |-> {}] /\ archived = {}
  /\ sync = NotRunning("never") /\ stopped = FALSE
  /\ syncs = 0 /\ troubles = 0

-----------------------------------------------------------------------------
\* ingest.

\* find_prior_revision: a disclosure of the same title and of one of the
\* securities that was seen last (any of those of the same second).
SameTitle(n) ==
  {d \in DOMAIN disclosures \ {n} :
     d.title = n.title /\ (n.codes = {} \/ n.codes \cap d.codes # {})}
SeenLast(S) == {d \in S : \A e \in S : disclosures[e].seen <= disclosures[d].seen}
Priors(n) ==
  IF n.kind = "active" \/ SameTitle(n) = {} THEN {{}} ELSE {{d} : d \in SeenLast(SameTitle(n))}

\* The second the row is made in: that of the last one, or a later one.
Moments ==
  LET seen == {disclosures[d].seen : d \in DOMAIN disclosures}
  IN  {t \in {0} \cup seen \cup {s + 1 : s \in seen} : \A s \in seen : s <= t}

\* Mutant: the version is overwritten, by none too.
Overwritten(new, old) == new
\* source_version_id = COALESCE(excluded.source_version_id, source_version_id)
KeptVersion(new, old) == IF new = {} THEN old ELSE new

\* Mutant: ingested again, the link is looked up again.
Relinked(new, old) == IF new = {} THEN old ELSE new
\* revision_of is not among the columns an existing row is updated in.
KeptLink(new, old) == old

Upserted(n, prior, version, now) ==
  [d \in DOMAIN disclosures \cup {n} |->
     IF d \in DOMAIN disclosures
     THEN [seen        |-> disclosures[d].seen,
           revises     |-> IF d = n THEN KeptLink(prior, disclosures[d].revises)
                           ELSE disclosures[d].revises,
           cancelledBy |-> disclosures[d].cancelledBy,
           version     |-> IF d = n THEN KeptVersion(version, disclosures[d].version)
                           ELSE disclosures[d].version]
     ELSE [seen |-> now, revises |-> prior, cancelledBy |-> {}, version |-> version]]

\* A cancellation marks the disclosure it finds, whenever it is ingested.
Marked(rows, n, prior) ==
  [d \in DOMAIN rows |->
     IF n.kind = "cancelled" /\ d \in prior THEN [rows[d] EXCEPT !.cancelledBy = {n}] ELSE rows[d]]

\* INSERT OR IGNORE: an entrance belongs to the disclosure it was first found for.
WithEntrance(s, n) ==
  [t \in DOMAIN entrances \cup {s} |-> IF t \in DOMAIN entrances THEN entrances[t] ELSE n]

\* One transaction.
IngestEntry(e, provider, version) ==
  /\ \E prior \in Priors(e.notice), now \in Moments :
       disclosures' = Marked(Upserted(e.notice, prior, version, now), e.notice, prior)
  /\ entrances' = WithEntrance(<<provider, e.url>>, e.notice)

\* Mutant: every entrance counts.
AnyEntrance(provider) == TRUE
\* ProviderAuthority::is_primary
Primary(provider) == provider = "cninfo"

\* primary_verified of hydrate_item.
PrimaryVerified(n) ==
  /\ disclosures[n].version # {}
  /\ \E s \in DOMAIN entrances : entrances[s] = n /\ Primary(s[1])

-----------------------------------------------------------------------------
\* The job.

Trouble == troubles < MaxTroubles /\ troubles' = troubles + 1
Doing(pc) == sync.pc = pc
Column == listing.official[sync.column]
OfficialRow == Column[sync.page][sync.row]
Pages == IF Len(Column) <= MaxPages THEN Len(Column) ELSE MaxPages
WithGap(s) == [s EXCEPT !.gaps = TRUE]

NextColumn(s) ==
  IF s.column < Len(listing.official)
  THEN [s EXCEPT !.pc = "index", !.column = @ + 1, !.page = 1, !.row = 1]
  ELSE [s EXCEPT !.pc = "mirror", !.row = 1]

\* The next row, or the next page of the column up to max_pages, or a column.
AfterRow(s) ==
  IF s.row < Len(Column[s.page]) THEN [s EXCEPT !.pc = "row", !.row = @ + 1]
  ELSE IF s.page < Pages THEN [s EXCEPT !.pc = "index", !.page = @ + 1, !.row = 1]
  ELSE NextColumn(s)

\* start: the catalogue of providers is seeded first, and a failure ends the job.
StartSync ==
  /\ Doing("idle") /\ syncs < MaxSyncs /\ syncs' = syncs + 1
  /\ listing' \in Listings /\ stopped' = FALSE
  /\ \/ sync' = [NotRunning("running") EXCEPT !.pc = "index"] /\ UNCHANGED troubles
     \/ sync' = NotRunning("failed") /\ Trouble
  /\ UNCHANGED <<disclosures, entrances, archived>>

\* cancel.
StopSync ==
  /\ ~Doing("idle") /\ ~stopped /\ stopped' = TRUE
  /\ UNCHANGED <<listing, disclosures, entrances, archived, sync, syncs, troubles>>

\* A page of the index; without rows, or when it fails, the column is left.
ReadIndex ==
  /\ Doing("index") /\ ~stopped
  /\ \/ /\ sync' = IF sync.page <= Len(Column) THEN [sync EXCEPT !.pc = "row"] ELSE NextColumn(sync)
        /\ UNCHANGED troubles
     \/ sync' = WithGap(NextColumn(sync)) /\ Trouble
  /\ UNCHANGED <<listing, disclosures, entrances, archived, stopped, syncs>>

\* fetch_source_document: archived, or there is no text to verify, or an error.
FetchOriginal ==
  /\ Doing("row") /\ ~stopped
  /\ \/ /\ archived' = archived \cup {OfficialRow.url}
        /\ sync' = [sync EXCEPT !.pc = "ingest", !.version = {OfficialRow.url}]
        /\ UNCHANGED troubles
     \/ sync' = [sync EXCEPT !.pc = "ingest", !.version = {}] /\ Trouble /\ UNCHANGED archived
  /\ UNCHANGED <<listing, disclosures, entrances, stopped, syncs>>

\* Mutant: what waits for a review does not count.
Uncounted(s) == s
\* record_ingest: a row without a version needs a review.
Reviewed(s) == IF s.version = {} THEN WithGap(s) ELSE s

\* The token is not looked at between the fetch and the write.
IngestOfficial ==
  /\ Doing("ingest")
  /\ \/ /\ IngestEntry(OfficialRow, "cninfo", sync.version)
        /\ sync' = AfterRow(Reviewed(sync)) /\ UNCHANGED troubles
     \/ sync' = AfterRow(WithGap(sync)) /\ Trouble /\ UNCHANGED <<disclosures, entrances>>
  /\ UNCHANGED <<listing, archived, stopped, syncs>>

ReadMirror ==
  /\ Doing("mirror") /\ ~stopped
  /\ \/ /\ sync' = [sync EXCEPT !.pc = IF listing.mirror = <<>> THEN "end" ELSE "mirrorRow",
                                !.version = {}]
        /\ UNCHANGED troubles
     \/ sync' = [WithGap(sync) EXCEPT !.pc = "end"] /\ Trouble
  /\ UNCHANGED <<listing, disclosures, entrances, archived, stopped, syncs>>

\* A row of the mirror has no version, so it always needs a review.
IngestMirror ==
  /\ Doing("mirrorRow") /\ ~stopped
  /\ sync' = LET s == Reviewed(sync) IN
       IF sync.row < Len(listing.mirror) THEN [s EXCEPT !.row = @ + 1] ELSE [s EXCEPT !.pc = "end"]
  /\ \/ /\ IngestEntry(listing.mirror[sync.row], "eastmoney_notice_mirror", {})
        /\ UNCHANGED troubles
     \/ Trouble /\ UNCHANGED <<disclosures, entrances>>
  /\ UNCHANGED <<listing, archived, stopped, syncs>>

Finish ==
  /\ Doing("end") /\ ~stopped
  /\ sync' = NotRunning(IF sync.gaps THEN "completed_with_gaps" ELSE "completed")
  /\ UNCHANGED <<listing, disclosures, entrances, archived, stopped, syncs, troubles>>

\* The token is looked at before every request and row, and at the end.
FinishCancelled ==
  /\ stopped /\ sync.pc \in {"index", "row", "mirror", "mirrorRow", "end"}
  /\ sync' = NotRunning("cancelled")
  /\ UNCHANGED <<listing, disclosures, entrances, archived, stopped, syncs, troubles>>

\* The process ends, and with it the job and its snapshot.
KillSync ==
  /\ ~Doing("idle") /\ sync' = NotRunning("never") /\ stopped' = FALSE /\ Trouble
  /\ UNCHANGED <<listing, disclosures, entrances, archived, syncs>>

DisclosureNext ==
  \/ StartSync \/ StopSync \/ ReadIndex \/ FetchOriginal \/ IngestOfficial
  \/ ReadMirror \/ IngestMirror \/ Finish \/ FinishCancelled \/ KillSync

DisclosureSpec == DisclosureInit /\ [][DisclosureNext]_disclosureVars

-----------------------------------------------------------------------------
\* Where the job may be, and what it shows.
Places ==
  [pc : {"idle", "index", "row", "ingest", "mirror", "mirrorRow", "end"},
   column : DOMAIN listing.official, page : Nat \ {0}, row : Nat \ {0},
   version : SUBSET archived, gaps : BOOLEAN,
   status : {"never", "running", "failed", "cancelled", "completed", "completed_with_gaps"}]

\* Links lead to other stored disclosures, versions to archived documents.
RowsOK ==
  /\ archived \subseteq Urls /\ DOMAIN disclosures \subseteq Notices
  /\ disclosures \in [DOMAIN disclosures ->
       [seen : Nat, revises : SUBSET DOMAIN disclosures, cancelledBy : SUBSET DOMAIN disclosures,
        version : SUBSET archived]]
  /\ \A d \in DOMAIN disclosures : d \notin disclosures[d].revises \cup disclosures[d].cancelledBy
  /\ DOMAIN entrances \subseteq Providers \X Urls
  /\ entrances \in [DOMAIN entrances -> DOMAIN disclosures]

PlaceOK ==
  /\ listing \in Listings /\ sync \in Places
  /\ Doing("index") => sync.row = 1 /\ sync.page <= MaxPages
  /\ Doing("mirror") => sync.row = 1
  /\ sync.pc \in {"row", "ingest"} =>
       sync.page \in 1..Pages /\ sync.row \in DOMAIN Column[sync.page]
  /\ Doing("mirrorRow") => sync.row \in DOMAIN listing.mirror
  /\ stopped \in BOOLEAN

\* The rows of the store (disclosure/src/lib.rs) and the place of the job
\* (disclosure_sync.rs) are well-formed.
DisclosureTypeOK ==
  RowsOK /\ PlaceOK /\ syncs \in 0..MaxSyncs /\ troubles \in 0..MaxTroubles

\* Only an entry of the statutory index makes a disclosure verified, and by the
\* document of such an entry of its own (docs/formal-disclosure-pipeline.md: the
\* mirror is for discovery and never promoted), however entrances are shared.
VerifiedIsOriginal ==
  \A d \in DOMAIN disclosures : PrimaryVerified(d) =>
    /\ \E u \in Urls : <<"cninfo", u>> \in DOMAIN entrances /\ entrances[<<"cninfo", u>>] = d
    /\ \E e \in OfficialEntries : e.notice = d /\ disclosures[d].version = {e.url}

\* A job that says "completed" (not "with gaps") met nothing unverified: every
\* row of the index up to max_pages is a verified disclosure, unless its url was
\* recorded for another one before, and the mirror listed nothing.
CompletedIsVerified ==
  sync.status = "completed" =>
    /\ listing.mirror = <<>>
    /\ \A c \in DOMAIN listing.official : \A p \in DOMAIN listing.official[c] :
         p <= MaxPages => \A r \in DOMAIN listing.official[c][p] :
           LET e == listing.official[c][p][r] IN
             /\ e.notice \in DOMAIN disclosures /\ <<"cninfo", e.url>> \in DOMAIN entrances
             /\ entrances[<<"cninfo", e.url>>] = e.notice => PrimaryVerified(e.notice)

\* A reader that follows revision_of from a disclosure comes to an end: among
\* any disclosures one revises none of them.
ChainsEnd ==
  \A S \in SUBSET DOMAIN disclosures :
    S # {} => \E d \in S : disclosures[d].revises \cap S = {}

\* What the store says of disclosures can be relied on, in whatever order pages
\* and mirror rows came, and whatever failed in between.
DisclosuresAreSound == VerifiedIsOriginal /\ CompletedIsVerified /\ ChainsEnd

\* Nothing a later row, job, failure or kill does takes back what was stored: a
\* verified disclosure stays verified, a link stays, a cancelled one stays
\* cancelled, an entrance stays with its disclosure (ON CONFLICT, OR IGNORE).
NothingTakenBack ==
  [][/\ \A d \in DOMAIN disclosures :
          /\ d \in DOMAIN disclosures'
          /\ PrimaryVerified(d) => PrimaryVerified(d)'
          /\ disclosures[d].revises # {} => disclosures'[d].revises = disclosures[d].revises
          /\ disclosures[d].cancelledBy # {} => disclosures'[d].cancelledBy # {}
     /\ \A s \in DOMAIN entrances : s \in DOMAIN entrances' /\ entrances'[s] = entrances[s]
    ]_disclosureVars

\* docs/formal-disclosure-pipeline.md:33 says that titles of corrections and
\* cancellations establish a relation between versions: a stored one that was
\* published after a stored disclosure of its title is linked.
RevisionsAreLinked ==
  \A d \in DOMAIN disclosures :
    d.kind # "active" /\ (\E e \in SameTitle(d) : e.day < d.day) => disclosures[d].revises # {}
=============================================================================
