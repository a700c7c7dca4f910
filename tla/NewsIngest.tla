----------------------------- MODULE NewsIngest -----------------------------
(***************************************************************************)
(* market-data/src/providers/news_ingest.rs over storage/src/              *)
(* news_archive.rs: requests read a news source from a stored position on, *)
(* archive what they get as revisions of documents, and store the new      *)
(* position.  finance_news.rs keeps two ingestors, of which one archives   *)
(* and the other only looks; they share what is stored.                    *)
(*                                                                         *)
(* One source is modelled, whose items are `feed`, from the oldest on: a   *)
(* cursor is a position in it, a page some positions.  The same document   *)
(* may be in it again with another content.  Which items a page has is up  *)
(* to the source: it may be older than another one (a cache), and is cut   *)
(* off at the limit of the request.  Requests may be dropped at any await, *)
(* and the process killed.  The time a page is archived under is read when *)
(* it arrives.                                                             *)
(*                                                                         *)
(* Rates, counters of health, how long a source is left alone, clustering, *)
(* linking, the merge of several sources and accept_push (which nothing in *)
(* src/ calls) are left out.                                               *)
(***************************************************************************)
EXTENDS Naturals, Sequences, FiniteSets

CONSTANTS Feeds,         \* sequences of <<document, content>>
          Fetches,       \* requests at a time, by number
          NewsPermits,   \* MAX_CONCURRENT_PROVIDERS, of each ingestor
          MaxRetries,    \* MAX_RETRIES
          NewsThreshold, \* FAILURE_THRESHOLD
          Bounds         \* bounds, of which a behaviour has one: requests altogether,
                         \* troubles (failing store calls, kills, switches by the user), seconds

ASSUME NewsAssumption ==
  /\ Fetches \subseteq Nat /\ IsFiniteSet(Fetches)
  /\ {NewsPermits, MaxRetries} \subseteq Nat /\ NewsThreshold \in Nat \ {0}
  /\ Bounds \subseteq [begun : Nat, trouble : Nat, seconds : Nat]
  /\ \A items \in Feeds :
       /\ items \in Seq({items[p] : p \in DOMAIN items})
       /\ \A p \in DOMAIN items : items[p] = <<items[p][1], items[p][2]>>

VARIABLES newsClock,
          feed,
          style,      \* how the source answers: "newest" first, or "rows" from the cursor on
          runtime,    \* ProviderRuntime of each ingestor: enabled, failures, circuit
          lastGood,   \* last_good of each ingestor
          setting,    \* the stored cursor, snapshot and disabled flag
          revision,   \* document_revisions: <<document, content>> -> row
          current,    \* source_documents: the content of current_revision_id
          fetch,      \* the requests
          switch,     \* the user's request to enable or disable the source
          off,        \* the user was told that the source is disabled
          replay,     \* an answer of news_archive_as_of
          lost,       \* positions whose archive write failed
          skipped,    \* positions the source left out of what it says was read
          left        \* what is left of the bounds

newsVars == <<newsClock, feed, style, runtime, lastGood, setting, revision, current, fetch, switch,
              off, replay, lost, skipped, left>>

Ingestors == {"archive", "research"}
NoPage == [answered |-> FALSE, items |-> <<>>, next |-> 0]
NeverAsked == [enabled |-> TRUE, failures |-> 0, circuit |-> "closed"]
NoFetch == [pc |-> "idle", by |-> "archive", tries |-> 0, page |-> NoPage, at |-> 0,
            observed |-> 0, read |-> "unset", told |-> FALSE]
NoSwitch == [pc |-> "idle", enabled |-> TRUE]
NoReplay == [at |-> 0, shown |-> {}]

NewsInit ==
  /\ feed \in Feeds /\ style \in {"newest", "rows"} /\ newsClock = 1
  /\ runtime = [i \in Ingestors |-> NeverAsked]
  /\ lastGood = [i \in Ingestors |-> NoPage]
  /\ setting = [cursor |-> 0, snapshot |-> NoPage, disabled |-> "unset"]
  /\ revision = [r \in {} |-> 0] /\ current = [d \in {} |-> 0]
  /\ fetch = [f \in Fetches |-> NoFetch]
  /\ switch = NoSwitch /\ off = FALSE
  /\ replay = NoReplay /\ lost = {} /\ skipped = {}
  /\ left \in Bounds

Doing(f, pc) == fetch[f].pc = pc
Passes(f, pc) == fetch' = [fetch EXCEPT ![f].pc = pc]
Returns(f) == fetch' = [fetch EXCEPT ![f] = NoFetch]
Spends(what) == left[what] > 0 /\ left' = [left EXCEPT ![what] = @ - 1]
StoreFails == Spends("trouble")
Extended(table, key, entry) ==
  [k \in DOMAIN table \cup {key} |-> IF k = key THEN entry ELSE table[k]]

-----------------------------------------------------------------------------
\* ingest: a request begins.  It is remembered whether the user had been told
\* that the source is disabled, and no request could still apply an older
\* setting.
BeginFetch(f, i) ==
  /\ Doing(f, "idle") /\ \A g \in Fetches : g < f => ~Doing(g, "idle")
  /\ Spends("begun")
  /\ fetch' = [fetch EXCEPT ![f] =
       [NoFetch EXCEPT !.pc = "setting", !.by = i,
          !.told = off /\ \A g \in Fetches : fetch[g].pc \notin {"setting", "apply"}]]
  /\ UNCHANGED <<newsClock, feed, style, runtime, lastGood, setting, revision, current, switch,
                 off, replay, lost, skipped>>

\* sync_disabled: the setting is read, then applied; a read that fails is not.
ReadSetting(f) ==
  /\ Doing(f, "setting")
  /\ \/ /\ fetch' = [fetch EXCEPT ![f].pc = "apply", ![f].read = setting.disabled]
        /\ UNCHANGED left
     \/ /\ StoreFails
        /\ fetch' = [fetch EXCEPT ![f].pc = "check", ![f].told = FALSE]
  /\ UNCHANGED <<newsClock, feed, style, runtime, lastGood, setting, revision, current, switch,
                 off, replay, lost, skipped>>

ApplySetting(f) ==
  /\ Doing(f, "apply")
  /\ fetch' = [fetch EXCEPT ![f].pc = "check", ![f].read = "unset"]
  /\ runtime' = IF fetch[f].read = "unset" THEN runtime
                ELSE [runtime EXCEPT ![fetch[f].by].enabled = (fetch[f].read = "false")]
  /\ UNCHANGED <<newsClock, feed, style, lastGood, setting, revision, current, switch, off,
                 replay, lost, skipped, left>>

\* A disabled source is not asked, nor one within its cooldown.
Check(f) ==
  /\ Doing(f, "check")
  /\ LET r == runtime[fetch[f].by] IN
       IF ~r.enabled THEN Returns(f)
       ELSE Passes(f, IF r.circuit = "open" THEN "blocked" ELSE "cursor")
  /\ UNCHANGED <<newsClock, feed, style, runtime, lastGood, setting, revision, current, switch,
                 off, replay, lost, skipped, left>>

StartsAt(f, at) == fetch' = [fetch EXCEPT ![f].pc = "permit", ![f].at = at]

\* load_cursor, where a failing read is no cursor, and wait_rate_limit behind it.
LoadCursor(f) ==
  /\ Doing(f, "cursor")
  /\ \/ StartsAt(f, setting.cursor) /\ UNCHANGED left
     \/ StoreFails /\ StartsAt(f, 0)
  /\ UNCHANGED <<newsClock, feed, style, runtime, lastGood, setting, revision, current, switch,
                 off, replay, lost, skipped>>

Holding(i) == {f \in Fetches : fetch[f].by = i /\ fetch[f].pc \in {"ask", "archive", "advance",
                                                               "snapshot", "failed", "fallback"}}

TakePermit(f) ==
  /\ Doing(f, "permit") /\ Passes(f, "ask")
  /\ Cardinality(Holding(fetch[f].by)) < NewsPermits
  /\ UNCHANGED <<newsClock, feed, style, runtime, lastGood, setting, revision, current, switch,
                 off, replay, lost, skipped, left>>

-----------------------------------------------------------------------------
\* Some of the items, of which a page leaves out what the limit cuts off, a
\* channel that failed, or a row that is not understood.
Selections == UNION {[1..n -> DOMAIN feed] : n \in 0..Len(feed)}

\* NewsNow and the announcements: whatever the cursor, the newest item first,
\* which is the next cursor.  Without a symbol there are no announcements.
NewestFirst(items) == \A m, n \in DOMAIN items : m < n => items[m] > items[n]
NewestPages ==
  {[answered |-> TRUE, items |-> s, next |-> IF s = <<>> THEN 0 ELSE s[1]] :
     s \in {t \in Selections : NewestFirst(t)}}

\* A configured source: rows behind the cursor, and the next one as the source
\* says, be it behind rows that were cut off, or that of the last row.
FromCursor(items, at) ==
  /\ \A n \in DOMAIN items : items[n] > at
  /\ \A m, n \in DOMAIN items : m < n => items[m] < items[n]
RowsPages(at) ==
  {[answered |-> TRUE, items |-> s[1], next |-> s[2]] :
     s \in {t \in Selections \X (0..Len(feed)) :
              FromCursor(t[1], at) /\ \A n \in DOMAIN t[1] : t[1][n] <= t[2]}}

Pages(at) == IF style = "newest" THEN NewestPages ELSE RowsPages(at)

\* What is behind the next cursor and was neither on the page nor behind the
\* cursor before.
PassedOver(at, page) ==
  {p \in (at + 1)..page.next : \A n \in DOMAIN page.items : page.items[n] # p}

\* The source answers (mark_success); research archives nothing.
SourceAnswers(f) ==
  /\ Doing(f, "ask")
  /\ \E page \in Pages(fetch[f].at) :
       IF fetch[f].by = "research"
       THEN /\ lastGood' = [lastGood EXCEPT !["research"] = page]
            /\ Returns(f) /\ UNCHANGED skipped
       ELSE /\ fetch' = [fetch EXCEPT
                 ![f].pc = IF page.items = <<>> THEN "advance" ELSE "archive",
                 ![f].page = page, ![f].at = 0, ![f].observed = newsClock, ![f].tries = 0]
            /\ skipped' = skipped \cup PassedOver(fetch[f].at, page)
            /\ UNCHANGED lastGood
  /\ runtime' = [runtime EXCEPT ![fetch[f].by].failures = 0, ![fetch[f].by].circuit = "closed"]
  /\ UNCHANGED <<newsClock, feed, style, setting, revision, current, switch, off, replay, lost,
                 left>>

\* Mutant: an attempt is repeated for ever, the count starting over.
AnyTimes(f, retryable) ==
  IF retryable THEN [fetch[f] EXCEPT !.tries = (@ + 1) % (MaxRetries + 1)]
  ELSE [fetch[f] EXCEPT !.pc = "failed", !.at = 0, !.tries = 0]
AfterAttempt(f, retryable) ==
  IF retryable /\ fetch[f].tries < MaxRetries THEN [fetch[f] EXCEPT !.tries = @ + 1]
  ELSE [fetch[f] EXCEPT !.pc = "failed", !.at = 0, !.tries = 0]

\* An attempt fails, or times out: it is repeated, or the request has failed.
SourceFails(f, retryable) ==
  /\ Doing(f, "ask") /\ fetch' = [fetch EXCEPT ![f] = AfterAttempt(f, retryable)]
  /\ UNCHANGED <<newsClock, feed, style, runtime, lastGood, setting, revision, current, switch,
                 off, replay, lost, skipped, left>>

\* mark_failure: the threshold, or a probe after the cooldown, opens the circuit.
MarkFailure(f) ==
  /\ Doing(f, "failed") /\ Passes(f, "fallback")
  /\ LET r == runtime[fetch[f].by] IN
       runtime' = [runtime EXCEPT ![fetch[f].by] =
         IF r.circuit = "due" \/ r.failures + 1 >= NewsThreshold
         THEN [r EXCEPT !.failures = 0, !.circuit = "open"]
         ELSE [r EXCEPT !.failures = @ + 1]]
  /\ UNCHANGED <<newsClock, feed, style, lastGood, setting, revision, current, switch, off,
                 replay, lost, skipped, left>>

CooldownOver(i) ==
  /\ runtime[i].circuit = "open"
  /\ runtime' = [runtime EXCEPT ![i].circuit = "due"]
  /\ UNCHANGED <<newsClock, feed, style, lastGood, setting, revision, current, fetch, switch,
                 off, replay, lost, skipped, left>>

\* fallback_or_error: the last page is served, or the stored one, if there is one.
Fallback(f) ==
  /\ fetch[f].pc \in {"blocked", "fallback"}
  /\ LET i == fetch[f].by
         page == IF lastGood[i] # NoPage THEN lastGood[i] ELSE setting.snapshot IN
       /\ lastGood' = [lastGood EXCEPT ![i] = page]
       /\ Returns(f)
  /\ UNCHANGED <<newsClock, feed, style, runtime, setting, revision, current, switch, off,
                 replay, lost, skipped, left>>

-----------------------------------------------------------------------------
\* news_archive_upsert: one transaction.  A content that is stored already, if
\* as an earlier revision, adds nothing.

FirstSeen(doc, time) ==
  IF doc \in DOMAIN current
  THEN revision[CHOOSE r \in DOMAIN revision : r[1] = doc].first
  ELSE time

\* Mutant: the document is at what was seen of it last.
AlwaysNow(item) == Extended(current, item[1], item[2])
CurrentAfter(item) ==
  IF item \in DOMAIN revision THEN current ELSE Extended(current, item[1], item[2])

\* supersedes_revision_id: the content the document is at, if it has one.
Replaced(doc) == IF doc \in DOMAIN current THEN {current[doc]} ELSE {}

RevisionRow(item, time) ==
  [first |-> FirstSeen(item[1], time), time |-> time, replaces |-> Replaced(item[1])]

\* Mutant: a revision has the time of its document.
Backdated(item, time) ==
  /\ revision' = IF item \in DOMAIN revision THEN revision
                 ELSE Extended(revision, item, RevisionRow(item, FirstSeen(item[1], time)))
  /\ current' = CurrentAfter(item)
Upsert(item, time) ==
  /\ revision' = IF item \in DOMAIN revision THEN revision
                 ELSE Extended(revision, item, RevisionRow(item, time))
  /\ current' = CurrentAfter(item)

\* Mutant: the cursor is stored before the items.
CursorFirst(f) == "advance"
AfterItem(f) == IF fetch[f].at + 1 < Len(fetch[f].page.items) THEN "archive" ELSE "advance"

\* persist_success: the items one by one, as they are on the page, whether or
\* not a write succeeds.
ArchiveItem(f) ==
  /\ Doing(f, "archive")
  /\ LET p == fetch[f].page.items[fetch[f].at + 1] IN
       \/ Upsert(feed[p], fetch[f].observed) /\ UNCHANGED <<lost, left>>
       \/ StoreFails /\ lost' = lost \cup {p} /\ UNCHANGED <<revision, current>>
  /\ fetch' = [fetch EXCEPT ![f].at = @ + 1, ![f].pc = AfterItem(f)]
  /\ UNCHANGED <<newsClock, feed, style, runtime, lastGood, setting, switch, off, replay,
                 skipped>>

\* Then the cursor, if the page has one, and the page as a snapshot; a write
\* that fails is ignored.
SaveCursor(f) ==
  /\ Doing(f, "advance")
  /\ fetch' = [fetch EXCEPT ![f].pc = "snapshot", ![f].observed = 0, ![f].at = 0]
  /\ \/ /\ setting' = IF fetch[f].page.next = 0 THEN setting
                      ELSE [setting EXCEPT !.cursor = fetch[f].page.next]
        /\ UNCHANGED left
     \/ fetch[f].page.next # 0 /\ StoreFails /\ UNCHANGED setting
  /\ UNCHANGED <<newsClock, feed, style, runtime, lastGood, revision, current, switch, off,
                 replay, lost, skipped>>

SaveSnapshot(f) ==
  /\ Doing(f, "snapshot") /\ Returns(f)
  /\ lastGood' = [lastGood EXCEPT !["archive"] = fetch[f].page]
  /\ \/ setting' = [setting EXCEPT !.snapshot = fetch[f].page] /\ UNCHANGED left
     \/ StoreFails /\ UNCHANGED setting
  /\ UNCHANGED <<newsClock, feed, style, runtime, revision, current, switch, off, replay, lost,
                 skipped>>

-----------------------------------------------------------------------------
\* set_provider_enabled: each ingestor in memory and then in the store, where a
\* failure ends it.  The user's requests come one after the other.
SwitchSource(enabled) ==
  /\ switch.pc = "idle" /\ Spends("trouble")
  /\ switch' = [pc |-> "store", enabled |-> enabled]
  /\ runtime' = [runtime EXCEPT !["archive"].enabled = enabled]
  /\ off' = (off /\ ~enabled)
  /\ fetch' = [f \in Fetches |-> [fetch[f] EXCEPT !.told = @ /\ ~enabled]]
  /\ UNCHANGED <<newsClock, feed, style, lastGood, setting, revision, current, replay, lost,
                 skipped>>

\* Mutant: the switch is kept in memory only.
Unstored(enabled) == setting
Switched(enabled) == [setting EXCEPT !.disabled = IF enabled THEN "false" ELSE "true"]

StoreSwitch ==
  /\ switch.pc \in {"store", "again"}
  /\ \/ /\ setting' = Switched(switch.enabled)
        /\ switch' = IF switch.pc = "store" THEN [switch EXCEPT !.pc = "research"] ELSE NoSwitch
        /\ off' = (off \/ (switch.pc = "again" /\ ~switch.enabled))
        /\ UNCHANGED left
     \/ StoreFails /\ switch' = NoSwitch /\ UNCHANGED <<setting, off>>
  /\ UNCHANGED <<newsClock, feed, style, runtime, lastGood, revision, current, fetch, replay,
                 lost, skipped>>

SwitchResearch ==
  /\ switch.pc = "research" /\ switch' = [switch EXCEPT !.pc = "again"]
  /\ runtime' = [runtime EXCEPT !["research"].enabled = switch.enabled]
  /\ UNCHANGED <<newsClock, feed, style, lastGood, setting, revision, current, fetch, off,
                 replay, lost, skipped, left>>

-----------------------------------------------------------------------------
\* A request is dropped, with its permit.
DropFetch(f) ==
  /\ ~Doing(f, "idle") /\ Returns(f)
  /\ UNCHANGED <<newsClock, feed, style, runtime, lastGood, setting, revision, current, switch,
                 off, replay, lost, skipped, left>>

\* The process ends, and starts with what is stored.
RestartNews ==
  /\ Spends("trouble")
  /\ runtime' = [i \in Ingestors |-> NeverAsked]
  /\ lastGood' = [i \in Ingestors |-> NoPage]
  /\ fetch' = [f \in Fetches |-> NoFetch]
  /\ switch' = NoSwitch
  /\ UNCHANGED <<newsClock, feed, style, setting, revision, current, off, replay, lost, skipped>>

\* news_archive_as_of: the revisions known at a time, of each document the latest.
KnownBy(k) == {r \in DOMAIN revision : revision[r].first <= k /\ revision[r].time <= k}
AsOf(k) ==
  {r \in KnownBy(k) : \A s \in KnownBy(k) : s[1] = r[1] => revision[s].time <= revision[r].time}

\* The time is over for every page still to be archived.
Over(k) == k < newsClock /\ \A f \in Fetches : Doing(f, "archive") => k < fetch[f].observed

ReplayAsOf(k) ==
  /\ replay = NoReplay /\ Over(k)
  /\ replay' = [at |-> k, shown |-> AsOf(k)]
  /\ UNCHANGED <<newsClock, feed, style, runtime, lastGood, setting, revision, current, fetch,
                 switch, off, lost, skipped, left>>

NewsTick ==
  /\ Spends("seconds") /\ newsClock' = newsClock + 1
  /\ UNCHANGED <<feed, style, runtime, lastGood, setting, revision, current, fetch, switch,
                 off, replay, lost, skipped>>

FetchStep(f) ==
  \/ ReadSetting(f) \/ ApplySetting(f) \/ Check(f) \/ LoadCursor(f) \/ TakePermit(f)
  \/ SourceAnswers(f) \/ \E retryable \in BOOLEAN : SourceFails(f, retryable)
  \/ MarkFailure(f) \/ Fallback(f)
  \/ ArchiveItem(f) \/ SaveCursor(f) \/ SaveSnapshot(f)

NewsNext ==
  \/ \E f \in Fetches : FetchStep(f) \/ DropFetch(f) \/ \E i \in Ingestors : BeginFetch(f, i)
  \/ \E i \in Ingestors : CooldownOver(i)
  \/ \E enabled \in BOOLEAN : SwitchSource(enabled)
  \/ StoreSwitch \/ SwitchResearch
  \/ RestartNews
  \/ \E k \in 1..newsClock : ReplayAsOf(k)
  \/ NewsTick

\* The executor polls what is ready; an attempt has a time limit.
NewsFairness == \A f \in Fetches : WF_newsVars(FetchStep(f))

NewsSpec == NewsInit /\ [][NewsNext]_newsVars /\ NewsFairness

-----------------------------------------------------------------------------
\* Every part has its type, and there are no more requests than permits.
NewsTypeOK ==
  /\ newsClock \in Nat /\ feed \in Feeds
  /\ \A i \in Ingestors : runtime[i].enabled \in BOOLEAN
                          /\ runtime[i].failures \in 0..(NewsThreshold - 1)
                          /\ runtime[i].circuit \in {"closed", "open", "due"}
  /\ \A f \in Fetches : fetch[f].page.next <= Len(feed) /\ fetch[f].tries <= MaxRetries
  /\ setting.cursor <= Len(feed) /\ setting.disabled \in {"unset", "true", "false"}
  /\ DOMAIN current = {r[1] : r \in DOMAIN revision}
  /\ switch.pc \in {"idle", "store", "research", "again"}
  /\ off \in BOOLEAN
  /\ \A i \in Ingestors : Cardinality(Holding(i)) <= NewsPermits

Archived(p) == feed[p] \in DOMAIN revision \/ p \in lost

\* What is behind the stored cursor is in the archive, but for items whose
\* archive write failed and for what the source left out of the page the cursor
\* came with (a source that ignores the cursor or cuts off its rows is not asked
\* for them again); and what the stored snapshot shows is in the archive
\* (persist_success).
CursorBehindArchive ==
  /\ \A p \in 1..setting.cursor : Archived(p) \/ p \in skipped
  /\ \A n \in DOMAIN setting.snapshot.items : Archived(setting.snapshot.items[n])

\* The revisions of a document replace one another, from the first to the one
\* the document is at: however often pages are read again, late or at the same
\* time, none is replaced twice, and a document is not turned back to a revision
\* that was replaced (news_archive_upsert).
RevisionsChain ==
  /\ \A d \in DOMAIN current : <<d, current[d]>> \in DOMAIN revision
  /\ \A r, s \in DOMAIN revision :
       r[1] = s[1] /\ revision[r].replaces = revision[s].replaces => r = s
  /\ \A r \in DOMAIN revision :
       r[2] # current[r[1]] <=>
         \E s \in DOMAIN revision : s[1] = r[1] /\ revision[s].replaces = {r[2]}

\* What was known at a time that is over does not change with what is archived
\* later (news_archive_as_of: point-in-time replay).
ReplaysAgree == replay # NoReplay => AsOf(replay.at) = replay.shown

\* What readers of the archive rely on (persist_success, news_archive_as_of).
ArchiveIsSound == CursorBehindArchive /\ RevisionsChain /\ ReplaysAgree

\* A source the user was told is disabled is neither asked nor served from its
\* last page by any request that begins after that, restarts included, unless
\* an earlier request was still applying the setting (sync_disabled,
\* fallback_or_error).
DisabledIsRespected ==
  \A f \in Fetches : fetch[f].told =>
    fetch[f].pc \in {"idle", "setting", "apply", "check"}

\* Every request to a source ends, however often the source fails (fetch_one).
FetchesEnd == \A f \in Fetches : []<>Doing(f, "idle")
=============================================================================
