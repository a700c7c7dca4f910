--------------------------- MODULE RelationGraph ----------------------------
(***************************************************************************)
(* relation-extraction/src/lib.rs over graph/src/bitemporal.rs: reviewed   *)
(* candidates are published to and retracted from the relation graph.      *)
(*                                                                         *)
(* All candidates here support one relation between two companies, for     *)
(* which there is one row of the current projection (graph_edges), and one *)
(* identity with its revisions per product and region.  The row has the    *)
(* business period of the edge that was written last, and the current      *)
(* graph shows it while that lasts.  A publication and a retraction are a  *)
(* sequence of jobs of the storage thread; the time a request writes is    *)
(* read before it queues its job.  A request may be dropped between two    *)
(* jobs.                                                                   *)
(*                                                                         *)
(* A revision's id is the hash of its content, so it is its content here.  *)
(* Confidence and weights, texts changed by a review, entity merges (which *)
(* nothing in src/ records), the events that ask for a revalidation and    *)
(* the nodes are left out.                                                 *)
(***************************************************************************)
EXTENDS Naturals, FiniteSets

CONSTANTS Candidates,
          Evidence,    \* [Candidates -> what a source says], several
          Parallel,    \* requests at a time
          Cadence,     \* revalidation_days: how long a revision is not stale
          Decisions,   \* what a review may decide
          Queries,     \* <<business time, knowledge time>> of a snapshot
          MaxVersion,  \* bound: reviews of each candidate
          MaxCalls,    \* bound: requests altogether
          MaxClock     \* bound: seconds

ASSUME GraphAssumption ==
  /\ \A e \in Evidence, c \in Candidates : e[c].from \in Nat /\ e[c].to \in Nat
  /\ MaxClock \in Nat \ {0} /\ MaxVersion \in [Candidates -> Nat] /\ Cadence \in Nat
  /\ Parallel \in Nat /\ MaxCalls \in Nat
  /\ Decisions \subseteq {"accepted", "modified", "rejected"}
  /\ Queries \subseteq Nat \X Nat

VARIABLES clock,
          evidence,      \* relation_candidates: what does not change
          candidate,     \* relation_candidates: version and review status
          publications,  \* relation_publications: <<candidate, version>> -> retracted_at
          revisions,     \* graph_edge_revisions: revision -> row
          projection,    \* the row of graph_edges
          call,          \* the requests
          opened,        \* how many there were
          issued,        \* a snapshot as it was first returned
          disturbed      \* two requests overlapped, or one ended half-way

graphVars == <<clock, evidence, candidate, publications, revisions, projection, call, opened,
               issued, disturbed>>

Calls == 1..Parallel
Times == 0..MaxClock
Never == 0               \* NULL: no end, not superseded, not retracted
NoEdge == <<>>
NoRevision == <<>>
NoSnapshot == <<>>
AtEase == [pc |-> "idle", of |-> <<>>, review |-> "none", now |-> 0, prev |-> NoRevision]

Scope(c) == <<evidence[c].product, evidence[c].region>>

GraphInit ==
  /\ clock = 1
  /\ evidence \in Evidence
  /\ candidate = [c \in Candidates |-> [version |-> 0, review |-> "pending"]]
  /\ publications = [p \in {} |-> Never]
  /\ revisions = [r \in {} |-> 0]
  /\ projection = NoEdge
  /\ call = [q \in Calls |-> AtEase]
  /\ opened = 0
  /\ issued = NoSnapshot
  /\ disturbed = FALSE

With(table, key, entry) ==
  [k \in DOMAIN table \cup {key} |-> IF k = key THEN entry ELSE table[k]]

-----------------------------------------------------------------------------
\* graph_as_of: what was valid at one time as far as it was known at another.

KnownAt(r, k) ==
  /\ revisions[r].recorded <= k
  /\ revisions[r].superseded = Never \/ revisions[r].superseded > k

ValidAt(r, b) == r.from <= b /\ (r.to = Never \/ r.to > b)

Seen(b, k) == {r \in DOMAIN revisions : KnownAt(r, k) /\ ValidAt(r, b)}

\* revision_rank
Outranks(r, s) ==
  LET x == revisions[r] y == revisions[s] IN
  \/ r.from > s.from
  \/ /\ r.from = s.from
     /\ \/ r.observed > s.observed
        \/ /\ r.observed = s.observed
           /\ x.recorded > y.recorded \/ (x.recorded = y.recorded /\ x.no > y.no)

Selected(b, k) ==
  {r \in Seen(b, k) : \A s \in Seen(b, k) : s.scope = r.scope => ~Outranks(s, r)}

StaleAt(r, k) == k >= revisions[r].recorded + Cadence

EdgeAt(r, k) == [revision |-> r, no |-> revisions[r].no, recorded |-> revisions[r].recorded,
                 stale |-> StaleAt(r, k)]

\* A revoked revision is selected and not shown.
Edges(b, k) == {EdgeAt(r, k) : r \in {s \in Selected(b, k) : s.status = "active"}}

-----------------------------------------------------------------------------
\* record_revision_at: one transaction.

\* Mutant: every revision is the first.
AlwaysFirst(scope) == 1
NextNo(scope) ==
  LET nos == {revisions[r].no : r \in {s \in DOMAIN revisions : s.scope = scope}}
  IN  IF nos = {} THEN 1 ELSE 1 + CHOOSE n \in nos : \A m \in nos : m <= n

Row(no, recorded, superseded) == [no |-> no, recorded |-> recorded, superseded |-> superseded]

\* The revision that is replaced is so from the new one's time on, unless it
\* was before.
\* Mutant: a revision that is replaced was never known.
Erases(prev, now) ==
  IF prev = NoRevision THEN revisions
  ELSE [revisions EXCEPT ![prev] = Row(@.no, @.recorded, @.recorded)]
Supersedes(prev, now) ==
  IF prev = NoRevision \/ revisions[prev].superseded \in 1..now THEN revisions
  ELSE [revisions EXCEPT ![prev] = Row(@.no, @.recorded, now)]

\* A content that is stored already is answered with the row it has.
Record(r, now) ==
  revisions' = IF r \in DOMAIN revisions THEN revisions
               ELSE With(Supersedes(r.prev, now), r,
                         Row(NextNo(r.scope), now, Never))

\* Its identity is not that of the revision it replaces, or the CHECK that a
\* revision is not superseded before it was recorded.
Refused(r, now) ==
  /\ r \notin DOMAIN revisions /\ r.prev # NoRevision
  /\ r.prev.scope # r.scope \/ revisions[r.prev].recorded > now

-----------------------------------------------------------------------------
Idle(q) == call[q].pc = "idle"
AllIdle == \A q \in Calls : Idle(q)

Starts(q, pc, of, review) ==
  /\ Idle(q) /\ \A p \in 1..(q - 1) : ~Idle(p)    \* requests are alike
  /\ opened < MaxCalls /\ opened' = opened + 1
  /\ call' = [call EXCEPT ![q] = [pc |-> pc, of |-> of, review |-> review, now |-> clock,
                                  prev |-> NoRevision]]
  /\ disturbed' = (disturbed \/ ~AllIdle)

Further(x, pc, now, prev) ==
  [pc |-> pc, of |-> x.of, review |-> x.review, now |-> now, prev |-> prev]

CallGoes(q, pc) ==
  call' = [call EXCEPT ![q] = IF pc = "idle" THEN AtEase ELSE Further(@, pc, @.now, @.prev)]

Of(q) == call[q].of[1]

\* review: the decision is stored, as a new version.
ReviewCandidate(c, decision) ==
  /\ candidate[c].version < MaxVersion[c]
  /\ candidate' = [candidate EXCEPT ![c] = [version |-> @.version + 1, review |-> decision]]
  /\ UNCHANGED <<opened, clock, evidence, publications, revisions, projection, call, issued, disturbed>>

\* publish, of a candidate as it is read here.
PublishCandidate(q, c) ==
  /\ candidate[c].review \in {"accepted", "modified"}
  /\ Starts(q, "record", <<c, candidate[c].version>>, candidate[c].review)
  /\ UNCHANGED <<clock, evidence, candidate, publications, revisions, projection, issued>>

\* relation_business_interval: the year of the report, or from its publication.
PublishedRevision(q, now) ==
  LET e == evidence[Of(q)] IN
  [scope |-> Scope(Of(q)), status |-> "active", by |-> Of(q), review |-> call[q].review,
   from |-> e.from, to |-> e.to,
   observed |-> IF e.published < now THEN e.published ELSE now, prev |-> NoRevision]

\* The time is read at some point before the job is executed.
TimeOf(q) == call[q].now..clock

RecordRevision(q, now) ==
  /\ call[q].pc = "record" /\ now \in TimeOf(q)
  /\ Record(PublishedRevision(q, now), now)
  /\ CallGoes(q, "project")
  /\ UNCHANGED <<opened, clock, evidence, candidate, publications, projection, issued, disturbed>>

Period(c) == [from |-> evidence[c].from, to |-> evidence[c].to]

\* graph_edge_upsert; all_edges() is read for the row's id alone, which is NULL
\* when the period is over or has not begun.
\* Mutant: the row does not end with the business period.
Endless(q) == [from |-> evidence[Of(q)].from, to |-> Never]
Projected(q) == Period(Of(q))
ProjectEdge(q) ==
  /\ call[q].pc = "project"
  /\ projection' = Projected(q)
  /\ CallGoes(q, "look")
  /\ UNCHANGED <<opened, clock, evidence, candidate, publications, revisions, issued, disturbed>>

\* active_publication
ActiveOf(c) ==
  {p \in DOMAIN publications : p[1] = c /\ publications[p] = Never}

CheckPublished(q) ==
  /\ call[q].pc = "look"
  /\ CallGoes(q, IF ActiveOf(Of(q)) = {} THEN "insert" ELSE "idle")
  /\ UNCHANGED <<opened, clock, evidence, candidate, publications, revisions, projection, issued, disturbed>>

\* UNIQUE(candidate_id, publication_version)
InsertPublication(q) ==
  /\ call[q].pc = "insert"
  /\ IF call[q].of \in DOMAIN publications
     THEN UNCHANGED publications /\ disturbed' = TRUE
     ELSE publications' = With(publications, call[q].of, Never) /\ UNCHANGED disturbed
  /\ CallGoes(q, "idle")
  /\ UNCHANGED <<opened, clock, evidence, candidate, revisions, projection, issued>>

-----------------------------------------------------------------------------
\* retract, of the latest active publication of a candidate.
RetractCandidate(q, c) ==
  \E p \in ActiveOf(c) :
    /\ \A other \in ActiveOf(c) : other[2] <= p[2]
    /\ Starts(q, "withdraw", p, "none")
    /\ UNCHANGED <<clock, evidence, candidate, publications, revisions, projection, issued>>

\* Mutant: the publications of other candidates are not counted.
OwnSupport(table) ==
  {p \in DOMAIN table : table[p] = Never /\ \E q \in Calls : ~Idle(q) /\ Of(q) = p[1]}
Support(table) == {p \in DOMAIN table : table[p] = Never}

\* The publication is withdrawn; what still supports the relation is counted.
WithdrawPublication(q, now) ==
  /\ call[q].pc = "withdraw" /\ now \in TimeOf(q)
  /\ publications' = [publications EXCEPT ![call[q].of] = now]
  /\ call' = [call EXCEPT ![q] =
       IF Support(publications') # {} THEN AtEase ELSE Further(@, "lookup", now, @.prev)]
  /\ UNCHANGED <<opened, clock, evidence, candidate, revisions, projection, issued, disturbed>>

\* all_edges, at a time of its own.
Shown(t) ==
  projection # NoEdge /\ projection.from <= t /\ (projection.to = Never \/ projection.to > t)

\* A relation that is not in the current graph, be it over or still to begin,
\* is left as it is.
LookUpEdge(q, t) ==
  /\ call[q].pc = "lookup" /\ t \in TimeOf(q)
  /\ CallGoes(q, IF Shown(t) THEN "snapshot" ELSE "idle")
  /\ UNCHANGED <<opened, clock, evidence, candidate, publications, revisions, projection, issued, disturbed>>

\* The revision to replace: the first edge of the candidate's product, of
\* whatever region, in the order of the identities.
FindPrevious(q) ==
  /\ call[q].pc = "snapshot"
  /\ LET edges == {e \in Edges(call[q].now, call[q].now) :
                     e.revision.scope[1] = evidence[Of(q)].product} IN
       \E prev \in IF edges = {} THEN {NoRevision} ELSE {e.revision : e \in edges} :
         call' = [call EXCEPT ![q] = Further(@, "revoke", @.now, prev)]
  /\ UNCHANGED <<opened, clock, evidence, candidate, publications, revisions, projection, issued, disturbed>>

\* Without a report period the revocation is valid from the beginning of time.
RevokedRevision(q) ==
  LET e == evidence[Of(q)] IN
  [scope |-> Scope(Of(q)), status |-> "revoked", by |-> call[q].of, review |-> "none",
   from |-> IF e.to = Never THEN 0 ELSE e.from, to |-> Never,
   observed |-> call[q].now, prev |-> call[q].prev]

RevokeRelation(q) ==
  /\ call[q].pc = "revoke"
  /\ LET r == RevokedRevision(q) now == call[q].now IN
       IF Refused(r, now)
       THEN CallGoes(q, "idle") /\ disturbed' = TRUE /\ UNCHANGED revisions
       ELSE CallGoes(q, "end") /\ Record(r, now) /\ UNCHANGED disturbed
  /\ UNCHANGED <<opened, clock, evidence, candidate, publications, projection, issued>>

\* The row has the beginning of the revocation, and ends with it.
EndEdge(q) ==
  /\ call[q].pc = "end"
  /\ projection' = [from |-> RevokedRevision(q).from, to |-> call[q].now]
  /\ CallGoes(q, "idle")
  /\ UNCHANGED <<opened, clock, evidence, candidate, publications, revisions, issued, disturbed>>

-----------------------------------------------------------------------------
\* A request is cancelled, too late or killed with the process.
DropCall(q) ==
  /\ ~Idle(q)
  /\ CallGoes(q, "idle")
  /\ disturbed' = TRUE
  /\ UNCHANGED <<opened, clock, evidence, candidate, publications, revisions, projection, issued>>

\* The time is over for anybody who is still going to write it.
IsPast(k) == k < clock /\ \A q \in Calls : Idle(q) \/ k < call[q].now

\* graph_as_of; a snapshot is recorded under the hash of its times and of the
\* revisions selected.
TakeSnapshot(b, k) ==
  /\ issued = NoSnapshot
  /\ issued' = [business |-> b, knowledge |-> k, selected |-> Selected(b, k),
                edges |-> Edges(b, k), past |-> IsPast(k)]
  /\ UNCHANGED <<opened, clock, evidence, candidate, publications, revisions, projection, call, disturbed>>

Tick ==
  /\ clock < MaxClock
  /\ clock' = clock + 1
  /\ UNCHANGED <<opened, evidence, candidate, publications, revisions, projection, call, issued, disturbed>>

CallStep(q) ==
  \/ \E t \in Times : RecordRevision(q, t) \/ WithdrawPublication(q, t) \/ LookUpEdge(q, t)
  \/ ProjectEdge(q) \/ CheckPublished(q) \/ InsertPublication(q)
  \/ FindPrevious(q) \/ RevokeRelation(q) \/ EndEdge(q)

GraphNext ==
  \/ \E c \in Candidates :
       \/ \E decision \in Decisions : ReviewCandidate(c, decision)
       \/ \E q \in Calls : PublishCandidate(q, c) \/ RetractCandidate(q, c)
  \/ \E q \in Calls : CallStep(q) \/ DropCall(q)
  \/ \E query \in Queries : TakeSnapshot(query[1], query[2])
  \/ Tick

GraphSpec == GraphInit /\ [][GraphNext]_graphVars

-----------------------------------------------------------------------------
\* Every part has its type; a revision is superseded after it was recorded, and
\* the numbers of an identity are used once (the CHECK and UNIQUE constraints).
GraphTypeOK ==
  /\ clock \in Times /\ (projection = NoEdge \/ projection \in [from : Nat, to : Nat])
  /\ \A c \in Candidates : candidate[c].version \in 0..MaxVersion[c]
  /\ \A p \in DOMAIN publications : publications[p] \in Times
  /\ \A q \in Calls : call[q].now <= clock
  /\ \A r \in DOMAIN revisions :
       /\ revisions[r].superseded = Never \/ revisions[r].superseded >= revisions[r].recorded
       /\ \A s \in DOMAIN revisions :
            r # s /\ r.scope = s.scope => revisions[r].no # revisions[s].no
  /\ disturbed \in BOOLEAN

\* A snapshot that is replayed by its id shows what it showed, and of a time
\* that is over nothing recorded, replaced or retracted later changes what was
\* known (graph_as_of, graph_snapshot; docs/bitemporal-graph.md).
SnapshotsReplay ==
  issued # NoSnapshot =>
    LET b == issued.business k == issued.knowledge IN
    /\ Selected(b, k) = issued.selected => Edges(b, k) = issued.edges
    /\ issued.past => Selected(b, k) = issued.selected

\* As long as requests did not overlap or end half-way: while a publication
\* supports the relation, its row has the business period of one of its
\* publications, which is when the current graph shows it; when none does, the
\* relation is shown only if its period had not begun when the last one was
\* withdrawn, for retract ends the row of a relation that is shown alone
\* (publish, retract, upsert_revision_at, all_edges).
ProjectionIsSupported ==
  AllIdle /\ ~disturbed =>
    IF \E p \in DOMAIN publications : publications[p] = Never
    THEN \E p \in DOMAIN publications : projection = Period(p[1])
    ELSE Shown(clock) => \A p \in DOMAIN publications : projection.from > publications[p]
=============================================================================
