---------------------------- MODULE EngineProofs ----------------------------
(***************************************************************************)
(* Proofs about the parts of the Engine and of the Agent host, for any     *)
(* number of requests, jobs, roots, turns, frames, restarts and kills.     *)
(*                                                                         *)
(* The data root.  PointerIsSound is not inductive: a pointer that can be  *)
(* read is made of a file that was written while it had another name, so   *)
(* RootInv follows the files (FilesLead, AloneWrites), the roots they name *)
(* (RootsThere) and what a migration owes its caller on its way (DuesKept).*)
(*                                                                         *)
(* The jobs.  WorkersAccounted speaks of jobs at work; whether one gets    *)
(* there alone is decided earlier, while it starts.  JobsInv says who else *)
(* can be starting, working or ending then (LoneStarts, LoneJobs,          *)
(* ScanAtOnce), what is shown and registered from the claim of the slot on *)
(* (HoldersShown, TokensHeld), and that a start that was let in still has  *)
(* room (QuantRoom).                                                       *)
(*                                                                         *)
(* The news.  A fetch reads the setting before it looks at its ingestor,   *)
(* so NewsInv says that what the user was told is stored (OffIsStored),    *)
(* and that nobody applies another setting before a told fetch has looked  *)
(* (ToldIsHeeded).  Of the archive, ArchiveInv says that a request asks     *)
(* behind what is accounted for, and that its page accounts for the rest   *)
(* up to the next cursor (PageIsSound); and of the revisions, that what    *)
(* one replaces is stored (ReplacesStored), so that a new one is the only  *)
(* one to replace what the document was at.                                *)
(*                                                                         *)
(* The turns.  SessionIsSaved speaks of the log, the row and the client;   *)
(* between them is the copy a relay holds.  TurnInv says that this copy is *)
(* the projection of what was taken (RelaysProject), that the row lacks    *)
(* only text and the one event being saved, which the client does not have *)
(* (TakenIsSaved), and that no session knows a turn before it begins       *)
(* (Unanswered).                                                           *)
(*                                                                         *)
(* The worker.  TokensAreLive is not inductive: a task that ends removes   *)
(* the entry of its identity whosever it is, so an unshared request keeps  *)
(* its token only because nobody else of its identity is still to end      *)
(* (Exclusive); and a new request cannot be the one an old entry names,    *)
(* because frames not read yet have no request (Ahead).                    *)
(*                                                                         *)
(* The types say more than the kind of a value where something is limited: *)
(* permits, the window of identities, the channels, attempts and failures. *)
(* Each has an invariant of its own (WorkerInv, TurnTypeInv, NewsTypeInv). *)
(* At the end the parts are put together.                                  *)
(***************************************************************************)
EXTENDS MCEngine, ModelStreamProofs, FiniteSetTheorems, SequenceTheorems,
        WellFoundedInduction, TLAPS

-----------------------------------------------------------------------------
\* The original root and the open one are there, and so is the source of each.
RootsThere ==
  /\ root[Original].there
  /\ \A r \in Roots : root[root[r].source].there
  /\ open # Nothing => root[open].there

\* A request that is going to write a pointer, or has, points to a root.
Pointing == {"verify", "activate", "write", "rename", "done"}
TargetsThere == \A o \in Requests : op[o].pc \in Pointing => root[op[o].target].there

\* What its source held when a migration was asked for is in the open root
\* until the backup, in the backup until the copy has its name, and then there.
DuesKept ==
  \A o \in Requests :
    /\ op[o].pc \in {"staged", "backed"} => open # Nothing
    /\ op[o].pc = "staged" => op[o].due \subseteq root[open].data
    /\ op[o].pc = "backed" => op[o].due \subseteq op[o].data
    /\ op[o].pc \in Pointing => op[o].due \subseteq root[op[o].target].data

\* A file that is whole names a root.
FilesLead == \A f \in Requests : content[f].whole => root[content[f].root].there

\* Unless two wrote at a time, a request writes a file of its own, which keeps
\* the temporary name until the rename, and the pointer is a finished one's.
AloneWrites ==
  ~overlapped =>
    /\ \A o, p \in Activating : o = p
    /\ \A o \in Activating : temporary = o /\ op[o].file = o
    /\ \A o \in Activating : op[o].pc = "rename" => content[o].whole
    /\ temporary # Nothing => temporary \in Activating
    /\ pointer # Nothing => op[pointer].pc = "done" /\ content[pointer].whole

RootInv ==
  RootTypeOK /\ RootsThere /\ TargetsThere /\ DuesKept /\ FilesLead /\ AloneWrites

-----------------------------------------------------------------------------
\* Changing one field of a request or a root keeps its type.
LEMMA StepType ==
  ASSUME NEW r \in Operation, NEW pc \in Step
  PROVE  [r EXCEPT !.pc = pc] \in Operation
BY DEF Operation

LEMMA BackupType ==
  ASSUME NEW r \in Operation, NEW s \in SUBSET Writes
  PROVE  [r EXCEPT !.pc = "backed", !.data = s] \in Operation
BY DEF Operation, Step

LEMMA WritingType ==
  ASSUME NEW r \in Operation, NEW f \in Requests
  PROVE  [r EXCEPT !.pc = "write", !.file = f] \in Operation
BY DEF Operation, Step

LEMMA DataType ==
  ASSUME NEW r \in Root, NEW w \in Writes
  PROVE  [r EXCEPT !.data = r.data \cup {w}] \in Root
BY DEF Root

\* What the fields of a request and a root are.
LEMMA OperationFields ==
  ASSUME NEW r \in Operation
  PROVE  /\ r.pc \in Step /\ r.target \in Roots /\ r.copy \in Roots
         /\ r.data \in SUBSET Writes /\ r.due \in SUBSET Writes
         /\ r.file \in Requests \cup {Nothing}
BY DEF Operation

\* A step of requests that do not write the pointer leaves the files alone.
LEMMA FilesUntouched ==
  ASSUME AloneWrites, pointer \in Requests \cup {Nothing},
         UNCHANGED <<content, temporary, pointer, overlapped>>,
         \A o \in Requests : \/ op'[o] = op[o]
                             \/ {op[o].pc, op'[o].pc} \cap {"write", "rename", "done"} = {}
  PROVE  AloneWrites'
<1>1. \A o \in Requests : o \in Activating' <=> o \in Activating
  BY DEF Activating
<1>2. \A o \in Requests : o \in Activating => op'[o] = op[o]
  BY DEF Activating
<1>3. Activating \subseteq Requests /\ Activating' \subseteq Requests
  BY DEF Activating
<1> QED
  BY <1>1, <1>2, <1>3 DEF AloneWrites

\* A step of one request, over roots that lose nothing, keeps what holds of the
\* others.
LEMMA OneMoves ==
  ASSUME RootInv, NEW o \in Requests, NEW new \in Operation,
         op' = [op EXCEPT ![o] = new],
         \A r \in Roots : root[r].there => root'[r].there /\ root[r].data \subseteq root'[r].data,
         UNCHANGED open,
         new.pc \in Pointing => root'[new.target].there /\ new.due \subseteq root'[new.target].data,
         new.pc \in {"staged", "backed"} => open # Nothing,
         new.pc = "staged" => new.due \subseteq root'[open].data,
         new.pc = "backed" => new.due \subseteq new.data
  PROVE  op' \in [Requests -> Operation] /\ TargetsThere' /\ DuesKept'
<1>1. op' \in [Requests -> Operation]
  BY DEF RootInv, RootTypeOK
<1>2. op'[o] = new /\ \A p \in Requests \ {o} : op'[p] = op[p]
  BY DEF RootInv, RootTypeOK
<1>3. \A p \in Requests : op[p].target \in Roots
  BY OperationFields DEF RootInv, RootTypeOK
<1>4. open # Nothing => open \in Roots /\ root[open].there
  BY DEF RootInv, RootTypeOK, RootsThere
<1>5. TargetsThere'
  <2> SUFFICES ASSUME NEW p \in Requests, op'[p].pc \in Pointing PROVE root'[op'[p].target].there
    BY DEF TargetsThere
  <2>1. CASE p = o
    BY <2>1, <1>2
  <2>2. CASE p # o
    BY <2>2, <1>2, <1>3 DEF RootInv, TargetsThere
  <2> QED
    BY <2>1, <2>2
<1>6. DuesKept'
  <2> SUFFICES ASSUME NEW p \in Requests
               PROVE  /\ op'[p].pc \in {"staged", "backed"} => open' # Nothing
                      /\ op'[p].pc = "staged" => op'[p].due \subseteq root'[open'].data
                      /\ op'[p].pc = "backed" => op'[p].due \subseteq op'[p].data
                      /\ op'[p].pc \in Pointing => op'[p].due \subseteq root'[op'[p].target].data
    BY DEF DuesKept
  <2>1. CASE p = o
    BY <2>1, <1>2
  <2>2. CASE p # o
    BY <2>2, <1>2, <1>3, <1>4 DEF RootInv, DuesKept, TargetsThere
  <2> QED
    BY <2>1, <2>2
<1> QED
  BY <1>1, <1>5, <1>6

LEMMA InitRootInv == RootInit => RootInv
<1> SUFFICES ASSUME RootInit PROVE RootInv
  OBVIOUS
<1> USE RootsAssumption DEF RootInit, Absent, Torn, Unborn, Nothing
<1>1. RootTypeOK
  <2>1. root \in [Roots -> Root]
    BY DEF Root
  <2>2. op \in [Requests -> Operation]
    BY DEF Operation, Step
  <2>3. content \in [Requests -> File]
    BY DEF File
  <2> QED
    BY <2>1, <2>2, <2>3 DEF RootTypeOK
<1>2. RootsThere
  BY DEF RootsThere
<1>3. TargetsThere /\ DuesKept /\ FilesLead /\ AloneWrites
  BY DEF TargetsThere, DuesKept, FilesLead, AloneWrites, Activating, Pointing
<1> QED
  BY <1>1, <1>2, <1>3 DEF RootInv

LEMMA WriteRootInv ==
  ASSUME RootInv, NEW w \in Writes, Write(w)
  PROVE  RootInv'
<1>1. open \in Roots /\ root[open] \in Root /\ root \in [Roots -> Root]
  BY DEF RootInv, RootTypeOK, Write
<1>2. root' = [root EXCEPT ![open] = [root[open] EXCEPT !.data = root[open].data \cup {w}]]
  BY DEF Write
<1>3. root' \in [Roots -> Root]
  BY <1>1, <1>2, DataType
<1>4. \A r \in Roots : /\ root'[r].there = root[r].there /\ root'[r].source = root[r].source
                       /\ root[r].data \subseteq root'[r].data
  BY <1>1, <1>2 DEF Root
<1>5. \A r \in Roots : root[r].source \in Roots
  BY <1>1 DEF Root
<1>6. UNCHANGED <<open, op, content, temporary, pointer, overlapped>>
  BY DEF Write
<1>7. RootTypeOK'
  BY <1>3, <1>6 DEF RootInv, RootTypeOK
<1>8. RootsThere'
  BY <1>1, <1>4, <1>5, <1>6, RootsAssumption DEF RootInv, RootsThere
<1>9. \A o \in Requests : op[o].target \in Roots
  BY OperationFields DEF RootInv, RootTypeOK
<1>10. TargetsThere' /\ DuesKept'
  BY <1>1, <1>4, <1>6, <1>9 DEF RootInv, TargetsThere, DuesKept
<1>11. FilesLead'
  BY <1>4, <1>6 DEF RootInv, RootTypeOK, FilesLead, File
<1>12. AloneWrites'
  BY <1>6, FilesUntouched DEF RootInv, RootTypeOK
<1> QED
  BY <1>7, <1>8, <1>10, <1>11, <1>12 DEF RootInv

\* Steps of a request before it writes the pointer, over unchanged roots.
LEMMA BeforeWriting ==
  ASSUME RootInv, NEW o \in Requests, NEW new \in Operation,
         op' = [op EXCEPT ![o] = new],
         UNCHANGED <<root, open, content, temporary, pointer, overlapped>>,
         {op[o].pc, new.pc} \cap {"write", "rename", "done"} = {},
         new.pc \in Pointing => root[new.target].there /\ new.due \subseteq root[new.target].data,
         new.pc \in {"staged", "backed"} => open # Nothing,
         new.pc = "staged" => new.due \subseteq root[open].data,
         new.pc = "backed" => new.due \subseteq new.data
  PROVE  RootInv'
<1>1. op' \in [Requests -> Operation] /\ TargetsThere' /\ DuesKept'
  BY OneMoves
<1>2. RootTypeOK'
  BY <1>1 DEF RootInv, RootTypeOK
<1>3. \A p \in Requests : \/ op'[p] = op[p]
                          \/ {op[p].pc, op'[p].pc} \cap {"write", "rename", "done"} = {}
  BY DEF RootInv, RootTypeOK
<1>4. AloneWrites'
  BY <1>3, FilesUntouched DEF RootInv, RootTypeOK
<1>5. RootsThere' /\ FilesLead'
  BY DEF RootInv, RootsThere, FilesLead
<1> QED
  BY <1>1, <1>2, <1>4, <1>5 DEF RootInv

LEMMA PrepareRootInv ==
  ASSUME RootInv, NEW o \in Requests, NEW r \in Roots, Prepare(o, r)
  PROVE  RootInv'
<1> DEFINE new == [Unborn EXCEPT !.pc = "staged", !.target = r, !.copy = r, !.due = root[open].data]
<1>1. open \in Roots /\ root[open].data \in SUBSET Writes
  BY DEF RootInv, RootTypeOK, Prepare, Root
<1>2. new \in Operation /\ new.pc = "staged" /\ new.due = root[open].data
  BY <1>1, RootsAssumption DEF Operation, Step, Unborn
<1>3. op' = [op EXCEPT ![o] = new] /\ op[o].pc = "unborn" /\ open # Nothing
      /\ UNCHANGED <<root, open, content, temporary, pointer, overlapped>>
  BY DEF Prepare
<1> HIDE DEF new
<1> QED
  BY <1>2, <1>3, BeforeWriting DEF Pointing

LEMMA BackupRootInv ==
  ASSUME RootInv, NEW o \in Requests, Backup(o)
  PROVE  RootInv'
<1> DEFINE new == [op[o] EXCEPT !.pc = "backed", !.data = root[open].data]
<1>1. op[o] \in Operation /\ op[o].pc = "staged" /\ open # Nothing
      /\ op[o].due \subseteq root[open].data
  BY DEF RootInv, RootTypeOK, Backup, DuesKept
<1>2. root[open].data \in SUBSET Writes
  BY <1>1 DEF RootInv, RootTypeOK, Root
<1>3. new \in Operation
  BY <1>1, <1>2, BackupType
<1>4. new.pc = "backed" /\ new.due = op[o].due /\ new.data = root[open].data
  BY <1>1 DEF Operation
<1>5. op' = [op EXCEPT ![o] = new]
      /\ UNCHANGED <<root, open, content, temporary, pointer, overlapped>>
  BY DEF Backup
<1> HIDE DEF new
<1> QED
  BY <1>1, <1>3, <1>4, <1>5, BeforeWriting DEF Pointing

\* Steps of a request that change its place only, before it writes the pointer.
LEMMA PlaceRootInv ==
  ASSUME RootInv, NEW o \in Requests, NEW pc \in {"activate", "failed"},
         op' = [op EXCEPT ![o].pc = pc],
         op[o].pc \in {"staged", "backed", "verify"}, pc = "activate" => op[o].pc = "verify",
         UNCHANGED <<root, open, content, temporary, pointer, overlapped>>
  PROVE  RootInv'
<1> DEFINE new == [op[o] EXCEPT !.pc = pc]
<1>1. op[o] \in Operation
  BY DEF RootInv, RootTypeOK
<1>2. new \in Operation
  BY <1>1, StepType DEF Step
<1>3. new.pc = pc /\ new.due = op[o].due /\ new.target = op[o].target
  BY <1>1 DEF Operation
<1>4. pc = "activate" => root[op[o].target].there /\ op[o].due \subseteq root[op[o].target].data
  BY DEF RootInv, TargetsThere, DuesKept, Pointing
<1>5. op' = [op EXCEPT ![o] = new]
  OBVIOUS
<1> HIDE DEF new
<1>6. {op[o].pc, new.pc} \cap {"write", "rename", "done"} = {} /\ new.pc \notin {"staged", "backed"}
  BY <1>3
<1>7. new.pc \in Pointing => root[new.target].there /\ new.due \subseteq root[new.target].data
  BY <1>3, <1>4 DEF Pointing
<1> QED
  BY <1>2, <1>5, <1>6, <1>7, BeforeWriting

LEMMA FinalizeRootInv ==
  ASSUME RootInv, NEW o \in Requests, Finalize(o)
  PROVE  RootInv'
<1> DEFINE r == op[o].target
           new == [op[o] EXCEPT !.pc = "activate"]
           copied == [there |-> TRUE, data |-> op[o].data, source |-> open]
<1>1. /\ op[o] \in Operation /\ r \in Roots /\ op[o].data \in SUBSET Writes
      /\ open \in Roots /\ root[open].there /\ op[o].due \subseteq op[o].data
      /\ root \in [Roots -> Root] /\ op \in [Requests -> Operation]
  BY OperationFields DEF RootInv, RootTypeOK, Finalize, DuesKept, RootsThere
<1>2. CASE root[r].there
  BY <1>2, PlaceRootInv DEF Finalize
<1>3. CASE ~root[r].there
  <2>1. /\ op' = [op EXCEPT ![o] = new] /\ root' = [root EXCEPT ![r] = copied]
        /\ op[o].pc = "backed"
        /\ UNCHANGED <<open, content, temporary, pointer, overlapped>>
    BY <1>3 DEF Finalize
  <2>2. new \in Operation /\ copied \in Root
    BY <1>1, StepType DEF Root, Step
  <2>3. new.pc = "activate" /\ new.target = r /\ new.due = op[o].due
    BY <1>1 DEF Operation
  <2>4. root'[r] = copied /\ \A q \in Roots \ {r} : root'[q] = root[q]
    BY <1>1, <2>1
  <2>5. root' \in [Roots -> Root]
    BY <1>1, <2>1, <2>2
  <2>6. \A q \in Roots : root[q].there => root'[q].there /\ root[q].data \subseteq root'[q].data
    BY <1>3, <2>4
  <2>7. op' \in [Requests -> Operation] /\ TargetsThere' /\ DuesKept'
    <3> HIDE DEF new, copied
    <3>1. root'[r].there /\ op[o].due \subseteq root'[r].data
      BY <1>1, <2>4 DEF copied
    <3> QED
      BY <2>1, <2>2, <2>3, <2>6, <3>1, OneMoves DEF Pointing
  <2>8. RootTypeOK'
    BY <2>1, <2>5, <2>7 DEF RootInv, RootTypeOK
  <2>9. RootsThere'
    <3>1. \A q \in Roots : root[q].source \in Roots
      BY <1>1 DEF Root
    <3>2. open # r
      BY <1>1, <1>3
    <3>3. \A q \in Roots : root'[q].source \in Roots /\ root[root'[q].source].there
      BY <1>1, <2>4, <3>1 DEF RootInv, RootsThere
    <3>4. \A q \in Roots : root'[root'[q].source].there
      BY <2>6, <3>3
    <3> QED
      BY <1>1, <2>1, <2>6, <3>4, RootsAssumption DEF RootInv, RootsThere
  <2>10. FilesLead'
    BY <2>1, <2>6 DEF RootInv, RootTypeOK, FilesLead, File
  <2>11. AloneWrites'
    <3>1. \A p \in Requests : \/ op'[p] = op[p]
                              \/ {op[p].pc, op'[p].pc} \cap {"write", "rename", "done"} = {}
      BY <1>1, <2>1, <2>3
    <3> QED
      BY <2>1, <3>1, FilesUntouched DEF RootInv, RootTypeOK
  <2> QED
    BY <2>7, <2>8, <2>9, <2>10, <2>11 DEF RootInv
<1> QED
  BY <1>2, <1>3

LEMMA RollbackRootInv ==
  ASSUME RootInv, NEW o \in Requests, Rollback(o)
  PROVE  RootInv'
<1> DEFINE source == root[Pointed.copy].source
           new == [Unborn EXCEPT !.pc = "verify", !.target = source, !.copy = Pointed.copy]
<1>1. pointer \in Requests /\ Pointed.copy \in Roots /\ source \in Roots /\ root[source].there
  BY DEF RootInv, RootTypeOK, Rollback, RootsThere, Pointed, File, Root
<1>2. new \in Operation /\ new.pc = "verify" /\ new.target = source /\ new.due = {}
  BY <1>1, RootsAssumption DEF Operation, Step, Unborn
<1>3. /\ op' = [op EXCEPT ![o] = new] /\ op[o].pc = "unborn"
      /\ UNCHANGED <<root, open, content, temporary, pointer, overlapped>>
  BY DEF Rollback
<1> HIDE DEF new
<1> QED
  BY <1>1, <1>2, <1>3, BeforeWriting DEF Pointing

LEMMA VerifiedRootInv ==
  ASSUME RootInv, NEW o \in Requests, Verified(o)
  PROVE  RootInv'
BY PlaceRootInv DEF Verified

LEMMA CancelRootInv ==
  ASSUME RootInv, NEW o \in Requests, Cancel(o)
  PROVE  RootInv'
BY PlaceRootInv DEF Cancel

\* The steps of write_active_redirect change neither roots nor what is owed.
LEMMA WhileWriting ==
  ASSUME RootInv, NEW o \in Requests, NEW new \in Operation,
         op' = [op EXCEPT ![o] = new], UNCHANGED <<root, open>>,
         op[o].pc \in Pointing, new.target = op[o].target, new.due = op[o].due,
         new.pc \in {"write", "rename", "done", "failed"}
  PROVE  op' \in [Requests -> Operation] /\ TargetsThere' /\ DuesKept' /\ RootsThere'
<1>1. root[op[o].target].there /\ op[o].due \subseteq root[op[o].target].data
  BY DEF RootInv, TargetsThere, DuesKept
<1>2. op' \in [Requests -> Operation] /\ TargetsThere' /\ DuesKept'
  BY <1>1, OneMoves
<1>3. RootsThere'
  BY DEF RootInv, RootsThere
<1> QED
  BY <1>2, <1>3

LEMMA CreateTemporaryRootInv ==
  ASSUME RootInv, NEW o \in Requests, CreateTemporary(o)
  PROVE  RootInv'
<1> DEFINE f == IF temporary = Nothing THEN o ELSE temporary
           new == [op[o] EXCEPT !.pc = "write", !.file = f]
<1>1. /\ op[o] \in Operation /\ f \in Requests /\ op[o].pc = "activate"
      /\ content \in [Requests -> File] /\ op \in [Requests -> Operation]
  BY DEF RootInv, RootTypeOK, CreateTemporary, ReadyToActivate
<1>2. /\ new \in Operation /\ new.pc = "write" /\ new.file = f
      /\ new.target = op[o].target /\ new.due = op[o].due
  BY <1>1, WritingType DEF Operation
<1>3. /\ op' = [op EXCEPT ![o] = new] /\ temporary' = f /\ content' = [content EXCEPT ![f] = Torn]
      /\ overlapped' = (overlapped \/ Activating # {}) /\ UNCHANGED <<root, open, pointer>>
  BY DEF CreateTemporary
<1> HIDE DEF new
<1>4. op' \in [Requests -> Operation] /\ TargetsThere' /\ DuesKept' /\ RootsThere'
  BY <1>1, <1>2, <1>3, WhileWriting DEF Pointing
<1>5. Torn \in File /\ ~Torn.whole
  BY RootsAssumption DEF Torn, File
<1>6. RootTypeOK' /\ FilesLead'
  BY <1>1, <1>3, <1>4, <1>5 DEF RootInv, RootTypeOK, FilesLead
<1>7. AloneWrites'
  <2> SUFFICES ASSUME ~overlapped' PROVE AloneWrites'
    BY DEF AloneWrites
  <2>1. ~overlapped /\ Activating = {}
    BY <1>3 DEF RootInv, RootTypeOK
  <2>2. temporary = Nothing /\ f = o
    BY <2>1 DEF RootInv, AloneWrites
  <2>3. op'[o] = new /\ \A p \in Requests \ {o} : op'[p] = op[p]
    BY <1>1, <1>3
  <2>4. Activating' = {o}
    BY <1>2, <2>1, <2>3 DEF Activating
  <2>5. pointer # Nothing => pointer \in Requests \ {o} /\ op[pointer].pc = "done"
                             /\ content[pointer].whole
    BY <1>1, <2>1 DEF RootInv, RootTypeOK, AloneWrites
  <2> QED
    BY <1>1, <1>2, <1>3, <2>2, <2>3, <2>4, <2>5 DEF AloneWrites
<1> QED
  BY <1>4, <1>6, <1>7 DEF RootInv

LEMMA WriteTemporaryRootInv ==
  ASSUME RootInv, NEW o \in Requests, WriteTemporary(o)
  PROVE  RootInv'
<1> DEFINE whole == [whole |-> TRUE, root |-> op[o].target, copy |-> op[o].copy]
           new == [op[o] EXCEPT !.pc = "rename"]
           shared == \E p \in Activating \ {o} : op[p].file = op[o].file
<1>1. /\ op[o] \in Operation /\ op[o].pc = "write" /\ op[o].file \in Requests \cup {Nothing}
      /\ content \in [Requests -> File] /\ op \in [Requests -> Operation]
      /\ op[o].target \in Roots /\ op[o].copy \in Roots
  BY OperationFields DEF RootInv, RootTypeOK, WriteTemporary
<1>2. /\ new \in Operation /\ new.pc = "rename" /\ new.file = op[o].file
      /\ new.target = op[o].target /\ new.due = op[o].due
  <2>1. "rename" \in Step
    BY DEF Step
  <2>2. new \in Operation
    BY <1>1, <2>1, StepType
  <2> QED
    BY <1>1, <2>2 DEF Operation
<1>3. /\ op' = [op EXCEPT ![o] = new]
      /\ UNCHANGED <<root, open, temporary, pointer, overlapped>>
  BY DEF WriteTemporary
<1>4. PICK c \in {whole, Torn} : /\ content' = [content EXCEPT ![op[o].file] = c]
                                 /\ ~shared => c = whole
  BY Zenon DEF WriteTemporary
<1> HIDE DEF new, shared
<1>5. op' \in [Requests -> Operation] /\ TargetsThere' /\ DuesKept' /\ RootsThere'
  BY <1>1, <1>2, <1>3, WhileWriting DEF Pointing
<1>6. root[op[o].target].there
  BY <1>1 DEF RootInv, TargetsThere, Pointing
<1>7. c \in File /\ (c.whole => root[c.root].there) /\ (c = whole => c.whole)
  <2>1. whole \in File /\ whole.whole /\ whole.root = op[o].target
    BY <1>1 DEF File
  <2>2. Torn \in File /\ ~Torn.whole
    BY RootsAssumption DEF Torn, File
  <2> HIDE DEF whole
  <2> QED
    BY <1>6, <2>1, <2>2
<1> HIDE DEF whole
<1>8. RootTypeOK' /\ FilesLead'
  BY <1>1, <1>3, <1>4, <1>5, <1>7 DEF RootInv, RootTypeOK, FilesLead
<1>9. AloneWrites'
  <2> SUFFICES ASSUME ~overlapped PROVE AloneWrites'
    BY <1>3 DEF AloneWrites
  <2>1. o \in Activating
    BY <1>1 DEF Activating
  <2>2. /\ \A p \in Activating : p = o
        /\ temporary = o /\ op[o].file = o
        /\ pointer # Nothing => op[pointer].pc = "done" /\ content[pointer].whole
    BY <2>1 DEF RootInv, AloneWrites
  <2>3. op'[o] = new /\ \A p \in Requests \ {o} : op'[p] = op[p]
    BY <1>1, <1>3
  <2>4. Activating' = {o}
    BY <1>2, <2>1, <2>2, <2>3 DEF Activating
  <2>5. c = whole
    BY <1>4, <2>2 DEF shared
  <2>6. content'[o].whole /\ (pointer # Nothing => content'[pointer] = content[pointer])
    BY <1>1, <1>4, <1>7, <2>2, <2>5
  <2>7. pointer # Nothing => pointer \in Requests \ {o}
    BY <1>1, <2>2 DEF RootInv, RootTypeOK
  <2> QED
    BY <1>2, <1>3, <2>2, <2>3, <2>4, <2>6, <2>7 DEF AloneWrites
<1> QED
  BY <1>5, <1>8, <1>9 DEF RootInv

LEMMA ActivateRootInv ==
  ASSUME RootInv, NEW o \in Requests, Activate(o)
  PROVE  RootInv'
<1> DEFINE pc == IF temporary = Nothing THEN "failed" ELSE "done"
           new == [op[o] EXCEPT !.pc = pc]
<1>1. op[o] \in Operation /\ op[o].pc = "rename" /\ op \in [Requests -> Operation]
  BY DEF RootInv, RootTypeOK, Activate
<1>2. /\ new \in Operation /\ new.pc = pc /\ pc \in {"failed", "done"}
      /\ new.target = op[o].target /\ new.due = op[o].due
  <2>1. pc \in Step /\ pc \in {"failed", "done"}
    BY DEF Step
  <2> HIDE DEF pc
  <2>2. new \in Operation
    BY <1>1, <2>1, StepType
  <2> QED
    BY <1>1, <2>1, <2>2 DEF Operation
<1>3. /\ op' = [op EXCEPT ![o] = new] /\ UNCHANGED <<root, open, content, overlapped>>
      /\ temporary' = Nothing /\ pointer' = IF temporary = Nothing THEN pointer ELSE temporary
  BY DEF Activate
<1> HIDE DEF new
<1>4. op' \in [Requests -> Operation] /\ TargetsThere' /\ DuesKept' /\ RootsThere'
  BY <1>1, <1>2, <1>3, WhileWriting DEF Pointing
<1>5. RootTypeOK' /\ FilesLead'
  BY <1>3, <1>4 DEF RootInv, RootTypeOK, FilesLead
<1>6. AloneWrites'
  <2> SUFFICES ASSUME ~overlapped PROVE AloneWrites'
    BY <1>3 DEF AloneWrites
  <2>1. o \in Activating
    BY <1>1 DEF Activating
  <2>2. (\A p \in Activating : p = o) /\ temporary = o /\ content[o].whole
    BY <1>1, <2>1 DEF RootInv, AloneWrites
  <2>3. temporary # Nothing
    BY <2>2, RootsAssumption
  <2>4. op'[o] = new /\ \A p \in Requests \ {o} : op'[p] = op[p]
    BY <1>1, <1>3
  <2>5. Activating' = {}
    BY <1>2, <2>1, <2>2, <2>4 DEF Activating
  <2> QED
    BY <1>2, <1>3, <2>2, <2>3, <2>4, <2>5 DEF AloneWrites
<1> QED
  BY <1>4, <1>5, <1>6 DEF RootInv

\* Whoever was writing the pointer is gone, and so is the temporary name.
LEMMA KillRootInv ==
  ASSUME RootInv, Kill
  PROVE  RootInv'
<1>1. op \in [Requests -> Operation] /\ \A o \in Requests : op[o] \in Operation
  BY DEF RootInv, RootTypeOK
<1>2. /\ op' = [o \in Requests |-> IF op[o].pc \in {"unborn", "done"} THEN op[o]
                                   ELSE [op[o] EXCEPT !.pc = "failed"]]
      /\ open' = Nothing /\ temporary' = Nothing /\ UNCHANGED <<root, content, pointer, overlapped>>
  BY DEF Kill
<1>3. \A o \in Requests :
        /\ op[o].pc \in {"unborn", "done"} => op'[o] = op[o]
        /\ op[o].pc \notin {"unborn", "done"} =>
             op'[o] = [op[o] EXCEPT !.pc = "failed"] /\ op'[o].pc = "failed"
  BY <1>1, <1>2 DEF Operation
<1>4. ASSUME NEW o \in Requests PROVE op'[o] \in Operation
  <2>1. "failed" \in Step
    BY DEF Step
  <2>2. [op[o] EXCEPT !.pc = "failed"] \in Operation
    BY <1>1, <2>1, StepType
  <2> QED
    BY <1>1, <1>3, <2>2
<1>5. op' \in [Requests -> Operation]
  BY <1>2, <1>4
<1>6. RootTypeOK' /\ RootsThere' /\ FilesLead'
  BY <1>2, <1>5 DEF RootInv, RootTypeOK, RootsThere, FilesLead
<1>7. TargetsThere' /\ DuesKept'
  BY <1>2, <1>3 DEF RootInv, TargetsThere, DuesKept, Pointing
<1>8. AloneWrites'
  <2>1. Activating' = {}
    BY <1>3 DEF Activating
  <2>2. pointer \in Requests \cup {Nothing}
    BY DEF RootInv, RootTypeOK
  <2> QED
    BY <1>2, <1>3, <2>1, <2>2 DEF RootInv, AloneWrites
<1> QED
  BY <1>6, <1>7, <1>8 DEF RootInv

LEMMA ResolveRootInv ==
  ASSUME RootInv, Resolve
  PROVE  RootInv'
<1>1. /\ open = Nothing /\ UNCHANGED <<root, op, content, temporary, pointer, overlapped>>
      /\ open' \in Roots /\ root[open'].there
  BY RootsAssumption DEF RootInv, RootTypeOK, Resolve, RootsThere, Pointed, File
<1>2. RootTypeOK' /\ RootsThere' /\ FilesLead' /\ TargetsThere'
  BY <1>1 DEF RootInv, RootTypeOK, RootsThere, FilesLead, TargetsThere
<1>3. DuesKept'
  BY <1>1 DEF RootInv, DuesKept
<1>4. AloneWrites'
  BY <1>1, FilesUntouched DEF RootInv, RootTypeOK
<1> QED
  BY <1>2, <1>3, <1>4 DEF RootInv

LEMMA RootStep == RootInv /\ [RootNext]_rootVars => RootInv'
<1> SUFFICES ASSUME RootInv, [RootNext]_rootVars PROVE RootInv'
  OBVIOUS
<1>1. CASE UNCHANGED rootVars
  BY <1>1 DEF rootVars, RootInv, RootTypeOK, RootsThere, TargetsThere, DuesKept, FilesLead,
     AloneWrites, Activating
<1>2. CASE \E w \in Writes : Write(w)
  BY <1>2, WriteRootInv
<1>3. ASSUME NEW o \in Requests, \E r \in Roots : Prepare(o, r) PROVE RootInv'
  BY <1>3, PrepareRootInv
<1>4. ASSUME NEW o \in Requests,
             Backup(o) \/ Finalize(o) \/ Rollback(o) \/ Verified(o) \/ Cancel(o)
      PROVE  RootInv'
  BY <1>4, BackupRootInv, FinalizeRootInv, RollbackRootInv, VerifiedRootInv, CancelRootInv
<1>5. ASSUME NEW o \in Requests, CreateTemporary(o) \/ WriteTemporary(o) \/ Activate(o)
      PROVE  RootInv'
  BY <1>5, CreateTemporaryRootInv, WriteTemporaryRootInv, ActivateRootInv
<1>6. CASE Kill \/ Resolve
  BY <1>6, KillRootInv, ResolveRootInv
<1> QED
  BY <1>1, <1>2, <1>3, <1>4, <1>5, <1>6 DEF RootNext

\* Whatever is migrated, rolled back, cancelled or killed, and whenever, the
\* next process finds a pointer it can read, unless two requests wrote it at a
\* time, and under it a root that lost nothing (data_root.rs).
THEOREM RootPointerIsSound == RootSpec => []PointerIsSound
<1>1. RootInv => PointerIsSound
  <2> SUFFICES ASSUME RootInv, pointer # Nothing PROVE PointerIsSound
    BY DEF PointerIsSound
  <2>1. pointer \in Requests
    BY DEF RootInv, RootTypeOK
  <2>2. Pointed.whole \/ overlapped
    BY DEF RootInv, RootTypeOK, AloneWrites, Pointed
  <2>3. Pointed.whole => root[Pointed.root].there
    BY <2>1 DEF RootInv, FilesLead, Pointed
  <2>4. \A o \in Requests : op[o].pc = "done" => op[o].due \subseteq root[op[o].target].data
    BY DEF RootInv, DuesKept, Pointing
  <2> QED
    BY <2>2, <2>3, <2>4 DEF PointerIsSound
<1> QED
  BY InitRootInv, RootStep, <1>1, PTL DEF RootSpec

\* The roots, the pointer and the requests for the data are of their types
\* (data_root.rs).
THEOREM RootTypeCorrect == RootSpec => []RootTypeOK
<1>1. RootInv => RootTypeOK
  BY DEF RootInv
<1> QED
  BY <1>1, InitRootInv, RootStep, PTL DEF RootSpec

-----------------------------------------------------------------------------
(***************************************************************************)
(* The background jobs.  What is shown of a slot, and its token, are       *)
(* written by whoever starts or ends there, whosever they are: a job keeps *)
(* its own only because nobody else of the slot is under way, which is     *)
(* what `crossed` leaves out (LoneStarts, LoneJobs).  That quant has no    *)
(* more workers than Limit rests on what a start saw when it looked, which *)
(* still bounds the others when it is spawned (QuantRoom).                 *)
(***************************************************************************)
AtWork(j) == task[j].pc = "working"
Alive(j) == start[j] \in Starting \/ AtWork(j)
Holds(j) == start[j] \in {"claimed", "persisted"} \/ AtWork(j)

\* A start that crossed nothing is the only one.
LoneStarts ==
  \A i, j \in Jobs : i # j /\ start[j] \in Starting /\ j \notin crossed => start[i] \notin Starting

\* Where jobs share a slot, nobody else starts, works or ends meanwhile.
LoneJobs ==
  service # "quant" =>
    \A i, j \in Jobs : i # j /\ Alive(j) /\ j \notin crossed =>
      start[i] \notin Starting /\ task[i].pc \notin {"working", "ending"}

\* A job that has claimed its slot is shown there, with its token.
HoldersShown ==
  \A j \in Jobs : Holds(j) /\ (service = "keyed" => j \notin crossed) =>
    shown[Slot(j)] = [job |-> j, status |-> "running"]

TokensHeld ==
  \A j \in Jobs : IF service = "quant" THEN Holds(j) => token[Slot(j)] = j
                  ELSE AtWork(j) /\ j \notin crossed => token[Slot(j)] = j

\* A scan starts and ends at once.
ScanAtOnce ==
  service = "scan" =>
    crossed = {} /\ \A j \in Jobs : start[j] \notin Starting /\ task[j].pc # "ending"

RunningSlots == {s \in Slots : shown[s].status = "running"}
QuantRoom ==
  service = "quant" =>
    /\ \A j \in Jobs : start[j] \in Starting /\ j \notin crossed =>
         Cardinality(RunningSlots \ {j}) < Limit
    /\ Cardinality(Working \ crossed) <= Limit

JobsInv ==
  JobsTypeOK /\ LoneStarts /\ LoneJobs /\ HoldersShown /\ TokensHeld /\ ScanAtOnce /\ QuantRoom

LEMMA SlotFacts ==
  ASSUME service' = service
  PROVE  \A j \in Jobs : /\ Slot(j) \in Slots /\ Slot(j)' = Slot(j)
                         /\ service = "quant" => Slot(j) = j
                         /\ service # "quant" => \A i \in Jobs : Slot(i) = Slot(j)
<1>1. ASSUME NEW j \in Jobs PROVE (CHOOSE s \in Slots : TRUE) \in Slots
  BY DEF Slots
<1> QED
  BY <1>1 DEF Slot, Slots

\* Changing a field of a task or an entry keeps its type.
LEMMA TaskType ==
  ASSUME NEW r \in Task, NEW pc \in {"none", "working", "ending", "saving", "ended"}
  PROVE  [r EXCEPT !.pc = pc] \in Task /\ [r EXCEPT !.pc = pc].pc = pc
BY DEF Task

LEMMA EntryType ==
  ASSUME NEW r \in Entry, NEW status \in Status
  PROVE  [r EXCEPT !.status = status] \in Entry /\ [r EXCEPT !.status = status].status = status
BY DEF Entry

\* Where no start is new that crossed nothing, no slot newly shows a running
\* job and no job is newly at work, there is still room.
LEMMA RoomKept ==
  ASSUME QuantRoom, service' = service,
         \A j \in Jobs : start'[j] \in Starting /\ j \notin crossed' =>
           start[j] \in Starting /\ j \notin crossed /\ RunningSlots' \ {j} \subseteq RunningSlots \ {j},
         Working' \ crossed' \subseteq Working \ crossed
  PROVE  QuantRoom'
<1> SUFFICES ASSUME service = "quant"
             PROVE  /\ \A j \in Jobs : start'[j] \in Starting /\ j \notin crossed' =>
                         Cardinality(RunningSlots' \ {j}) < Limit
                    /\ Cardinality(Working' \ crossed') <= Limit
  BY DEF QuantRoom
<1>1. IsFiniteSet(RunningSlots) /\ IsFiniteSet(Working)
  BY JobsAssumption, FS_Subset DEF RunningSlots, Working, Slots
<1>2. Cardinality(Working' \ crossed') <= Cardinality(Working \ crossed)
  BY <1>1, FS_Subset
<1>3. Cardinality(Working \ crossed) \in Nat /\ Cardinality(Working' \ crossed') \in Nat
  BY <1>1, FS_Subset, FS_CardinalityType
<1>4. ASSUME NEW j \in Jobs, start'[j] \in Starting, j \notin crossed'
      PROVE  Cardinality(RunningSlots' \ {j}) < Limit
  <2>1. IsFiniteSet(RunningSlots \ {j})
    BY <1>1, FS_Subset
  <2>2. IsFiniteSet(RunningSlots' \ {j})
        /\ Cardinality(RunningSlots' \ {j}) <= Cardinality(RunningSlots \ {j})
    BY <1>4, <2>1, FS_Subset
  <2>3. Cardinality(RunningSlots \ {j}) \in Nat /\ Cardinality(RunningSlots' \ {j}) \in Nat
    BY <2>1, <2>2, FS_CardinalityType
  <2> QED
    BY <1>4, <2>2, <2>3, JobsAssumption DEF QuantRoom
<1> QED
  BY <1>2, <1>3, <1>4, JobsAssumption DEF QuantRoom

LEMMA InitJobsInv == JobsInit => JobsInv
<1> SUFFICES ASSUME JobsInit PROVE JobsInv
  OBVIOUS
<1> USE DEF JobsInit, NothingShown, None
<1>1. JobsTypeOK
  BY DEF JobsTypeOK, Starts, Starting, Task, Status, Outcome, Entry, Slots
<1>2. \A j \in Jobs : ~Alive(j) /\ ~Holds(j) /\ start[j] \notin Starting /\ task[j].pc = "none"
  BY DEF Alive, Holds, AtWork, Starting
<1>3. LoneStarts /\ LoneJobs /\ HoldersShown /\ TokensHeld /\ ScanAtOnce
  BY <1>2 DEF LoneStarts, LoneJobs, HoldersShown, TokensHeld, ScanAtOnce, AtWork
<1>4. Working = {}
  BY <1>2 DEF Working
<1>5. QuantRoom
  BY <1>2, <1>4, FS_EmptySet, JobsAssumption DEF QuantRoom
<1> QED
  BY <1>1, <1>3, <1>5 DEF JobsInv

\* Where a slot is shared, one that finds nothing running and no rival is alone.
LEMMA NobodyThere ==
  ASSUME JobsInv, service # "quant", NEW j \in Jobs, ~Busy(j), Rivals(j) = {}
  PROVE  \A i \in Jobs \ {j} : start[i] \notin Starting /\ task[i].pc \notin {"working", "ending"}
<1> SUFFICES ASSUME NEW i \in Jobs \ {j}
             PROVE  start[i] \notin Starting /\ task[i].pc \notin {"working", "ending"}
  OBVIOUS
<1>1. Slot(i) = Slot(j)
  BY DEF Slot
<1>2. start[i] \notin Starting /\ task[i].pc # "ending" /\ (task[i].pc = "working" => i \notin crossed)
  BY <1>1 DEF Rivals
<1>3. ASSUME task[i].pc = "working" PROVE FALSE
  <2>1. i \in Jobs /\ Holds(i) /\ i \notin crossed
    BY <1>2, <1>3 DEF Holds, AtWork
  <2>2. shown[Slot(i)] = [job |-> i, status |-> "running"]
    BY <2>1 DEF JobsInv, HoldersShown
  <2>3. shown[Slot(j)].status = "running"
    BY <1>1, <2>2
  <2> QED
    BY <2>3 DEF Busy
<1> QED
  BY <1>2, <1>3

LEMMA ScanHasNoRivals ==
  ASSUME JobsInv, service = "scan", NEW j \in Jobs
  PROVE  Rivals(j) = {}
BY DEF JobsInv, ScanAtOnce, Rivals

\* A start that found nothing running and crossed nothing is alone, and does not
\* disturb one that is.
LEMMA StartsAlone ==
  ASSUME JobsInv, NEW j \in Jobs, start[j] = "unborn", ~Busy(j), Crossing(j),
         NEW step \in Starting, Goes(j, step), service' = service, task' = task
  PROVE  LoneJobs'
<1> USE DEF JobsInv, Goes
<1> SUFFICES ASSUME service # "quant", NEW h \in Jobs, NEW i \in Jobs, i # h,
                    Alive(h)', h \notin crossed'
             PROVE  start'[i] \notin Starting /\ task[i].pc \notin {"working", "ending"}
  BY DEF LoneJobs
<1>1. CASE Rivals(j) = {}
  <2>1. \A k \in Jobs \ {j} : start[k] \notin Starting /\ task[k].pc \notin {"working", "ending"}
    BY <1>1, NobodyThere
  <2>2. task[j].pc = "none" /\ \A k \in Jobs \ {j} : start'[k] = start[k]
    BY DEF JobsTypeOK
  <2> QED
    BY <2>1, <2>2 DEF Alive, AtWork
<1>2. CASE Rivals(j) # {}
  <2>1. h # j /\ h \notin Rivals(j) /\ h \notin crossed
    BY <1>2 DEF Crossing
  <2>2. Alive(h)
    BY <2>1 DEF Alive, AtWork, JobsTypeOK
  <2>3. start[h] \notin Starting
    BY <2>1 DEF Rivals
  <2>4. task[h].pc = "working"
    BY <2>2, <2>3 DEF Alive, AtWork
  <2>5. shown[Slot(h)] = [job |-> h, status |-> "running"]
    BY <2>1, <2>4 DEF HoldersShown, Holds, AtWork
  <2>6. shown[Slot(j)].status = "running"
    BY <2>5 DEF Slot
  <2> QED
    BY <2>6 DEF Busy
<1> QED
  BY <1>1, <1>2

LEMMA RefuseJobsInv ==
  ASSUME JobsInv, NEW j \in Jobs, Refuse(j)
  PROVE  JobsInv'
<1> USE JobsAssumption DEF JobsInv, Refuse, First, Goes
<1>0. service' = service /\ \A i \in Jobs : i \in Slots
  BY DEF Slots
<1>1. JobsTypeOK'
  BY DEF JobsTypeOK, Starts
<1>2. LoneStarts'
  BY DEF LoneStarts, Starting
<1>3. LoneJobs'
  BY DEF LoneJobs, AtWork, Alive, Starting
<1>4. HoldersShown'
  BY SlotFacts DEF HoldersShown, AtWork, Holds
<1>5. TokensHeld'
  BY SlotFacts DEF JobsTypeOK, TokensHeld, AtWork, Holds
<1>6. ScanAtOnce'
  BY DEF ScanAtOnce, Starting
<1>7. QuantRoom'
  BY DEF QuantRoom, RunningSlots, Working, Starting
<1> QED
  BY <1>1, <1>2, <1>3, <1>4, <1>5, <1>6, <1>7

LEMMA StartScanJobsInv ==
  ASSUME JobsInv, NEW j \in Jobs, StartScan(j)
  PROVE  JobsInv'
<1> USE JobsAssumption DEF JobsInv, StartScan, First, Goes
<1>0. service' = service /\ \A i \in Jobs : i \in Slots
  BY DEF Slots
<1>1. JobsTypeOK'
  BY SlotFacts
     DEF JobsTypeOK, LoneStarts, LoneJobs, ScanAtOnce, AtWork, Alive, Holds, Starting,
       Busy, Shown, Registered, Works, None, Task, Starts, Entry, Status, Outcome
<1>2. LoneStarts'
  BY DEF LoneStarts, Starting
<1>3. LoneJobs'
  BY NobodyThere, ScanHasNoRivals DEF LoneJobs, Alive, AtWork, Works
<1>4. HoldersShown'
  BY SlotFacts DEF JobsTypeOK, HoldersShown, AtWork, Holds, Busy, Shown, Works
<1>5. TokensHeld'
  BY SlotFacts, NobodyThere, ScanHasNoRivals
     DEF JobsTypeOK, TokensHeld, AtWork, Works, Registered
<1>6. ScanAtOnce'
  BY DEF ScanAtOnce, Starting, Works
<1>7. QuantRoom'
  BY DEF QuantRoom
<1> QED
  BY <1>1, <1>2, <1>3, <1>4, <1>5, <1>6, <1>7

LEMMA ClaimJobsInv ==
  ASSUME JobsInv, NEW j \in Jobs, Claim(j)
  PROVE  JobsInv'
<1> USE JobsAssumption DEF JobsInv, Claim, First, Goes
<1>0. service' = service /\ \A i \in Jobs : i \in Slots
  BY DEF Slots
<1>1. JobsTypeOK'
  BY DEF JobsTypeOK, Starting, Crossing, Rivals, Shown, Starts, Entry, Status
<1>2. LoneStarts'
  BY DEF LoneStarts, Crossing, Rivals
<1>3. LoneJobs'
  BY StartsAlone DEF Starting
<1>4. HoldersShown'
  BY SlotFacts DEF JobsTypeOK, HoldersShown, AtWork, Holds, Busy, Shown
<1>5. TokensHeld'
  BY SlotFacts DEF TokensHeld, AtWork, Crossing
<1>6. ScanAtOnce'
  BY DEF ScanAtOnce
<1>7. QuantRoom'
  BY DEF QuantRoom
<1> QED
  BY <1>1, <1>2, <1>3, <1>4, <1>5, <1>6, <1>7

LEMMA LookJobsInv ==
  ASSUME JobsInv, NEW j \in Jobs, Look(j)
  PROVE  JobsInv'
<1> USE JobsAssumption DEF JobsInv, Look, First, Goes
<1>0. service' = service /\ \A i \in Jobs : i \in Slots
  BY DEF Slots
<1>1. JobsTypeOK'
  BY DEF JobsTypeOK, Starting, Crossing, Rivals, Starts
<1>2. LoneStarts'
  BY DEF LoneStarts, Crossing, Rivals
<1>3. LoneJobs'
  BY StartsAlone DEF Starting
<1>4. HoldersShown'
  BY SlotFacts DEF HoldersShown, AtWork, Holds, Crossing
<1>5. TokensHeld'
  <2>1. UNCHANGED <<service, task, token>> /\ crossed \subseteq crossed'
    BY DEF Crossing
  <2>2. start \in [Jobs -> Starts] /\ start' = [start EXCEPT ![j] = "looked"]
    BY DEF JobsTypeOK
  <2>3. \A i \in Jobs : /\ Slot(i)' = Slot(i) /\ AtWork(i)' = AtWork(i) /\ (Holds(i)' => Holds(i))
    BY <2>1, <2>2, SlotFacts DEF AtWork, Holds
  <2>4. TokensHeld
    OBVIOUS
  <2> QED
    BY <2>1, <2>3, <2>4 DEF TokensHeld
<1>6. ScanAtOnce'
  BY DEF ScanAtOnce
<1>7. QuantRoom'
  <2> SUFFICES ASSUME service = "quant" PROVE QuantRoom'
    BY <1>0 DEF QuantRoom
  <2>1. Cardinality(RunningSlots) < Limit /\ IsFiniteSet(RunningSlots)
    BY FS_Subset, FS_CardinalityType DEF Busy, RunningSlots, Slots
  <2>2. RunningSlots' = RunningSlots /\ Working' = Working /\ crossed \subseteq crossed'
    BY DEF RunningSlots, Working, Crossing, Slots
  <2>3. \A i \in Jobs : Cardinality(RunningSlots \ {i}) < Limit
    BY <2>1, FS_Subset, FS_CardinalityType
  <2>4. Cardinality(Working \ crossed') <= Limit
    BY <2>2, FS_Subset, FS_CardinalityType DEF QuantRoom, Working
  <2> QED
    BY <2>2, <2>3, <2>4 DEF QuantRoom
<1> QED
  BY <1>1, <1>2, <1>3, <1>4, <1>5, <1>6, <1>7

LEMMA ClearShownJobsInv ==
  ASSUME JobsInv, NEW j \in Jobs, ClearShown(j)
  PROVE  JobsInv'
<1> USE JobsAssumption DEF JobsInv, ClearShown, First, Goes
<1>0. service' = service /\ \A i \in Jobs : i \in Slots
  BY DEF Slots
<1>1. JobsTypeOK'
  BY DEF JobsTypeOK, Starting, NothingShown, Starts, Entry, Status
<1>2. LoneStarts'
  BY DEF LoneStarts, Starting
<1>3. LoneJobs'
  BY DEF LoneJobs, HoldersShown, AtWork, Alive, Starting
<1>4. HoldersShown'
  BY DEF JobsTypeOK, LoneJobs, HoldersShown, AtWork, Alive, Holds, Starting
<1>5. TokensHeld'
  BY SlotFacts DEF TokensHeld, AtWork
<1>6. ScanAtOnce'
  BY DEF ScanAtOnce
<1>7. QuantRoom'
  BY DEF QuantRoom
<1> QED
  BY <1>1, <1>2, <1>3, <1>4, <1>5, <1>6, <1>7

LEMMA ClearTokenJobsInv ==
  ASSUME JobsInv, NEW j \in Jobs, ClearToken(j)
  PROVE  JobsInv'
<1> USE JobsAssumption DEF JobsInv, ClearToken, First, Goes
<1>0. service' = service /\ \A i \in Jobs : i \in Slots
  BY DEF Slots
<1>1. JobsTypeOK'
  BY DEF JobsTypeOK, Starting, Starts
<1>2. LoneStarts'
  BY DEF LoneStarts, Starting
<1>3. LoneJobs'
  BY DEF LoneJobs, AtWork, Alive, Holds, Starting
<1>4. HoldersShown'
  BY <1>0, SlotFacts DEF HoldersShown, AtWork, Holds
<1>5. TokensHeld'
  BY SlotFacts DEF JobsTypeOK, LoneJobs, TokensHeld, AtWork, Alive, Holds, Starting
<1>6. ScanAtOnce'
  BY DEF ScanAtOnce, Starting
<1>7. QuantRoom'
  BY DEF QuantRoom, RunningSlots, Working, Starting
<1> QED
  BY <1>1, <1>2, <1>3, <1>4, <1>5, <1>6, <1>7

LEMMA InsertJobsInv ==
  ASSUME JobsInv, NEW j \in Jobs, Insert(j)
  PROVE  JobsInv'
<1> USE JobsAssumption DEF JobsInv, Insert, First, Goes
<1>0. service' = service /\ \A i \in Jobs : i \in Slots
  BY DEF Slots
<1>1. JobsTypeOK'
  BY DEF JobsTypeOK, Starting, Shown, Registered, Starts, Entry, Status
<1>2. LoneStarts'
  BY DEF LoneStarts, Holds, Starting
<1>3. LoneJobs'
  BY DEF LoneJobs, HoldersShown, AtWork, Alive, Starting
<1>4. HoldersShown'
  BY SlotFacts DEF JobsTypeOK, LoneJobs, HoldersShown, AtWork, Alive, Holds, Starting, Shown
<1>5. TokensHeld'
  BY SlotFacts DEF JobsTypeOK, TokensHeld, AtWork, Holds, Registered
<1>6. ScanAtOnce'
  BY DEF ScanAtOnce
<1>7. QuantRoom'
  BY SlotFacts DEF LoneStarts, QuantRoom, RunningSlots, Working, Starting, Shown
<1> QED
  BY <1>1, <1>2, <1>3, <1>4, <1>5, <1>6, <1>7

LEMMA PersistJobsInv ==
  ASSUME JobsInv, NEW j \in Jobs, Persist(j)
  PROVE  JobsInv'
<1> USE JobsAssumption DEF JobsInv, Persist, First, Goes
<1>0. service' = service /\ \A i \in Jobs : i \in Slots
  BY DEF Slots
<1>1. JobsTypeOK'
  BY DEF JobsTypeOK, Starting, WritesRow, Starts, Status
<1>2. LoneStarts'
  BY DEF LoneStarts, Starting
<1>3. LoneJobs'
  BY DEF LoneJobs, AtWork, Alive, Starting
<1>4. HoldersShown'
  BY SlotFacts DEF JobsTypeOK, HoldersShown, AtWork, Holds
<1>5. TokensHeld'
  BY SlotFacts DEF JobsTypeOK, TokensHeld, AtWork, Holds
<1>6. ScanAtOnce'
  BY DEF ScanAtOnce, Starting
<1>7. QuantRoom'
  BY DEF QuantRoom, RunningSlots, Working, Starting
<1> QED
  BY <1>1, <1>2, <1>3, <1>4, <1>5, <1>6, <1>7

LEMMA AbandonJobsInv ==
  ASSUME JobsInv, NEW j \in Jobs, Abandon(j)
  PROVE  JobsInv'
<1> USE JobsAssumption DEF JobsInv, Abandon, First, Goes
<1>0. service' = service /\ \A i \in Jobs : i \in Slots
  BY DEF Slots
<1>1. JobsTypeOK'
  BY DEF JobsTypeOK, WritesRow, Starts, Status
<1>2. LoneStarts'
  BY DEF LoneStarts, Starting
<1>3. LoneJobs'
  BY DEF LoneJobs, ScanAtOnce, AtWork, Alive, Starting
<1>4. HoldersShown'
  BY <1>0, SlotFacts DEF HoldersShown, AtWork, Holds
<1>5. TokensHeld'
  BY SlotFacts DEF JobsTypeOK, TokensHeld, AtWork, Holds
<1>6. ScanAtOnce'
  BY DEF ScanAtOnce, Starting
<1>7. QuantRoom'
  BY DEF QuantRoom, RunningSlots, Working, Starting
<1> QED
  BY <1>1, <1>2, <1>3, <1>4, <1>5, <1>6, <1>7

LEMMA SpawnJobJobsInv ==
  ASSUME JobsInv, NEW j \in Jobs, SpawnJob(j)
  PROVE  JobsInv'
<1> USE JobsAssumption DEF JobsInv, SpawnJob, First, Goes
<1>0. service' = service /\ \A i \in Jobs : i \in Slots
  BY DEF Slots
<1>1. JobsTypeOK'
  <2>1. task' \in [Jobs -> Task]
    BY TaskType DEF JobsTypeOK, Works
  <2>2. \A i \in Jobs : task'[i].pc # "none" => start'[i] = "spawned"
    BY TaskType DEF JobsTypeOK, Works, Starts
  <2> QED
    BY <1>0, <2>1, <2>2, SlotFacts DEF JobsTypeOK, Starts, Registered
<1>2. LoneStarts'
  BY DEF LoneStarts, Starting
<1>3. LoneJobs'
  BY DEF LoneJobs, AtWork, Alive, Starting, Works
<1>4. HoldersShown'
  BY SlotFacts DEF HoldersShown, AtWork, Holds, Works
<1>5. TokensHeld'
  BY SlotFacts
     DEF JobsTypeOK, LoneJobs, TokensHeld, AtWork, Alive, Holds, Starting, Registered, Works
<1>6. ScanAtOnce'
  BY DEF ScanAtOnce, Starting
<1>7. QuantRoom'
  <2> SUFFICES ASSUME service = "quant" PROVE QuantRoom'
    BY <1>0 DEF QuantRoom
  <2>1. RunningSlots' = RunningSlots /\ \A i \in Jobs : start'[i] \in Starting => start[i] \in Starting
    BY DEF RunningSlots, Slots, JobsTypeOK, Starting
  <2>2. IsFiniteSet(Working) /\ Working' = Working \cup {j}
    BY FS_Subset DEF Working, JobsTypeOK, Works, Task
  <2>3. Cardinality(Working' \ crossed) <= Limit
    <3>1. CASE j \in crossed
      BY <2>2, <3>1 DEF QuantRoom
    <3>2. CASE j \notin crossed
      <4>1. Cardinality(RunningSlots \ {j}) < Limit
        BY <3>2 DEF QuantRoom, Starting, Stores
      <4>2. (Working \ crossed) \ {j} \subseteq RunningSlots \ {j} /\ IsFiniteSet(RunningSlots \ {j})
        <5>1. IsFiniteSet(RunningSlots \ {j})
          BY FS_Subset DEF RunningSlots, Slots
        <5>2. ASSUME NEW i \in (Working \ crossed) \ {j} PROVE i \in RunningSlots
          <6>1. i \in Jobs /\ Holds(i)
            BY DEF Working, Holds, AtWork
          <6>2. shown[i] = [job |-> i, status |-> "running"]
            BY <6>1, <1>0, SlotFacts DEF HoldersShown
          <6> QED
            BY <6>1, <6>2 DEF RunningSlots, Slots
        <5> QED
          BY <5>1, <5>2
      <4>3. Cardinality((Working \ crossed) \ {j}) < Limit /\ IsFiniteSet((Working \ crossed) \ {j})
        BY <4>1, <4>2, FS_Subset, FS_CardinalityType
      <4>4. Working' \ crossed = ((Working \ crossed) \ {j}) \cup {j}
        BY <2>2, <3>2
      <4> DEFINE W == (Working \ crossed) \ {j}
      <4> HIDE DEF W
      <4>5. IsFiniteSet(W) /\ Cardinality(W) \in Nat /\ Cardinality(W) < Limit /\ j \notin W
        BY <4>3, FS_CardinalityType DEF W
      <4>6. Cardinality(W \cup {j}) = Cardinality(W) + 1
        BY <4>5, FS_AddElement
      <4>7. Working' \ crossed = W \cup {j}
        BY <4>4 DEF W
      <4> QED
        BY <4>5, <4>6, <4>7
    <3> QED
      BY <3>1, <3>2
  <2> QED
    BY <2>1, <2>3 DEF QuantRoom
<1> QED
  BY <1>1, <1>2, <1>3, <1>4, <1>5, <1>6, <1>7

LEMMA EndJobsInv ==
  ASSUME JobsInv, NEW j \in Jobs, NEW o \in Outcome, End(j, o)
  PROVE  JobsInv'
<1> USE JobsAssumption DEF JobsInv, End, First, Goes
<1>0. service' = service /\ \A i \in Jobs : i \in Slots
  BY DEF Slots
<1>1. JobsTypeOK'
  BY SlotFacts
     DEF JobsTypeOK, Starting, Settled, NothingShown, None, Task, Outcomes, Starts, Entry,
       Status
<1>2. LoneStarts'
  BY DEF LoneStarts
<1>3. LoneJobs'
  BY DEF LoneJobs, AtWork, Alive
<1>4. HoldersShown'
  <2> SUFFICES ASSUME NEW i \in Jobs, Holds(i)', service = "keyed" => i \notin crossed
               PROVE  shown'[Slot(i)] = [job |-> i, status |-> "running"]
    BY <1>0, SlotFacts DEF HoldersShown
  <2>1. Holds(i) /\ i # j
    BY DEF Holds, AtWork, JobsTypeOK
  <2>2. Alive(i) /\ task[j].pc = "working"
    BY <2>1 DEF Holds, Alive, Starting
  <2>3. CASE service = "quant"
    <3>1. Slot(i) = i /\ Slot(j) = j /\ shown'[i] = shown[i]
      BY <1>0, <2>1, <2>3, SlotFacts DEF Settled, JobsTypeOK
    <3> QED
      BY <2>1, <2>3, <3>1 DEF HoldersShown
  <2>4. CASE service # "quant"
    <3>1. i \in crossed
      BY <2>1, <2>2, <2>4 DEF LoneJobs
    <3>2. shown[Slot(i)] = [job |-> i, status |-> "running"] /\ Holds(j)
      BY <2>1, <2>2 DEF HoldersShown, Holds, AtWork
    <3>3. shown[Slot(j)] = [job |-> j, status |-> "running"]
      BY <3>1, <3>2 DEF HoldersShown
    <3>4. Slot(i) = Slot(j)
      BY <1>0, <2>4, SlotFacts
    <3>5. [job |-> i, status |-> "running"].job = i /\ [job |-> j, status |-> "running"].job = j
      OBVIOUS
    <3> QED
      BY <2>1, <3>2, <3>3, <3>4, <3>5
  <2> QED
    BY <2>3, <2>4
<1>5. TokensHeld'
  BY SlotFacts DEF JobsTypeOK, ScanAtOnce, TokensHeld, AtWork, Holds
<1>6. ScanAtOnce'
  BY DEF ScanAtOnce
<1>7. QuantRoom'
  BY RoomKept DEF RunningSlots, Working, Settled, Outcomes
<1> QED
  BY <1>1, <1>2, <1>3, <1>4, <1>5, <1>6, <1>7

LEMMA WithdrawJobsInv ==
  ASSUME JobsInv, NEW j \in Jobs, Withdraw(j)
  PROVE  JobsInv'
<1> USE JobsAssumption DEF JobsInv, Withdraw, First, Goes
<1>0. service' = service /\ \A i \in Jobs : i \in Slots
  BY DEF Slots
<1>1. JobsTypeOK'
  <2>1. task' \in [Jobs -> Task] /\ \A i \in Jobs : task'[i].pc # "none" => task[i].pc # "none"
    BY TaskType DEF JobsTypeOK
  <2> QED
    BY <1>0, <2>1, SlotFacts DEF JobsTypeOK
<1>2. LoneStarts'
  BY DEF LoneStarts
<1>3. LoneJobs'
  BY DEF LoneJobs, AtWork, Alive
<1>4. HoldersShown'
  BY SlotFacts DEF HoldersShown, AtWork, Holds
<1>5. TokensHeld'
  BY SlotFacts DEF JobsTypeOK, LoneJobs, TokensHeld, AtWork, Alive, Holds
<1>6. ScanAtOnce'
  BY DEF ScanAtOnce
<1>7. QuantRoom'
  BY RoomKept DEF RunningSlots, Working
<1> QED
  BY <1>1, <1>2, <1>3, <1>4, <1>5, <1>6, <1>7

LEMMA SaveOutcomeJobsInv ==
  ASSUME JobsInv, NEW j \in Jobs, SaveOutcome(j)
  PROVE  JobsInv'
<1> USE JobsAssumption DEF JobsInv, SaveOutcome, First, Goes
<1>0. service' = service /\ \A i \in Jobs : i \in Slots
  BY DEF Slots
<1>1. JobsTypeOK'
  <2>1. task' \in [Jobs -> Task] /\ \A i \in Jobs : task'[i].pc # "none" => task[i].pc # "none"
    BY TaskType DEF JobsTypeOK
  <2>2. task[j].outcome \in Status
    BY DEF JobsTypeOK, Task, Status
  <2> QED
    BY <1>0, <2>1, <2>2 DEF JobsTypeOK, WritesRow
<1>2. LoneStarts'
  BY DEF LoneStarts
<1>3. LoneJobs'
  BY DEF LoneJobs, AtWork, Alive
<1>4. HoldersShown'
  BY SlotFacts DEF HoldersShown, AtWork, Holds
<1>5. TokensHeld'
  BY SlotFacts DEF TokensHeld, AtWork, Holds
<1>6. ScanAtOnce'
  BY DEF ScanAtOnce
<1>7. QuantRoom'
  BY RoomKept DEF RunningSlots, Working
<1> QED
  BY <1>1, <1>2, <1>3, <1>4, <1>5, <1>6, <1>7

\* A step that changes nothing but the tokens cancelled and the requests for it.
LEMMA Untouched ==
  ASSUME JobsInv, stop' \subseteq Jobs, cancelling' \in Slots \cup {None},
         UNCHANGED <<service, start, task, shown, token, row, newest, crossed>>
  PROVE  JobsInv'
<1> USE DEF JobsInv
<1>0. service' = service
  OBVIOUS
<1>1. JobsTypeOK'
  BY DEF JobsTypeOK
<1>2. LoneStarts' /\ LoneJobs'
  BY DEF LoneStarts, LoneJobs, Alive, AtWork
<1>3. HoldersShown' /\ TokensHeld'
  BY <1>0, SlotFacts DEF HoldersShown, TokensHeld, Holds, AtWork
<1>4. ScanAtOnce'
  BY DEF ScanAtOnce
<1>5. QuantRoom'
  BY DEF QuantRoom, RunningSlots, Working
<1> QED
  BY <1>1, <1>2, <1>3, <1>4, <1>5

LEMMA CancelJobsInv ==
  ASSUME JobsInv, NEW s \in Slots, CancelLook(s) \/ CancelToken(s)
  PROVE  JobsInv'
<1>1. CASE CancelLook(s)
  BY <1>1, Untouched DEF CancelLook, JobsInv, JobsTypeOK
<1>2. CASE CancelToken(s)
  BY <1>2, Untouched DEF CancelToken, JobsInv, JobsTypeOK
<1> QED
  BY <1>1, <1>2

\* After a restart nothing starts or works.
LEMMA RestartJobsInv ==
  ASSUME JobsInv, Restart
  PROVE  JobsInv'
<1> USE DEF JobsInv, Restart
<1>0. service' = service
  OBVIOUS
<1>1. \A j \in Jobs : start'[j] \in Starts \ Starting /\ task'[j].pc = "none"
  BY DEF JobsTypeOK, Starts, Starting
<1>2. \A j \in Jobs : AfterRestart(row[j]) \in Status
  BY DEF JobsTypeOK, AfterRestart, Status
<1>3. shown' \in [Slots -> Entry]
  <2>1. NothingShown \in Entry
    BY DEF NothingShown, Entry, Status
  <2>2. ASSUME NEW s \in Slots, \E j \in Jobs : Restored(j) /\ Slot(j) = s
        PROVE  LET j == CHOOSE j \in Jobs : Restored(j) /\ Slot(j) = s
               IN [job |-> j, status |-> AfterRestart(row[j])] \in Entry
    <3> DEFINE j == CHOOSE j \in Jobs : Restored(j) /\ Slot(j) = s
    <3>1. j \in Jobs
      BY <2>2
    <3> HIDE DEF j
    <3>2. [job |-> j, status |-> AfterRestart(row[j])] \in Entry
      BY <3>1, <1>2 DEF Entry
    <3> QED
      BY <3>2 DEF j
  <2> QED
    BY <2>1, <2>2
<1>4. task' \in [Jobs -> Task]
  BY DEF Task
<1>5. row' \in [Jobs -> Status]
  BY <1>2 DEF JobsTypeOK
<1>6. start' \in [Jobs -> Starts]
  BY <1>1
<1>7. JobsTypeOK'
  BY <1>1, <1>3, <1>4, <1>5, <1>6 DEF JobsTypeOK
<1>8. \A j \in Jobs : ~Alive(j)' /\ ~Holds(j)'
  BY <1>1 DEF Alive, Holds, AtWork, Starting
<1>9. LoneStarts' /\ LoneJobs' /\ HoldersShown' /\ TokensHeld'
  BY <1>1, <1>8 DEF LoneStarts, LoneJobs, HoldersShown, TokensHeld, AtWork
<1>10. ScanAtOnce'
  BY <1>1 DEF ScanAtOnce
<1>11. Working' = {}
  BY <1>1 DEF Working
<1>12. QuantRoom'
  BY <1>1, <1>11, FS_EmptySet, JobsAssumption DEF QuantRoom
<1> QED
  BY <1>7, <1>9, <1>10, <1>12

LEMMA JobsStep == JobsInv /\ [JobsNext]_jobVars => JobsInv'
<1> SUFFICES ASSUME JobsInv, [JobsNext]_jobVars PROVE JobsInv'
  OBVIOUS
<1>1. ASSUME NEW j \in Jobs, Refuse(j) \/ StartScan(j) \/ Claim(j) \/ Look(j)
      PROVE  JobsInv'
  BY <1>1, RefuseJobsInv, StartScanJobsInv, ClaimJobsInv, LookJobsInv
<1>2. ASSUME NEW j \in Jobs, StartStep(j)
      PROVE  JobsInv'
  BY <1>2, ClearShownJobsInv, ClearTokenJobsInv, InsertJobsInv, PersistJobsInv,
     AbandonJobsInv, SpawnJobJobsInv DEF StartStep
<1>3. ASSUME NEW j \in Jobs, JobStep(j)
      PROVE  JobsInv'
  BY <1>3, EndJobsInv, WithdrawJobsInv, SaveOutcomeJobsInv DEF JobStep
<1>4. CASE UNCHANGED jobVars
  BY <1>4, Untouched DEF jobVars, JobsInv, JobsTypeOK
<1> QED
  BY <1>1, <1>2, <1>3, <1>4, CancelJobsInv, RestartJobsInv DEF JobsNext

\* In every behaviour of the job services, a slot has one worker, quant has at
\* most Limit, and a job at work that crossed no other is shown as running with
\* its token there to be cancelled.
THEOREM JobsWorkersAccounted == JobsSpec => []WorkersAccounted
<1>1. JobsInv => WorkersAccounted
  <2> SUFFICES ASSUME JobsInv PROVE WorkersAccounted
    OBVIOUS
  <2> USE DEF JobsInv
  <2>1. \A j \in Working : j \in Jobs /\ Holds(j) /\ Alive(j) /\ AtWork(j)
    BY DEF Working, Holds, Alive, AtWork
  <2>2. ASSUME NEW i \in Working, NEW j \in Working, i # j, Slot(i) = Slot(j)
        PROVE  service = "keyed" /\ {i, j} \subseteq crossed
    <3>1. service # "quant"
      BY <2>1, <2>2 DEF Slot
    <3>2. i \in crossed /\ j \in crossed
      BY <2>1, <2>2, <3>1 DEF LoneJobs, AtWork
    <3>3. [job |-> i, status |-> "running"].job = i /\ [job |-> j, status |-> "running"].job = j
      OBVIOUS
    <3>4. service = "keyed"
      BY <2>1, <2>2, <3>3 DEF HoldersShown
    <3> QED
      BY <3>2, <3>4
  <2>3. service = "quant" => Cardinality(Working \ crossed) <= Limit
    BY DEF QuantRoom
  <2>4. \A j \in Working \ crossed :
          shown[Slot(j)] = [job |-> j, status |-> "running"] /\ token[Slot(j)] = j
    BY <2>1 DEF HoldersShown, TokensHeld
  <2> QED
    BY <2>2, <2>3, <2>4 DEF WorkersAccounted
<1> QED
  BY InitJobsInv, JobsStep, <1>1, PTL DEF JobsSpec

\* What is registered, shown and stored of a job is of its types (commands.rs,
\* quant_jobs.rs).
THEOREM JobsTypeCorrect == JobsSpec => []JobsTypeOK
<1>1. JobsInv => JobsTypeOK
  BY DEF JobsInv
<1> QED
  BY <1>1, InitJobsInv, JobsStep, PTL DEF JobsSpec

-----------------------------------------------------------------------------
\* The news.  What is said of a source holds of every part that matters here.
NewsPage == [answered : BOOLEAN, items : Seq(Int), next : Int]
NewsPc ==
  {"idle", "setting", "apply", "check", "blocked", "cursor", "permit", "ask", "archive",
   "advance", "snapshot", "failed", "fallback"}
NewsHealth == [enabled : BOOLEAN, failures : Int, circuit : {"closed", "open", "due"}]
NewsRequest ==
  [pc : NewsPc, by : Ingestors, tries : Int, page : NewsPage, at : Int, observed : Int,
   read : {"unset", "true", "false"}, told : BOOLEAN]

NewsShaped ==
  /\ newsClock \in Int
  /\ runtime \in [Ingestors -> NewsHealth]
  /\ setting \in [cursor : Int, snapshot : NewsPage, disabled : {"unset", "true", "false"}]
  /\ fetch \in [Fetches -> NewsRequest]
  /\ switch \in [pc : {"idle", "store", "research", "again"}, enabled : BOOLEAN]
  /\ off \in BOOLEAN

\* While the user has been told, the store says so, and nobody is about to
\* switch the source on.
OffIsStored == off => setting.disabled = "true" /\ (switch.pc # "idle" => ~switch.enabled)

\* A request that begins after that finds its ingestor disabled when it looks:
\* whoever applies a setting meanwhile has read that one.
ToldIsHeeded ==
  \A f \in Fetches : fetch[f].told =>
    /\ off
    /\ fetch[f].pc \in {"setting", "apply", "check"}
    /\ fetch[f].pc = "check" => ~runtime[fetch[f].by].enabled
    /\ \A g \in Fetches : fetch[g].pc = "apply" => fetch[g].read = "true"

NewsInv == NewsShaped /\ OffIsStored /\ ToldIsHeeded

LEMMA NoPageType == NoPage \in NewsPage /\ NoPage.next = 0 /\ NoPage.items = <<>>
<1>1. <<>> \in Seq(Int)
  BY EmptySeq
<1> QED
  BY <1>1 DEF NoPage, NewsPage

LEMMA NoFetchType == NoFetch \in NewsRequest /\ ~NoFetch.told /\ NoFetch.pc = "idle"
BY NoPageType DEF NoFetch, NewsRequest, NewsPc, Ingestors

\* Pages have positions in the feed.
LEMMA FeedIsSeq ==
  ASSUME feed \in Feeds
  PROVE  Len(feed) \in Nat /\ DOMAIN feed = 1..Len(feed)
<1>1. feed \in Seq({feed[p] : p \in DOMAIN feed})
  BY NewsAssumption
<1> QED
  BY <1>1

LEMMA PagesTyped ==
  ASSUME feed \in Feeds, NEW at, NEW page \in Pages(at)
  PROVE  /\ page \in NewsPage /\ page.next \in 0..Len(feed) /\ page.items \in Seq(DOMAIN feed)
         /\ \A p \in (at + 1)..page.next :
              p \in PassedOver(at, page) \/ \E n \in DOMAIN page.items : page.items[n] = p
<1>1. Len(feed) \in Nat /\ DOMAIN feed = 1..Len(feed) /\ DOMAIN feed \subseteq Int
  BY FeedIsSeq
<1>2. ASSUME NEW s \in Selections PROVE s \in Seq(DOMAIN feed) /\ s \in Seq(Int)
  <2>1. PICK n \in 0..Len(feed) : s \in [1..n -> DOMAIN feed]
    BY DEF Selections
  <2>2. n \in Nat
    BY <1>1, <2>1
  <2>3. s \in [1..n -> Int]
    BY <1>1, <2>1
  <2> QED
    BY <2>1, <2>2, <2>3, SeqDef
<1>3. PICK s \in Selections, next \in 0..Len(feed) :
        page = [answered |-> TRUE, items |-> s, next |-> next]
  <2>1. CASE style = "newest"
    <3>1. PICK s \in Selections :
            page = [answered |-> TRUE, items |-> s, next |-> IF s = <<>> THEN 0 ELSE s[1]]
      BY <2>1 DEF Pages, NewestPages
    <3>2. s # <<>> => s[1] \in DOMAIN feed
      BY <1>2
    <3>3. (IF s = <<>> THEN 0 ELSE s[1]) \in 0..Len(feed)
      BY <1>1, <3>2
    <3> QED
      BY <3>1, <3>3
  <2>2. CASE style # "newest"
    <3>1. PICK t \in Selections \X (0..Len(feed)) :
            page = [answered |-> TRUE, items |-> t[1], next |-> t[2]]
      BY <2>2 DEF Pages, RowsPages
    <3> QED
      BY <3>1
  <2> QED
    BY <2>1, <2>2
<1>4. page.items = s /\ page.next = next /\ page \in NewsPage
  BY <1>1, <1>2, <1>3 DEF NewsPage
<1> QED
  BY <1>2, <1>4 DEF PassedOver

LEMMA InitNewsInv == NewsInit => NewsInv
<1> SUFFICES ASSUME NewsInit PROVE NewsInv
  OBVIOUS
<1>1. runtime \in [Ingestors -> NewsHealth]
  BY DEF NewsInit, NeverAsked, NewsHealth
<1>2. setting \in [cursor : Int, snapshot : NewsPage, disabled : {"unset", "true", "false"}]
  BY NoPageType DEF NewsInit
<1>3. fetch \in [Fetches -> NewsRequest] /\ \A f \in Fetches : ~fetch[f].told
  BY NoFetchType DEF NewsInit
<1>4. newsClock \in Int /\ switch = NoSwitch /\ off = FALSE
  BY DEF NewsInit
<1>5. NewsShaped /\ OffIsStored
  BY <1>1, <1>2, <1>3, <1>4 DEF NewsShaped, OffIsStored, NoSwitch
<1> QED
  BY <1>3, <1>5 DEF NewsInv, ToldIsHeeded

\* A request goes on, or ends, without having been told.
LEMMA Untold ==
  ASSUME NewsInv, NEW f \in Fetches, NEW r \in NewsRequest, ~r.told, r.pc # "apply",
         fetch' = [fetch EXCEPT ![f] = r],
         newsClock' \in Int,
         runtime' \in [Ingestors -> NewsHealth],
         \A i \in Ingestors : runtime'[i].enabled = runtime[i].enabled,
         setting' \in [cursor : Int, snapshot : NewsPage, disabled : {"unset", "true", "false"}],
         setting'.disabled = setting.disabled, UNCHANGED <<switch, off>>
  PROVE  NewsInv'
<1>1. NewsShaped' /\ OffIsStored'
  BY DEF NewsInv, NewsShaped, NewsHealth, OffIsStored
<1>2. fetch'[f] = r /\ \A g \in Fetches \ {f} : fetch'[g] = fetch[g]
  BY DEF NewsInv, NewsShaped, NewsHealth
<1>3. \A g \in Fetches : fetch[g].by \in Ingestors
  BY DEF NewsInv, NewsShaped, NewsHealth, NewsRequest, NewsPc
<1>4. ToldIsHeeded'
  BY <1>2, <1>3 DEF NewsInv, ToldIsHeeded
<1> QED
  BY <1>1, <1>4 DEF NewsInv

\* A request that was told goes no further than the check.
LEMMA PastCheck ==
  ASSUME NewsInv, NEW f \in Fetches, fetch[f].pc \notin {"setting", "apply", "check"}
  PROVE  ~fetch[f].told
BY DEF NewsInv, ToldIsHeeded

LEMMA RequestMoves ==
  ASSUME NewsInv, NEW f \in Fetches, NEW pc \in NewsPc
  PROVE  LET r == [fetch[f] EXCEPT !.pc = pc] IN
           r \in NewsRequest /\ r.pc = pc /\ r.told = fetch[f].told
BY DEF NewsInv, NewsShaped, NewsHealth, NewsRequest, NewsPc

LEMMA ReturnsNewsInv ==
  ASSUME NewsInv, NEW f \in Fetches, Returns(f),
         newsClock' \in Int,
         runtime' \in [Ingestors -> NewsHealth],
         \A i \in Ingestors : runtime'[i].enabled = runtime[i].enabled,
         setting' \in [cursor : Int, snapshot : NewsPage, disabled : {"unset", "true", "false"}],
         setting'.disabled = setting.disabled, UNCHANGED <<switch, off>>
  PROVE  NewsInv'
<1>1. fetch' = [fetch EXCEPT ![f] = NoFetch]
  BY DEF Returns
<1> QED
  BY <1>1, NoFetchType, Untold

LEMMA PassesNewsInv ==
  ASSUME NewsInv, NEW f \in Fetches, NEW pc \in NewsPc \ {"apply"}, Passes(f, pc), ~fetch[f].told,
         newsClock' \in Int,
         runtime' \in [Ingestors -> NewsHealth],
         \A i \in Ingestors : runtime'[i].enabled = runtime[i].enabled,
         UNCHANGED <<setting, switch, off>>
  PROVE  NewsInv'
<1> DEFINE r == [fetch[f] EXCEPT !.pc = pc]
<1>1. r \in NewsRequest /\ r.pc = pc /\ r.told = fetch[f].told
  BY RequestMoves
<1>2. fetch' = [fetch EXCEPT ![f] = r]
  BY DEF Passes, NewsInv, NewsShaped, NewsHealth
<1>3. setting' \in [cursor : Int, snapshot : NewsPage, disabled : {"unset", "true", "false"}]
        /\ setting'.disabled = setting.disabled
  BY DEF NewsInv, NewsShaped, NewsHealth
<1> HIDE DEF r
<1> QED
  BY <1>1, <1>2, <1>3, Untold

-----------------------------------------------------------------------------
LEMMA BeginNewsInv ==
  ASSUME NewsInv, NEW f \in Fetches, NEW i \in Ingestors, BeginFetch(f, i)
  PROVE  NewsInv'
<1> DEFINE knows == off /\ \A g \in Fetches : fetch[g].pc \notin {"setting", "apply"}
           r == [NoFetch EXCEPT !.pc = "setting", !.by = i, !.told = knows]
<1>1. fetch' = [fetch EXCEPT ![f] = r]
  BY DEF BeginFetch
<1>2. r \in NewsRequest /\ r.pc = "setting" /\ r.told = knows
  <2>1. knows \in BOOLEAN
    OBVIOUS
  <2> HIDE DEF knows
  <2> QED
    BY <2>1, NoFetchType DEF NewsRequest, NewsPc
<1> HIDE DEF r
<1>3. UNCHANGED <<newsClock, runtime, setting, switch, off>>
  BY DEF BeginFetch
<1>4. NewsShaped' /\ OffIsStored'
  BY <1>1, <1>2, <1>3 DEF NewsInv, NewsShaped, NewsHealth, OffIsStored
<1>5. fetch'[f] = r /\ \A g \in Fetches \ {f} : fetch'[g] = fetch[g]
  BY <1>1 DEF NewsInv, NewsShaped, NewsHealth
<1>6. ASSUME NEW g \in Fetches, fetch'[g].told
      PROVE  /\ off /\ fetch'[g].pc \in {"setting", "apply", "check"}
             /\ fetch'[g].pc = "check" => ~runtime[fetch'[g].by].enabled
             /\ \A h \in Fetches : fetch'[h].pc = "apply" => fetch'[h].read = "true"
  BY <1>2, <1>5, <1>6 DEF NewsInv, ToldIsHeeded
<1>7. ToldIsHeeded'
  BY <1>3, <1>6 DEF ToldIsHeeded
<1> QED
  BY <1>4, <1>7 DEF NewsInv

LEMMA ReadNewsInv ==
  ASSUME NewsInv, NEW f \in Fetches, ReadSetting(f)
  PROVE  NewsInv'
<1>0. UNCHANGED <<newsClock, runtime, setting, switch, off>> /\ fetch[f] \in NewsRequest
        /\ setting.disabled \in {"unset", "true", "false"}
  BY DEF ReadSetting, NewsInv, NewsShaped, NewsHealth
<1>1. CASE fetch' = [fetch EXCEPT ![f].pc = "apply", ![f].read = setting.disabled]
  <2> DEFINE r == [fetch[f] EXCEPT !.pc = "apply", !.read = setting.disabled]
  <2>1. /\ r \in NewsRequest /\ r.pc = "apply" /\ r.told = fetch[f].told
        /\ r.by = fetch[f].by /\ r.read = setting.disabled
    BY <1>0 DEF NewsRequest, NewsPc
  <2>2. fetch'[f] = r /\ fetch' \in [Fetches -> NewsRequest]
          /\ \A g \in Fetches \ {f} : fetch'[g] = fetch[g]
    BY <1>1, <2>1 DEF NewsInv, NewsShaped, NewsHealth
  <2> HIDE DEF r
  <2>3. NewsShaped' /\ OffIsStored'
    BY <1>0, <2>2 DEF NewsInv, NewsShaped, NewsHealth, OffIsStored
  <2>4. ToldIsHeeded'
    BY <1>0, <2>1, <2>2 DEF NewsInv, OffIsStored, ToldIsHeeded
  <2> QED
    BY <2>3, <2>4 DEF NewsInv
<1>2. CASE fetch' = [fetch EXCEPT ![f].pc = "check", ![f].told = FALSE]
  <2> DEFINE r == [fetch[f] EXCEPT !.pc = "check", !.told = FALSE]
  <2>1. r \in NewsRequest /\ r.pc = "check" /\ ~r.told
    BY <1>0 DEF NewsRequest, NewsPc
  <2>2. fetch' = [fetch EXCEPT ![f] = r]
    BY <1>2 DEF NewsInv, NewsShaped, NewsHealth
  <2> HIDE DEF r
  <2> QED
    BY <1>0, <2>1, <2>2, Untold DEF NewsInv, NewsShaped, NewsHealth
<1> QED
  BY <1>1, <1>2 DEF ReadSetting

LEMMA ApplyNewsInv ==
  ASSUME NewsInv, NEW f \in Fetches, ApplySetting(f)
  PROVE  NewsInv'
<1> DEFINE r == [fetch[f] EXCEPT !.pc = "check", !.read = "unset"]
           i == fetch[f].by
<1>0. UNCHANGED <<newsClock, setting, switch, off>> /\ fetch[f] \in NewsRequest
        /\ i \in Ingestors /\ fetch[f].pc = "apply"
  BY DEF ApplySetting, NewsInv, NewsShaped, NewsHealth, NewsRequest, NewsPc, Doing
<1>1. r \in NewsRequest /\ r.pc = "check" /\ r.told = fetch[f].told /\ r.by = fetch[f].by
  BY <1>0 DEF NewsRequest, NewsPc
<1>2. fetch'[f] = r /\ fetch' \in [Fetches -> NewsRequest]
        /\ \A g \in Fetches \ {f} : fetch'[g] = fetch[g]
  BY <1>1 DEF ApplySetting, NewsInv, NewsShaped, NewsHealth
<1> HIDE DEF r
<1>3. runtime' \in [Ingestors -> NewsHealth]
        /\ (\A j \in Ingestors \ {i} : runtime'[j] = runtime[j])
        /\ (fetch[f].read = "true" => ~runtime'[i].enabled)
  <2>1. CASE fetch[f].read = "unset"
    BY <2>1 DEF ApplySetting, NewsInv, NewsShaped, NewsHealth
  <2>2. CASE fetch[f].read # "unset"
    <3> DEFINE on == fetch[f].read = "false"
    <3>1. on \in BOOLEAN
      OBVIOUS
    <3>2. runtime' = [runtime EXCEPT ![i].enabled = on]
      BY <2>2 DEF ApplySetting
    <3>6. fetch[f].read = "true" => ~on
      OBVIOUS
    <3> HIDE DEF on
    <3>3. runtime'[i] = [runtime[i] EXCEPT !.enabled = on]
            /\ \A j \in Ingestors \ {i} : runtime'[j] = runtime[j]
      BY <1>0, <3>2 DEF NewsInv, NewsShaped, NewsHealth
    <3>4. runtime'[i].enabled = on
      BY <1>0, <3>3 DEF NewsInv, NewsShaped, NewsHealth
    <3>5. runtime' \in [Ingestors -> NewsHealth]
      BY <1>0, <3>1, <3>2 DEF NewsInv, NewsShaped, NewsHealth
    <3> QED
      BY <2>2, <3>3, <3>4, <3>5, <3>6
  <2> QED
    BY <2>1, <2>2
<1>4. NewsShaped' /\ OffIsStored'
  BY <1>0, <1>2, <1>3 DEF NewsInv, NewsShaped, NewsHealth, OffIsStored
<1>5. ASSUME NEW g \in Fetches, fetch'[g].told
      PROVE  /\ off /\ fetch'[g].pc \in {"setting", "apply", "check"}
             /\ fetch'[g].pc = "check" => ~runtime'[fetch'[g].by].enabled
             /\ \A h \in Fetches : fetch'[h].pc = "apply" => fetch'[h].read = "true"
  <2>1. fetch[g].told /\ fetch'[g].by = fetch[g].by /\ fetch[g].by \in Ingestors
    BY <1>1, <1>2, <1>5 DEF NewsInv, NewsShaped, NewsHealth, NewsRequest, NewsPc
  <2>2. fetch[f].read = "true"
    BY <1>0, <2>1 DEF NewsInv, ToldIsHeeded
  <2>3. /\ off /\ fetch[g].pc \in {"setting", "apply", "check"}
        /\ fetch[g].pc = "check" => ~runtime[fetch[g].by].enabled
        /\ \A h \in Fetches : fetch[h].pc = "apply" => fetch[h].read = "true"
    BY <2>1 DEF NewsInv, ToldIsHeeded
  <2>4. fetch'[g].pc = "check" => ~runtime'[fetch'[g].by].enabled
    BY <1>1, <1>2, <1>3, <2>1, <2>2, <2>3
  <2> QED
    BY <1>1, <1>2, <2>3, <2>4
<1>6. ToldIsHeeded'
  BY <1>0, <1>5 DEF ToldIsHeeded
<1> QED
  BY <1>4, <1>6 DEF NewsInv

LEMMA CheckNewsInv ==
  ASSUME NewsInv, NEW f \in Fetches, Check(f)
  PROVE  NewsInv'
<1>0. UNCHANGED <<newsClock, runtime, setting, switch, off>> /\ fetch[f].pc = "check"
  BY DEF Check, Doing
<1>1. CASE ~runtime[fetch[f].by].enabled
  <2>1. Returns(f)
    BY <1>1 DEF Check
  <2> QED
    BY <1>0, <2>1, ReturnsNewsInv DEF NewsInv, NewsShaped, NewsHealth
<1>2. CASE runtime[fetch[f].by].enabled
  <2>1. PICK pc \in {"blocked", "cursor"} : Passes(f, pc)
    BY <1>2 DEF Check
  <2>2. ~fetch[f].told
    BY <1>0, <1>2 DEF NewsInv, ToldIsHeeded
  <2> QED
    BY <1>0, <2>1, <2>2, PassesNewsInv DEF NewsInv, NewsShaped, NewsPc
<1> QED
  BY <1>1, <1>2

LEMMA AskNewsInv ==
  ASSUME NewsInv, NEW f \in Fetches, LoadCursor(f) \/ TakePermit(f)
  PROVE  NewsInv'
<1>0. UNCHANGED <<newsClock, runtime, setting, switch, off>> /\ fetch[f] \in NewsRequest
        /\ setting.cursor \in Int
  BY DEF LoadCursor, TakePermit, NewsInv, NewsShaped, NewsHealth
<1>1. CASE LoadCursor(f)
  <2>1. PICK at \in {setting.cursor, 0} : StartsAt(f, at)
    BY <1>1 DEF LoadCursor
  <2> DEFINE r == [fetch[f] EXCEPT !.pc = "permit", !.at = at]
  <2>2. ~fetch[f].told /\ at \in Int
    BY <1>0, <1>1, <2>1, PastCheck DEF LoadCursor, Doing
  <2>3. r \in NewsRequest /\ r.pc = "permit" /\ r.told = fetch[f].told
    BY <1>0, <2>2 DEF NewsRequest, NewsPc
  <2>4. fetch' = [fetch EXCEPT ![f] = r]
    BY <2>1 DEF StartsAt, NewsInv, NewsShaped, NewsHealth
  <2> HIDE DEF r
  <2> QED
    BY <1>0, <2>2, <2>3, <2>4, Untold DEF NewsInv, NewsShaped, NewsHealth
<1>2. CASE TakePermit(f)
  <2>1. ~fetch[f].told /\ Passes(f, "ask")
    BY <1>2, PastCheck DEF TakePermit, Doing
  <2> QED
    BY <1>0, <2>1, PassesNewsInv DEF NewsInv, NewsShaped, NewsPc
<1> QED
  BY <1>1, <1>2

\* What is said of failures and circuits leaves alone whether it is enabled.
LEMMA HealthChanges ==
  ASSUME NewsInv, NEW i \in Ingestors, NEW r \in NewsHealth, r.enabled = runtime[i].enabled,
         runtime' = [runtime EXCEPT ![i] = r]
  PROVE  /\ runtime' \in [Ingestors -> NewsHealth]
         /\ \A j \in Ingestors : runtime'[j].enabled = runtime[j].enabled
BY DEF NewsInv, NewsShaped

\* Changes of several fields.
LEMMA PositionSet ==
  ASSUME NEW q \in NewsRequest, NEW pc \in NewsPc, NEW at \in Int
  PROVE  LET s == [q EXCEPT !.at = at, !.pc = pc] IN
           s \in NewsRequest /\ s.pc = pc /\ s.told = q.told
BY DEF NewsRequest

LEMMA ResetToZero ==
  /\ \A r \in NewsHealth, circ \in {"closed", "open", "due"} :
       LET s == [r EXCEPT !.failures = 0, !.circuit = circ] IN
         s \in NewsHealth /\ s.enabled = r.enabled
  /\ \A q \in NewsRequest, pc \in NewsPc :
       LET s == [q EXCEPT !.pc = pc, !.at = 0, !.tries = 0] IN
         s \in NewsRequest /\ s.pc = pc /\ s.told = q.told
  /\ \A q \in NewsRequest, pc \in NewsPc :
       LET s == [q EXCEPT !.pc = pc, !.observed = 0, !.at = 0] IN
         s \in NewsRequest /\ s.pc = pc /\ s.told = q.told
<1> DEFINE zero == 0
<1>1. zero \in Int
  OBVIOUS
<1> HIDE DEF zero
<1>2. \A r \in NewsHealth, circ \in {"closed", "open", "due"} :
        LET s == [r EXCEPT !.failures = zero, !.circuit = circ] IN
          s \in NewsHealth /\ s.enabled = r.enabled
  BY <1>1 DEF NewsHealth
<1>3. \A q \in NewsRequest, pc \in NewsPc :
        LET s == [q EXCEPT !.pc = pc, !.at = zero, !.tries = zero] IN
          s \in NewsRequest /\ s.pc = pc /\ s.told = q.told
  BY <1>1 DEF NewsRequest
<1>4. \A q \in NewsRequest, pc \in NewsPc :
        LET s == [q EXCEPT !.pc = pc, !.observed = zero, !.at = zero] IN
          s \in NewsRequest /\ s.pc = pc /\ s.told = q.told
  BY <1>1 DEF NewsRequest
<1> QED
  BY <1>2, <1>3, <1>4 DEF zero

LEMMA AnswersNewsInv ==
  ASSUME NewsInv, feed \in Feeds, NEW f \in Fetches, SourceAnswers(f)
  PROVE  NewsInv'
<1>0. /\ UNCHANGED <<newsClock, setting, switch, off>> /\ fetch[f] \in NewsRequest
      /\ fetch[f].by \in Ingestors /\ newsClock \in Int
      /\ setting \in [cursor : Int, snapshot : NewsPage, disabled : {"unset", "true", "false"}]
  BY DEF SourceAnswers, NewsInv, NewsShaped, NewsHealth, NewsRequest, NewsPc
<1>1. ~fetch[f].told
  BY PastCheck DEF SourceAnswers, Doing
<1>2. /\ runtime' \in [Ingestors -> NewsHealth]
      /\ \A j \in Ingestors : runtime'[j].enabled = runtime[j].enabled
  <2> DEFINE i == fetch[f].by
             r == [runtime[i] EXCEPT !.failures = 0, !.circuit = "closed"]
  <2>1. runtime' = [runtime EXCEPT ![i] = r]
    BY <1>0 DEF SourceAnswers, NewsInv, NewsShaped
  <2>2. r \in NewsHealth /\ r.enabled = runtime[i].enabled
    <3>1. runtime[i] \in NewsHealth
      BY <1>0 DEF NewsInv, NewsShaped
    <3> QED
      BY <3>1, ResetToZero
  <2> HIDE DEF r
  <2> QED
    BY <1>0, <2>1, <2>2, HealthChanges
<1>3. CASE Returns(f)
  BY <1>0, <1>2, <1>3, ReturnsNewsInv
<1>4. CASE ~Returns(f)
  <2>1. PICK page \in Pages(fetch[f].at), pc \in {"archive", "advance"} :
          fetch' = [fetch EXCEPT ![f].pc = pc, ![f].page = page, ![f].at = 0,
                                 ![f].observed = newsClock, ![f].tries = 0]
    BY <1>4 DEF SourceAnswers
  <2> DEFINE r == [fetch[f] EXCEPT !.pc = pc, !.page = page, !.at = 0,
                                   !.observed = newsClock, !.tries = 0]
  <2>2. page \in NewsPage
    BY PagesTyped
  <2>3. r \in NewsRequest /\ r.pc = pc /\ r.told = fetch[f].told
    <3> DEFINE zero == 0
               s == [fetch[f] EXCEPT !.pc = pc, !.page = page, !.at = zero,
                                     !.observed = newsClock, !.tries = zero]
    <3>1. /\ fetch[f] \in NewsRequest /\ pc \in NewsPc /\ newsClock \in Int /\ page \in NewsPage
          /\ zero \in Int
      BY <1>0, <2>1, <2>2 DEF NewsPc
    <3> HIDE DEF zero
    <3>2. s \in NewsRequest /\ s.pc = pc /\ s.told = fetch[f].told
      BY <3>1 DEF NewsRequest
    <3> QED
      BY <3>2 DEF zero
  <2>4. fetch' = [fetch EXCEPT ![f] = r]
    BY <2>1 DEF NewsInv, NewsShaped, NewsHealth
  <2> HIDE DEF r
  <2> QED
    BY <1>0, <1>1, <1>2, <2>1, <2>3, <2>4, Untold
<1> QED
  BY <1>3, <1>4

LEMMA FailsNewsInv ==
  ASSUME NewsInv, NEW f \in Fetches, NEW retryable \in BOOLEAN, SourceFails(f, retryable)
  PROVE  NewsInv'
<1> DEFINE r == AfterAttempt(f, retryable)
<1>0. UNCHANGED <<newsClock, runtime, setting, switch, off>> /\ fetch[f] \in NewsRequest
        /\ fetch[f].pc = "ask"
  BY DEF SourceFails, NewsInv, NewsShaped, NewsHealth, Doing
<1>1. ~fetch[f].told
  BY <1>0, PastCheck
<1>2. r \in NewsRequest /\ r.pc # "apply" /\ ~r.told
  <2> DEFINE q == fetch[f]
  <2>1. r = [q EXCEPT !.tries = @ + 1] \/ r = [q EXCEPT !.pc = "failed", !.at = 0, !.tries = 0]
    BY DEF AfterAttempt
  <2>2. q \in NewsRequest /\ q.pc = "ask" /\ ~q.told
    BY <1>0, <1>1
  <2> HIDE DEF q, r
  <2>3. CASE r = [q EXCEPT !.tries = @ + 1]
    BY <2>2, <2>3 DEF NewsRequest
  <2>4. CASE r = [q EXCEPT !.pc = "failed", !.at = 0, !.tries = 0]
    <3>1. "failed" \in NewsPc
      BY DEF NewsPc
    <3>2. LET s == [q EXCEPT !.pc = "failed", !.at = 0, !.tries = 0] IN
            s \in NewsRequest /\ s.pc = "failed" /\ s.told = q.told
      BY <2>2, <3>1, ResetToZero
    <3> QED
      BY <2>2, <2>4, <3>2
  <2> QED
    BY <2>1, <2>3, <2>4
<1>3. fetch' = [fetch EXCEPT ![f] = r]
  BY DEF SourceFails
<1> HIDE DEF r
<1> QED
  BY <1>0, <1>2, <1>3, Untold DEF NewsInv, NewsShaped, NewsHealth

LEMMA FailedNewsInv ==
  ASSUME NewsInv, NEW f \in Fetches, MarkFailure(f) \/ Fallback(f) \/ DropFetch(f)
  PROVE  NewsInv'
<1>0. UNCHANGED <<newsClock, setting, switch, off>> /\ newsClock \in Int
        /\ setting \in [cursor : Int, snapshot : NewsPage, disabled : {"unset", "true", "false"}]
        /\ runtime \in [Ingestors -> NewsHealth]
        /\ fetch[f].by \in Ingestors
  BY DEF MarkFailure, Fallback, DropFetch, NewsInv, NewsShaped, NewsHealth, NewsRequest, NewsPc
<1>1. CASE MarkFailure(f)
  <2> DEFINE i == fetch[f].by
             r == runtime[i]
             s == IF r.circuit = "due" \/ r.failures + 1 >= NewsThreshold
                  THEN [r EXCEPT !.failures = 0, !.circuit = "open"]
                  ELSE [r EXCEPT !.failures = @ + 1]
  <2>1. ~fetch[f].told /\ Passes(f, "fallback")
    BY <1>1, PastCheck DEF MarkFailure, Doing
  <2>2. runtime' = [runtime EXCEPT ![i] = s]
    BY <1>1 DEF MarkFailure
  <2>3. s \in NewsHealth /\ s.enabled = r.enabled
    <3>1. r \in NewsHealth
      BY <1>0
    <3> HIDE DEF r
    <3>2. CASE s = [r EXCEPT !.failures = 0, !.circuit = "open"]
      BY <3>1, <3>2, ResetToZero
    <3>3. CASE s = [r EXCEPT !.failures = @ + 1]
      BY <3>1, <3>3 DEF NewsHealth
    <3> QED
      BY <3>2, <3>3
  <2> HIDE DEF s
  <2>4. /\ runtime' \in [Ingestors -> NewsHealth]
        /\ \A j \in Ingestors : runtime'[j].enabled = runtime[j].enabled
    BY <1>0, <2>2, <2>3
  <2> QED
    BY <1>0, <2>1, <2>4, PassesNewsInv DEF NewsPc
<1>2. CASE Fallback(f) \/ DropFetch(f)
  <2>1. Returns(f) /\ runtime' = runtime
    BY <1>2 DEF Fallback, DropFetch
  <2> QED
    BY <1>0, <2>1, ReturnsNewsInv
<1> QED
  BY <1>1, <1>2

LEMMA ArchiveNewsInv ==
  ASSUME NewsInv, NEW f \in Fetches, ArchiveItem(f) \/ SaveCursor(f) \/ SaveSnapshot(f)
  PROVE  NewsInv'
<1>0. /\ UNCHANGED <<newsClock, runtime, switch, off>> /\ newsClock \in Int
      /\ setting \in [cursor : Int, snapshot : NewsPage, disabled : {"unset", "true", "false"}]
      /\ runtime \in [Ingestors -> NewsHealth]
      /\ fetch[f] \in NewsRequest
  BY DEF ArchiveItem, SaveCursor, SaveSnapshot, NewsInv, NewsShaped, NewsHealth
<1>1. ~fetch[f].told
  BY PastCheck DEF ArchiveItem, SaveCursor, SaveSnapshot, Doing
<1>2. fetch[f].page \in NewsPage /\ fetch[f].page.next \in Int
  BY <1>0 DEF NewsRequest, NewsPc, NewsPage
<1>3. setting' \in [cursor : Int, snapshot : NewsPage, disabled : {"unset", "true", "false"}]
        /\ setting'.disabled = setting.disabled
  BY <1>0, <1>2 DEF ArchiveItem, SaveCursor, SaveSnapshot
<1>4. CASE ArchiveItem(f)
  <2> DEFINE r == [fetch[f] EXCEPT !.at = @ + 1, !.pc = AfterItem(f)]
  <2>1. AfterItem(f) \in {"archive", "advance"}
    BY DEF AfterItem
  <2>2. r \in NewsRequest /\ r.pc = AfterItem(f) /\ r.told = fetch[f].told
    <3>1. fetch[f] \in NewsRequest /\ AfterItem(f) \in NewsPc
      BY <1>0, <2>1 DEF NewsPc
    <3>2. fetch[f].at + 1 \in Int
      BY <1>0 DEF NewsRequest
    <3> QED
      BY <3>1, <3>2, PositionSet
  <2>3. fetch' = [fetch EXCEPT ![f] = r]
    BY <1>4 DEF ArchiveItem, NewsInv, NewsShaped, NewsHealth
  <2> HIDE DEF r
  <2> QED
    BY <1>0, <1>1, <1>3, <2>1, <2>2, <2>3, Untold
<1>5. CASE SaveCursor(f)
  <2> DEFINE r == [fetch[f] EXCEPT !.pc = "snapshot", !.observed = 0, !.at = 0]
  <2>1. r \in NewsRequest /\ r.pc = "snapshot" /\ r.told = fetch[f].told
    <3>1. fetch[f] \in NewsRequest /\ "snapshot" \in NewsPc
      BY <1>0 DEF NewsPc
    <3> QED
      BY <3>1, ResetToZero
  <2>2. fetch' = [fetch EXCEPT ![f] = r]
    BY <1>5 DEF SaveCursor, NewsInv, NewsShaped, NewsHealth
  <2> HIDE DEF r
  <2> QED
    BY <1>0, <1>1, <1>3, <2>1, <2>2, Untold
<1>6. CASE SaveSnapshot(f)
  <2>1. Returns(f)
    BY <1>6 DEF SaveSnapshot
  <2> QED
    BY <1>0, <1>3, <2>1, ReturnsNewsInv
<1> QED
  BY <1>4, <1>5, <1>6

-----------------------------------------------------------------------------
\* The user's request.  One that switches the source on withdraws what was told.
LEMMA SwitchNewsInv ==
  ASSUME NewsInv, NEW enabled \in BOOLEAN, SwitchSource(enabled)
  PROVE  NewsInv'
<1>0. UNCHANGED <<newsClock, setting>> /\ switch' = [pc |-> "store", enabled |-> enabled]
  BY DEF SwitchSource
<1>1. /\ runtime' \in [Ingestors -> NewsHealth]
      /\ runtime'["archive"].enabled = enabled /\ runtime'["research"] = runtime["research"]
  BY DEF SwitchSource, NewsInv, NewsShaped, NewsHealth, Ingestors
<1>2. off' \in BOOLEAN /\ (off' <=> off /\ ~enabled)
  BY DEF SwitchSource
<1>3. ASSUME NEW f \in Fetches
      PROVE  /\ fetch'[f] \in NewsRequest /\ fetch'[f].pc = fetch[f].pc
             /\ fetch'[f].by = fetch[f].by /\ fetch'[f].read = fetch[f].read
             /\ (fetch'[f].told <=> fetch[f].told /\ ~enabled)
  <2> DEFINE told == fetch[f].told /\ ~enabled
  <2>1. told \in BOOLEAN
    OBVIOUS
  <2>2. fetch'[f] = [fetch[f] EXCEPT !.told = told]
    BY DEF SwitchSource
  <2>3. fetch[f] \in NewsRequest
    BY DEF NewsInv, NewsShaped, NewsHealth
  <2> HIDE DEF told
  <2>4. fetch'[f] \in NewsRequest /\ fetch'[f].pc = fetch[f].pc /\ fetch'[f].by = fetch[f].by
          /\ fetch'[f].read = fetch[f].read /\ fetch'[f].told = told
    BY <2>1, <2>2, <2>3 DEF NewsRequest, NewsPc
  <2> USE DEF told
  <2> QED
    BY <2>4
<1>4. fetch' = [f \in Fetches |-> fetch'[f]]
  BY DEF SwitchSource
<1>5. NewsShaped'
  <2>1. fetch' \in [Fetches -> NewsRequest]
    BY <1>3, <1>4
  <2> QED
    BY <1>0, <1>1, <1>2, <2>1 DEF NewsInv, NewsShaped, NewsHealth
<1>6. OffIsStored'
  BY <1>0, <1>2 DEF NewsInv, OffIsStored
<1>7. ASSUME NEW f \in Fetches, fetch'[f].told
      PROVE  /\ off' /\ fetch'[f].pc \in {"setting", "apply", "check"}
             /\ fetch'[f].pc = "check" => ~runtime'[fetch'[f].by].enabled
             /\ \A g \in Fetches : fetch'[g].pc = "apply" => fetch'[g].read = "true"
  <2>1. fetch[f].told /\ ~enabled /\ fetch[f].by \in Ingestors
    BY <1>3, <1>7 DEF NewsInv, NewsShaped, NewsHealth, NewsRequest, NewsPc
  <2>2. /\ off /\ fetch[f].pc \in {"setting", "apply", "check"}
        /\ fetch[f].pc = "check" => ~runtime[fetch[f].by].enabled
        /\ \A g \in Fetches : fetch[g].pc = "apply" => fetch[g].read = "true"
    BY <2>1 DEF NewsInv, ToldIsHeeded
  <2>3. fetch'[f].pc = "check" => ~runtime'[fetch'[f].by].enabled
    BY <1>1, <1>3, <2>1, <2>2 DEF Ingestors
  <2> QED
    BY <1>2, <1>3, <2>1, <2>2, <2>3
<1>8. ToldIsHeeded'
  BY <1>7 DEF ToldIsHeeded
<1> QED
  BY <1>5, <1>6, <1>8 DEF NewsInv

LEMMA StoreNewsInv ==
  ASSUME NewsInv, StoreSwitch
  PROVE  NewsInv'
<1>0. UNCHANGED <<newsClock, runtime, fetch>>
  BY DEF StoreSwitch
<1>1. CASE setting' = setting /\ off' = off /\ switch' = NoSwitch
  BY <1>0, <1>1 DEF NewsInv, NewsShaped, NewsHealth, OffIsStored, ToldIsHeeded, NoSwitch
<1>2. CASE ~(setting' = setting /\ off' = off /\ switch' = NoSwitch)
  <2>1. /\ switch.pc \in {"store", "again"} /\ setting' = Switched(switch.enabled)
        /\ switch' = IF switch.pc = "store" THEN [switch EXCEPT !.pc = "research"] ELSE NoSwitch
        /\ off' = (off \/ (switch.pc = "again" /\ ~switch.enabled))
    BY <1>2 DEF StoreSwitch
  <2>2. setting' \in [cursor : Int, snapshot : NewsPage, disabled : {"unset", "true", "false"}]
          /\ setting'.disabled = IF switch.enabled THEN "false" ELSE "true"
    BY <2>1 DEF NewsInv, NewsShaped, NewsHealth, Switched
  <2>3. switch' \in [pc : {"idle", "store", "research", "again"}, enabled : BOOLEAN]
          /\ (switch'.pc # "idle" => switch'.enabled = switch.enabled)
    BY <2>1 DEF NewsInv, NewsShaped, NewsHealth, NoSwitch
  <2>4. off' \in BOOLEAN /\ (off => off') /\ (off' => off \/ ~switch.enabled)
    BY <2>1
  <2>5. NewsShaped'
    BY <1>0, <2>2, <2>3, <2>4 DEF NewsInv, NewsShaped, NewsHealth
  <2>6. OffIsStored'
    <3>1. off => ~switch.enabled
      BY <2>1 DEF NewsInv, OffIsStored
    <3> QED
      BY <2>2, <2>3, <2>4, <3>1 DEF OffIsStored
  <2>7. ToldIsHeeded'
    BY <1>0, <2>4 DEF NewsInv, ToldIsHeeded
  <2> QED
    BY <2>5, <2>6, <2>7 DEF NewsInv
<1> QED
  BY <1>1, <1>2

LEMMA ResearchNewsInv ==
  ASSUME NewsInv, SwitchResearch
  PROVE  NewsInv'
<1>0. UNCHANGED <<newsClock, setting, fetch, off>> /\ switch.pc = "research"
        /\ switch' = [switch EXCEPT !.pc = "again"]
        /\ switch.enabled \in BOOLEAN
  BY DEF SwitchResearch, NewsInv, NewsShaped, NewsHealth
<1>1. /\ runtime' \in [Ingestors -> NewsHealth]
      /\ runtime'["research"].enabled = switch.enabled /\ runtime'["archive"] = runtime["archive"]
  BY <1>0 DEF SwitchResearch, NewsInv, NewsShaped, NewsHealth, Ingestors
<1>2. NewsShaped' /\ OffIsStored'
  BY <1>0, <1>1 DEF NewsInv, NewsShaped, NewsHealth, OffIsStored
<1>3. ASSUME NEW f \in Fetches, fetch[f].told, fetch[f].pc = "check"
      PROVE  ~runtime'[fetch[f].by].enabled
  <2>1. ~switch.enabled /\ ~runtime[fetch[f].by].enabled /\ fetch[f].by \in Ingestors
    BY <1>0, <1>3 DEF NewsInv, NewsShaped, NewsHealth, NewsRequest, NewsPc, OffIsStored, ToldIsHeeded
  <2> QED
    BY <1>1, <2>1 DEF Ingestors
<1>4. ToldIsHeeded'
  BY <1>0, <1>3 DEF NewsInv, ToldIsHeeded
<1> QED
  BY <1>2, <1>4 DEF NewsInv

\* A process that starts has no requests.
LEMMA RestartNewsInv ==
  ASSUME NewsInv, RestartNews
  PROVE  NewsInv'
<1>1. fetch' \in [Fetches -> NewsRequest] /\ \A f \in Fetches : ~fetch'[f].told
  BY NoFetchType DEF RestartNews
<1> QED
  BY <1>1 DEF RestartNews, NewsInv, NewsShaped, NewsHealth, OffIsStored, ToldIsHeeded, NeverAsked,
     NoSwitch, Ingestors

LEMMA AsideNewsInv ==
  ASSUME NewsInv, (\E i \in Ingestors : CooldownOver(i)) \/ NewsTick
                    \/ (\E k \in 1..newsClock : ReplayAsOf(k)) \/ UNCHANGED newsVars
  PROVE  NewsInv'
<1>1. newsClock' \in Int /\ UNCHANGED <<setting, fetch, switch, off>>
  BY DEF CooldownOver, NewsTick, ReplayAsOf, newsVars, NewsInv, NewsShaped, NewsHealth
<1>2. /\ runtime' \in [Ingestors -> NewsHealth]
      /\ \A j \in Ingestors : runtime'[j].enabled = runtime[j].enabled
  BY DEF CooldownOver, NewsTick, ReplayAsOf, newsVars, NewsInv, NewsShaped, NewsHealth
<1>3. NewsShaped' /\ OffIsStored'
  BY <1>1, <1>2 DEF NewsInv, NewsShaped, NewsHealth, OffIsStored
<1>4. \A f \in Fetches : fetch[f].by \in Ingestors
  BY DEF NewsInv, NewsShaped, NewsHealth, NewsRequest, NewsPc
<1>5. ToldIsHeeded'
  BY <1>1, <1>2, <1>4 DEF NewsInv, ToldIsHeeded
<1> QED
  BY <1>3, <1>5 DEF NewsInv

LEMMA FeedStays == [NewsNext]_newsVars => feed' = feed
BY DEF NewsNext, FetchStep, newsVars, BeginFetch, ReadSetting, ApplySetting, Check, LoadCursor,
   TakePermit, SourceAnswers, SourceFails, MarkFailure, CooldownOver, Fallback, ArchiveItem,
   SaveCursor, SaveSnapshot, SwitchSource, StoreSwitch, SwitchResearch, DropFetch, RestartNews,
   ReplayAsOf, NewsTick

FeedIsOne == feed \in Feeds

LEMMA NewsStep == NewsInv /\ FeedIsOne /\ [NewsNext]_newsVars => NewsInv' /\ FeedIsOne'
<1> SUFFICES ASSUME NewsInv, feed \in Feeds, [NewsNext]_newsVars PROVE NewsInv'
  BY FeedStays DEF FeedIsOne
<1>1. ASSUME NEW f \in Fetches, FetchStep(f)
      PROVE  NewsInv'
  BY <1>1, ReadNewsInv, ApplyNewsInv, CheckNewsInv, AskNewsInv, AnswersNewsInv, FailsNewsInv,
     FailedNewsInv, ArchiveNewsInv DEF FetchStep
<1>2. ASSUME NEW f \in Fetches, DropFetch(f) \/ \E i \in Ingestors : BeginFetch(f, i)
      PROVE  NewsInv'
  BY <1>2, FailedNewsInv, BeginNewsInv
<1>3. ASSUME NEW enabled \in BOOLEAN, SwitchSource(enabled)
      PROVE  NewsInv'
  BY <1>3, SwitchNewsInv
<1>4. CASE StoreSwitch \/ SwitchResearch \/ RestartNews
  BY <1>4, StoreNewsInv, ResearchNewsInv, RestartNewsInv
<1>5. CASE (\E i \in Ingestors : CooldownOver(i)) \/ NewsTick
             \/ (\E k \in 1..newsClock : ReplayAsOf(k)) \/ UNCHANGED newsVars
  BY <1>5, AsideNewsInv
<1> QED
  BY <1>1, <1>2, <1>3, <1>4, <1>5 DEF NewsNext

\* A news source the user was told is disabled is neither asked nor served from
\* its last page by a request that begins after that, restarts included, unless
\* an earlier one was still applying the setting (sync_disabled,
\* set_provider_enabled): for any number of requests, limits and feeds.
THEOREM NewsDisabledIsRespected == NewsSpec => []DisabledIsRespected
<1>1. NewsInv => DisabledIsRespected
  BY DEF NewsInv, ToldIsHeeded, DisabledIsRespected
<1>2. NewsInit => FeedIsOne
  BY DEF NewsInit, FeedIsOne
<1> QED
  BY <1>1, <1>2, InitNewsInv, NewsStep, PTL DEF NewsSpec

-----------------------------------------------------------------------------
\* The archive.  What is behind a position is in it, or its write failed, or the
\* source has skipped it over.
Accounted(p) == Archived(p) \/ p \in skipped
Behind(n) == \A p \in 1..n : Accounted(p)
Shows(page, p) == \E n \in DOMAIN page.items : page.items[n] = p
PageArchived(page) == \A n \in DOMAIN page.items : Archived(page.items[n])

StoreIsBehind ==
  setting.cursor >= 0 /\ Behind(setting.cursor) /\ PageArchived(setting.snapshot)

\* A request asks behind what is accounted for, and its page accounts for the
\* rest up to the next cursor.  Until it has archived the page it keeps that a
\* replay is of an earlier time.
PageIsRead(page) ==
  /\ page.next \in 0..Len(feed) /\ page.items \in Seq(DOMAIN feed)
  /\ \A p \in 1..page.next : Accounted(p) \/ Shows(page, p)
PageIsSound(r) ==
  /\ r.pc \in {"permit", "ask"} => r.at >= 0 /\ Behind(r.at)
  /\ r.pc \in {"archive", "advance", "snapshot"} => PageIsRead(r.page)
  /\ r.pc = "archive" =>
       /\ 0 <= r.at /\ r.at < Len(r.page.items) /\ (replay # NoReplay => replay.at < r.observed)
       /\ \A n \in 1..r.at : Archived(r.page.items[n])
  /\ r.pc \in {"advance", "snapshot"} => PageArchived(r.page)

\* The answer of a replay is still right, and of a time that is over.
ReplayHolds ==
  replay # NoReplay =>
    replay.at \in Int /\ replay.at < newsClock /\ AsOf(replay.at) = replay.shown

\* What a revision replaces is another revision of the document, and documents
\* with a revision are at one.
Pairs == \A r \in DOMAIN revision : r = <<r[1], r[2]>>
RevisionsCurrent == DOMAIN current = {r[1] : r \in DOMAIN revision}
ReplacesStored ==
  \A r \in DOMAIN revision :
    revision[r].replaces = {}
      \/ \E c : revision[r].replaces = {c} /\ <<r[1], c>> \in DOMAIN revision
ChainHolds == Pairs /\ RevisionsCurrent /\ ReplacesStored /\ RevisionsChain

ArchiveInv ==
  /\ feed \in Feeds /\ StoreIsBehind /\ (\A f \in Fetches : PageIsSound(fetch[f]))
  /\ ReplayHolds /\ ChainHolds

LEMMA FeedType ==
  ASSUME ArchiveInv
  PROVE  Len(feed) \in Nat /\ DOMAIN feed = 1..Len(feed)
BY FeedIsSeq DEF ArchiveInv

LEMMA ArchiveInvSuffices == ASSUME ArchiveInv PROVE ArchiveIsSound
<1>1. CursorBehindArchive
  BY DEF ArchiveInv, StoreIsBehind, Behind, Accounted, PageArchived, CursorBehindArchive
<1>2. ReplaysAgree /\ RevisionsChain
  BY DEF ArchiveInv, ReplayHolds, ReplaysAgree, ChainHolds
<1> QED
  BY <1>1, <1>2 DEF ArchiveIsSound

LEMMA IdleIsSound ==
  /\ PageIsSound(NoFetch)
  /\ \A r : r.pc \notin {"permit", "ask", "archive", "advance", "snapshot"} => PageIsSound(r)
<1>1. \A r : r.pc \notin {"permit", "ask", "archive", "advance", "snapshot"} => PageIsSound(r)
  BY DEF PageIsSound
<1>2. NoFetch.pc = "idle"
  BY DEF NoFetch
<1> QED
  BY <1>1, <1>2

LEMMA InitArchiveInv == NewsInit => ArchiveInv
<1> SUFFICES ASSUME NewsInit PROVE ArchiveInv
  OBVIOUS
<1>1. feed \in Feeds /\ replay = NoReplay /\ DOMAIN revision = {} /\ DOMAIN current = {}
  BY DEF NewsInit
<1>2. StoreIsBehind
  BY NoPageType DEF NewsInit, StoreIsBehind, Behind, PageArchived
<1>3. \A f \in Fetches : PageIsSound(fetch[f])
  BY IdleIsSound DEF NewsInit
<1>4. ReplayHolds /\ ChainHolds
  BY <1>1 DEF ReplayHolds, ChainHolds, Pairs, RevisionsCurrent, ReplacesStored, RevisionsChain
<1> QED
  BY <1>1, <1>2, <1>3, <1>4 DEF ArchiveInv

\* What is archived or passed over stays so.
ArchiveGrows == feed' = feed /\ skipped \subseteq skipped' /\ \A p : Archived(p) => Archived(p)'

LEMMA SoundStays ==
  ASSUME ArchiveGrows, replay' = replay
  PROVE  \A r : PageIsSound(r) => PageIsSound(r)'
<1>1. \A p : Accounted(p) => Accounted(p)'
  BY DEF ArchiveGrows, Accounted
<1>2. \A page : PageIsRead(page) => PageIsRead(page)'
  BY <1>1 DEF ArchiveGrows, PageIsRead, Shows
<1>3. \A page : PageArchived(page) => PageArchived(page)'
  BY DEF ArchiveGrows, PageArchived
<1>4. \A n : Behind(n) => Behind(n)'
  BY <1>1 DEF Behind
<1> QED
  BY <1>2, <1>3, <1>4 DEF ArchiveGrows, PageIsSound

LEMMA StoreStays ==
  ASSUME ArchiveGrows, StoreIsBehind,
         setting'.cursor = setting.cursor, setting'.snapshot = setting.snapshot
  PROVE  StoreIsBehind'
BY DEF ArchiveGrows, StoreIsBehind, Behind, Accounted, PageArchived

\* Nothing is archived.
LEMMA NothingArchived ==
  ASSUME ArchiveInv, UNCHANGED <<feed, revision, current, lost, replay>>, skipped \subseteq skipped',
         newsClock \in Int, newsClock' \in Int, newsClock' >= newsClock,
         StoreIsBehind', (\A g \in Fetches : PageIsSound(fetch[g]))'
  PROVE  ArchiveInv'
<1>1. ReplayHolds'
  BY DEF ArchiveInv, ReplayHolds, AsOf, KnownBy
<1>2. ChainHolds'
  BY DEF ArchiveInv, ChainHolds, Pairs, RevisionsCurrent, ReplacesStored, RevisionsChain
<1> QED
  BY <1>1, <1>2 DEF ArchiveInv

\* A request goes on, or ends, and nothing is stored.
LEMMA RequestGoesOn ==
  ASSUME ArchiveInv, NewsInv, NEW f \in Fetches, PageIsSound(fetch[f])',
         \A g \in Fetches \ {f} : fetch'[g] = fetch[g],
         UNCHANGED <<newsClock, feed, setting, revision, current, lost, replay>>,
         skipped \subseteq skipped'
  PROVE  ArchiveInv'
<1>1. ArchiveGrows
  BY DEF ArchiveGrows, Archived
<1>2. ASSUME NEW g \in Fetches PROVE PageIsSound(fetch[g])'
  <2>1. CASE g # f
    <3>1. PageIsSound(fetch[g]) /\ fetch'[g] = fetch[g]
      BY <2>1 DEF ArchiveInv
    <3> QED
      BY <1>1, <3>1, SoundStays
  <2> QED
    BY <2>1
<1>3. StoreIsBehind'
  BY <1>1, StoreStays DEF ArchiveInv
<1>4. newsClock \in Int
  BY DEF NewsInv, NewsShaped
<1> QED
  BY <1>2, <1>3, <1>4, NothingArchived

LEMMA OneGoesOn ==
  ASSUME ArchiveInv, NewsInv, NEW f \in Fetches, PageIsSound(fetch'[f]),
         \A g \in Fetches \ {f} : fetch'[g] = fetch[g],
         UNCHANGED <<newsClock, feed, setting, revision, current, lost, replay, skipped>>
  PROVE  ArchiveInv'
<1>1. ArchiveGrows
  BY DEF ArchiveGrows, Archived
<1>2. PageIsSound(fetch[f])'
  BY <1>1, SoundStays
<1> QED
  BY <1>2, RequestGoesOn

\* Before it has a position, or after its page, a request is sound anyhow.
LEMMA AsideArchiveInv ==
  ASSUME ArchiveInv, NewsInv, NEW f \in Fetches,
         (\E i \in Ingestors : BeginFetch(f, i)) \/ ReadSetting(f) \/ ApplySetting(f) \/ Check(f)
           \/ MarkFailure(f) \/ Fallback(f) \/ DropFetch(f)
  PROVE  ArchiveInv'
<1>1. UNCHANGED <<newsClock, feed, setting, revision, current, lost, replay, skipped>>
  BY DEF BeginFetch, ReadSetting, ApplySetting, Check, MarkFailure, Fallback, DropFetch
<1>2. fetch \in [Fetches -> NewsRequest]
  BY DEF NewsInv, NewsShaped
<1>3. \A g \in Fetches \ {f} : fetch'[g] = fetch[g]
  BY <1>2 DEF BeginFetch, ReadSetting, ApplySetting, Check, MarkFailure, Fallback, DropFetch,
     Passes, Returns
<1>4. fetch'[f].pc \notin {"permit", "ask", "archive", "advance", "snapshot"}
  <2> DEFINE set == fetch'[f].pc \in {"idle", "setting", "apply", "check", "blocked", "cursor",
                                      "fallback"}
  <2>1. ASSUME NEW i \in Ingestors, BeginFetch(f, i) PROVE set
    BY <1>2, <2>1 DEF BeginFetch, NoFetch
  <2>2. CASE ReadSetting(f) \/ ApplySetting(f)
    BY <1>2, <2>2 DEF ReadSetting, ApplySetting, NewsRequest
  <2>3. CASE Check(f) \/ MarkFailure(f) \/ Fallback(f) \/ DropFetch(f)
    BY <1>2, <2>3 DEF Check, MarkFailure, Fallback, DropFetch, Passes, Returns, NoFetch, NewsRequest
  <2> QED
    BY <2>1, <2>2, <2>3
<1> QED
  BY <1>1, <1>3, <1>4, IdleIsSound, OneGoesOn

\* A request begins behind the stored cursor, and asks there however often.
LEMMA AskArchiveInv ==
  ASSUME ArchiveInv, NewsInv, NEW f \in Fetches,
         LoadCursor(f) \/ TakePermit(f) \/ \E retryable \in BOOLEAN : SourceFails(f, retryable)
  PROVE  ArchiveInv'
<1>1. UNCHANGED <<newsClock, feed, setting, revision, current, lost, replay, skipped>>
  BY DEF LoadCursor, TakePermit, SourceFails
<1>2. fetch \in [Fetches -> NewsRequest] /\ PageIsSound(fetch[f])
  BY DEF NewsInv, NewsShaped, ArchiveInv
<1>3. \A g \in Fetches \ {f} : fetch'[g] = fetch[g]
  BY <1>2 DEF LoadCursor, StartsAt, TakePermit, SourceFails, Passes
<1>4. CASE LoadCursor(f)
  <2>1. PICK at \in {setting.cursor, 0} : StartsAt(f, at)
    BY <1>4 DEF LoadCursor
  <2>2. fetch'[f].pc = "permit" /\ fetch'[f].at = at
    BY <1>2, <2>1 DEF StartsAt, NewsRequest
  <2>3. at >= 0 /\ Behind(at)
    BY <2>1 DEF ArchiveInv, StoreIsBehind, Behind
  <2>4. PageIsSound(fetch'[f])
    BY <2>2, <2>3 DEF PageIsSound
  <2> QED
    BY <1>1, <1>3, <2>4, OneGoesOn
<1>5. CASE TakePermit(f)
  <2>1. fetch'[f].pc = "ask" /\ fetch'[f].at = fetch[f].at /\ fetch[f].pc = "permit"
    BY <1>2, <1>5 DEF TakePermit, Passes, Doing, NewsRequest
  <2>2. PageIsSound(fetch'[f])
    BY <1>2, <2>1 DEF PageIsSound
  <2> QED
    BY <1>1, <1>3, <2>2, OneGoesOn
<1>6. ASSUME NEW retryable \in BOOLEAN, SourceFails(f, retryable)
      PROVE  PageIsSound(fetch'[f])
  <2>1. fetch[f].pc = "ask" /\ fetch'[f] = AfterAttempt(f, retryable)
    BY <1>2, <1>6 DEF SourceFails, Doing
  <2>2. CASE fetch'[f] = [fetch[f] EXCEPT !.tries = @ + 1]
    <3>1. fetch'[f].pc = "ask" /\ fetch'[f].at = fetch[f].at
      BY <1>2, <2>1, <2>2 DEF NewsRequest
    <3> QED
      BY <1>2, <2>1, <3>1 DEF PageIsSound
  <2>3. CASE fetch'[f] = [fetch[f] EXCEPT !.pc = "failed", !.at = 0, !.tries = 0]
    <3>1. "failed" \in NewsPc /\ fetch[f] \in NewsRequest
      BY <1>2 DEF NewsPc
    <3>2. LET s == [fetch[f] EXCEPT !.pc = "failed", !.at = 0, !.tries = 0] IN
            s \in NewsRequest /\ s.pc = "failed" /\ s.told = fetch[f].told
      BY <3>1, ResetToZero
    <3>3. fetch'[f].pc = "failed"
      BY <2>3, <3>2
    <3> QED
      BY <3>3, IdleIsSound
  <2> QED
    BY <2>1, <2>2, <2>3 DEF AfterAttempt
<1> QED
  BY <1>1, <1>3, <1>4, <1>5, <1>6, OneGoesOn

\* A page accounts for what is between the request's cursor and the next one, and
\* is of this time.
LEMMA AnswersArchiveInv ==
  ASSUME ArchiveInv, NewsInv, NEW f \in Fetches, SourceAnswers(f)
  PROVE  ArchiveInv'
<1>1. UNCHANGED <<newsClock, feed, setting, revision, current, lost, replay>>
        /\ skipped \subseteq skipped'
  BY DEF SourceAnswers
<1>2. fetch \in [Fetches -> NewsRequest] /\ PageIsSound(fetch[f]) /\ fetch[f].pc = "ask"
        /\ newsClock \in Int /\ ReplayHolds /\ feed \in Feeds
  BY DEF NewsInv, NewsShaped, ArchiveInv, SourceAnswers, Doing
<1>3. fetch[f].at \in Int /\ fetch[f].at >= 0 /\ Behind(fetch[f].at) /\ Len(feed) \in Nat
  BY <1>2, FeedType DEF NewsRequest, PageIsSound
<1>4. \A g \in Fetches \ {f} : fetch'[g] = fetch[g]
  BY <1>2 DEF SourceAnswers, Returns
<1>5. CASE Returns(f)
  <2>1. fetch'[f].pc = "idle"
    BY <1>2, <1>5, NoFetchType DEF Returns
  <2>2. PageIsSound(fetch[f])'
    BY <2>1 DEF PageIsSound
  <2> QED
    BY <1>1, <1>4, <2>2, RequestGoesOn
<1>6. CASE ~Returns(f)
  <2>1. PICK page \in Pages(fetch[f].at) :
          /\ fetch' = [fetch EXCEPT ![f].pc = IF page.items = <<>> THEN "advance" ELSE "archive",
                                    ![f].page = page, ![f].at = 0,
                                    ![f].observed = newsClock, ![f].tries = 0]
          /\ skipped' = skipped \cup PassedOver(fetch[f].at, page)
    BY <1>6 DEF SourceAnswers
  <2> DEFINE pc == IF page.items = <<>> THEN "advance" ELSE "archive"
             zero == 0
             time == newsClock
  <2>2. fetch'[f] = [fetch[f] EXCEPT !.pc = pc, !.page = page, !.at = zero,
                                     !.observed = time, !.tries = zero]
    BY <1>2, <2>1
  <2>3. (pc = "archive" /\ page.items # <<>>) \/ (pc = "advance" /\ page.items = <<>>)
    OBVIOUS
  <2>4. zero = 0 /\ \A n \in 1..zero : FALSE
    OBVIOUS
  <2>5. replay' # NoReplay => replay'.at < time
    BY <1>1, <1>2 DEF ReplayHolds
  <2> HIDE DEF pc, zero, time
  <2>6. fetch'[f].pc = pc /\ fetch'[f].page = page /\ fetch'[f].observed = time
          /\ fetch'[f].at = zero
    BY <1>2, <2>2 DEF NewsRequest
  <2>7. /\ page.next \in 0..Len(feed) /\ page.items \in Seq(DOMAIN feed)
        /\ \A p \in (fetch[f].at + 1)..page.next :
             p \in PassedOver(fetch[f].at, page) \/ \E n \in DOMAIN page.items : page.items[n] = p
    BY <1>2, PagesTyped
  <2>8. \A p \in 1..page.next : Accounted(p)' \/ Shows(page, p)
    <3>1. \A p \in 1..fetch[f].at : Accounted(p)'
      BY <1>1, <1>3 DEF Behind, Accounted, Archived
    <3>2. \A p \in (fetch[f].at + 1)..page.next : Accounted(p)' \/ Shows(page, p)
      BY <2>1, <2>7 DEF Accounted, Shows
    <3>3. \A p \in 1..page.next : p \in 1..fetch[f].at \/ p \in (fetch[f].at + 1)..page.next
      BY <1>3, <2>7
    <3> QED
      BY <3>1, <3>2, <3>3
  <2>9. PageIsRead(fetch[f].page)'
    BY <1>1, <2>6, <2>7, <2>8 DEF PageIsRead, Shows
  <2>10. PageIsSound(fetch[f])'
    <3>1. CASE pc = "archive"
      <4>1. 0 < Len(page.items)
        BY <2>3, <2>7, <3>1
      <4> QED
        BY <2>4, <2>5, <2>6, <2>9, <3>1, <4>1 DEF PageIsSound
    <3>2. CASE pc = "advance"
      <4>1. PageArchived(fetch[f].page)'
        BY <2>3, <2>6, <3>2 DEF PageArchived
      <4> QED
        BY <2>6, <2>9, <3>2, <4>1 DEF PageIsSound
    <3> QED
      BY <2>3, <3>1, <3>2
  <2> QED
    BY <1>1, <1>4, <2>10, RequestGoesOn
<1> QED
  BY <1>5, <1>6

\* The cursor and the snapshot are stored behind an archived page.
LEMMA SaveArchiveInv ==
  ASSUME ArchiveInv, NewsInv, NEW f \in Fetches, SaveCursor(f) \/ SaveSnapshot(f)
  PROVE  ArchiveInv'
<1>1. UNCHANGED <<newsClock, feed, revision, current, lost, replay, skipped>> /\ ArchiveGrows
  BY DEF SaveCursor, SaveSnapshot, ArchiveGrows, Archived
<1>2. fetch \in [Fetches -> NewsRequest] /\ PageIsSound(fetch[f]) /\ newsClock \in Int
        /\ StoreIsBehind /\ setting \in [cursor : Int, snapshot : NewsPage,
                                         disabled : {"unset", "true", "false"}]
  BY DEF NewsInv, NewsShaped, ArchiveInv
<1>3. \A g \in Fetches \ {f} : fetch'[g] = fetch[g]
  BY <1>2 DEF SaveCursor, SaveSnapshot, Returns
<1>4. fetch[f] \in NewsRequest /\ fetch[f].page \in NewsPage /\ Len(feed) \in Nat
  BY <1>2, FeedType DEF NewsRequest
<1>5. PageIsRead(fetch[f].page) /\ PageArchived(fetch[f].page)
  BY <1>2 DEF PageIsSound, SaveCursor, SaveSnapshot, Doing
<1>6. fetch[f].page.next >= 0 /\ Behind(fetch[f].page.next)
  <2>1. \A p \in 1..fetch[f].page.next : Accounted(p)
    BY <1>5 DEF PageIsRead, PageArchived, Shows, Accounted
  <2> QED
    BY <1>4, <1>5, <2>1 DEF PageIsRead, Behind
<1>7. PageIsSound(fetch'[f])
  <2>1. CASE SaveCursor(f)
    <3> DEFINE zero == 0
    <3>1. zero \in Int /\ fetch'[f] = [fetch[f] EXCEPT !.pc = "snapshot", !.observed = zero, !.at = zero]
      BY <1>2, <2>1 DEF SaveCursor
    <3> HIDE DEF zero
    <3>2. fetch'[f].pc = "snapshot" /\ fetch'[f].page = fetch[f].page
      BY <1>4, <3>1 DEF NewsRequest
    <3> QED
      BY <1>5, <3>2 DEF PageIsSound
  <2>2. CASE SaveSnapshot(f)
    BY <1>2, <2>2, IdleIsSound DEF SaveSnapshot, Returns
  <2> QED
    BY <2>1, <2>2
<1>8. StoreIsBehind'
  <2>1. setting'.cursor \in {setting.cursor, fetch[f].page.next}
          /\ setting'.snapshot \in {setting.snapshot, fetch[f].page}
    BY <1>2 DEF SaveCursor, SaveSnapshot
  <2>2. setting'.cursor >= 0 /\ Behind(setting'.cursor)
    BY <1>2, <1>6, <2>1 DEF StoreIsBehind
  <2>3. PageArchived(setting'.snapshot)
    BY <1>2, <1>5, <2>1 DEF StoreIsBehind
  <2> QED
    BY <1>1, <2>2, <2>3 DEF StoreIsBehind, Behind, Accounted, PageArchived, Archived
<1>9. (\A g \in Fetches : PageIsSound(fetch[g]))'
  <2>1. \A g \in Fetches : PageIsSound(fetch'[g])
    BY <1>3, <1>7 DEF ArchiveInv
  <2> QED
    BY <1>1, <2>1, SoundStays
<1> QED
  BY <1>1, <1>2, <1>8, <1>9, NothingArchived

\* The user, the clock and a restart leave the archive and the positions alone.
LEMMA OthersArchiveInv ==
  ASSUME ArchiveInv, NewsInv,
         (\E enabled \in BOOLEAN : SwitchSource(enabled)) \/ StoreSwitch \/ SwitchResearch
           \/ RestartNews \/ (\E i \in Ingestors : CooldownOver(i)) \/ NewsTick
           \/ UNCHANGED newsVars
  PROVE  ArchiveInv'
<1>1. UNCHANGED <<feed, revision, current, lost, replay, skipped>>
  BY DEF SwitchSource, StoreSwitch, SwitchResearch, RestartNews, CooldownOver, NewsTick, newsVars
<1>2. newsClock \in Int /\ newsClock' \in Int /\ newsClock' >= newsClock
  BY DEF SwitchSource, StoreSwitch, SwitchResearch, RestartNews, CooldownOver, NewsTick, newsVars,
         NewsInv, NewsShaped
<1>3. fetch \in [Fetches -> NewsRequest]
        /\ setting \in [cursor : Int, snapshot : NewsPage, disabled : {"unset", "true", "false"}]
  BY DEF NewsInv, NewsShaped
<1>4. setting'.cursor = setting.cursor /\ setting'.snapshot = setting.snapshot
  BY <1>3 DEF SwitchSource, StoreSwitch, SwitchResearch, RestartNews, CooldownOver, NewsTick,
     newsVars, Switched
<1>5. StoreIsBehind'
  BY <1>1, <1>4, StoreStays DEF ArchiveInv, ArchiveGrows, Archived
<1>6. ASSUME NEW g \in Fetches PROVE PageIsSound(fetch'[g])
  <2>1. PageIsSound(fetch[g])
    BY DEF ArchiveInv
  <2>2. ASSUME NEW enabled \in BOOLEAN, SwitchSource(enabled) PROVE PageIsSound(fetch'[g])
    <3> DEFINE told == fetch[g].told /\ ~enabled
    <3>1. fetch'[g] = [fetch[g] EXCEPT !.told = told]
      BY <2>2 DEF SwitchSource
    <3> HIDE DEF told
    <3>2. fetch'[g].pc = fetch[g].pc /\ fetch'[g].at = fetch[g].at
            /\ fetch'[g].page = fetch[g].page /\ fetch'[g].observed = fetch[g].observed
      BY <1>3, <3>1 DEF NewsRequest
    <3> QED
      BY <2>1, <3>2 DEF PageIsSound
  <2>3. CASE RestartNews
    BY <2>3, IdleIsSound DEF RestartNews
  <2>4. CASE StoreSwitch \/ SwitchResearch \/ (\E i \in Ingestors : CooldownOver(i)) \/ NewsTick
               \/ UNCHANGED newsVars
    BY <2>1, <2>4 DEF StoreSwitch, SwitchResearch, CooldownOver, NewsTick, newsVars
  <2> QED
    BY <2>2, <2>3, <2>4
<1>7. (\A g \in Fetches : PageIsSound(fetch[g]))'
  BY <1>1, <1>6, SoundStays DEF ArchiveGrows, Archived
<1> QED
  BY <1>1, <1>2, <1>5, <1>7, NothingArchived

\* What a replay shows is of a time before every page still to be archived.
LEMMA ReplayArchiveInv ==
  ASSUME ArchiveInv, NewsInv, NEW k \in 1..newsClock, ReplayAsOf(k)
  PROVE  ArchiveInv'
<1>1. UNCHANGED <<newsClock, feed, setting, revision, current, fetch, lost, skipped>> /\ Over(k)
        /\ replay' = [at |-> k, shown |-> AsOf(k)] /\ newsClock \in Int
  BY DEF ReplayAsOf, NewsInv, NewsShaped
<1>2. replay'.at = k /\ replay'.shown = AsOf(k) /\ k \in Int /\ k < newsClock
  BY <1>1 DEF Over
<1>3. ReplayHolds'
  BY <1>1, <1>2 DEF ReplayHolds, AsOf, KnownBy
<1>4. (\A g \in Fetches : PageIsSound(fetch[g]))'
  <2> SUFFICES ASSUME NEW g \in Fetches PROVE PageIsSound(fetch[g])'
    OBVIOUS
  <2>1. PageIsSound(fetch[g]) /\ (fetch[g].pc = "archive" => k < fetch[g].observed)
    BY <1>1 DEF ArchiveInv, Over, Doing
  <2>2. \A page : (PageIsRead(page) <=> PageIsRead(page)') /\ (PageArchived(page) <=> PageArchived(page)')
    BY <1>1 DEF PageIsRead, PageArchived, Shows, Accounted, Archived
  <2>3. \A n : (Behind(n) <=> Behind(n)') /\ (Archived(n) <=> Archived(n)')
    BY <1>1 DEF Behind, Accounted, Archived
  <2> QED
    BY <1>1, <1>2, <2>1, <2>2, <2>3 DEF PageIsSound
<1>5. StoreIsBehind'
  BY <1>1, StoreStays DEF ArchiveInv, ArchiveGrows, Archived
<1>6. ChainHolds'
  BY <1>1 DEF ArchiveInv, ChainHolds, Pairs, RevisionsCurrent, ReplacesStored, RevisionsChain
<1> QED
  BY <1>1, <1>3, <1>4, <1>5, <1>6 DEF ArchiveInv

\* An item is archived at most once, and leaves what was known before it alone.
LEMMA UpsertFacts ==
  ASSUME NEW item, NEW time, Upsert(item, time)
  PROVE  /\ DOMAIN revision' = DOMAIN revision \cup {item}
         /\ \A r \in DOMAIN revision : revision'[r] = revision[r]
         /\ item \in DOMAIN revision => revision' = revision /\ current' = current
         /\ item \notin DOMAIN revision =>
              /\ revision'[item].time = time /\ revision'[item].replaces = Replaced(item[1])
              /\ DOMAIN current' = DOMAIN current \cup {item[1]}
              /\ current'[item[1]] = item[2]
              /\ \A d \in DOMAIN current \ {item[1]} : current'[d] = current[d]
BY DEF Upsert, Extended, CurrentAfter, RevisionRow

\* The revision that is new replaces the one the document was at.
LEMMA UpsertChain ==
  ASSUME ChainHolds, NEW item, NEW time, item = <<item[1], item[2]>>, Upsert(item, time)
  PROVE  ChainHolds'
<1> DEFINE d == item[1]
           c == item[2]
<1>1. CASE item \in DOMAIN revision
  <2>1. revision' = revision /\ current' = current
    BY <1>1, UpsertFacts
  <2> QED
    BY <2>1 DEF ChainHolds, Pairs, RevisionsCurrent, ReplacesStored, RevisionsChain
<1>2. CASE item \notin DOMAIN revision
  <2> DEFINE Old == DOMAIN revision
  <2>1. /\ DOMAIN revision' = Old \cup {item} /\ item \notin Old
        /\ \A r \in Old : revision'[r] = revision[r]
        /\ revision'[item].replaces = Replaced(d)
        /\ DOMAIN current' = DOMAIN current \cup {d} /\ current'[d] = c
        /\ \A e \in DOMAIN current \ {d} : current'[e] = current[e]
    BY <1>2, UpsertFacts
  <2>2. /\ \A r \in Old : r = <<r[1], r[2]>> /\ r[1] \in DOMAIN current
        /\ \A e \in DOMAIN current : <<e, current[e]>> \in Old
        /\ item = <<d, c>>
    BY DEF ChainHolds, Pairs, RevisionsCurrent, RevisionsChain
  <2>3. \A r \in Old : revision[r].replaces = {}
          \/ \E b : revision[r].replaces = {b} /\ <<r[1], b>> \in Old
    BY DEF ChainHolds, ReplacesStored
  <2>4. /\ \A r, s \in Old :
             r[1] = s[1] /\ revision[r].replaces = revision[s].replaces => r = s
        /\ \A r \in Old : r[2] # current[r[1]] <=>
             \E s \in Old : s[1] = r[1] /\ revision[s].replaces = {r[2]}
    BY DEF ChainHolds, RevisionsChain
  <2>5. \/ d \notin DOMAIN current /\ Replaced(d) = {}
        \/ d \in DOMAIN current /\ Replaced(d) = {current[d]} /\ <<d, current[d]>> \in Old
    BY <2>2 DEF Replaced
  <2> HIDE DEF Old, d, c
  <2>6. Pairs'
    BY <2>1, <2>2 DEF Pairs
  <2>7. RevisionsCurrent'
    <3>1. DOMAIN current = {r[1] : r \in Old}
      BY DEF ChainHolds, RevisionsCurrent, Old
    <3>2. {r[1] : r \in Old \cup {item}} = {r[1] : r \in Old} \cup {item[1]}
      OBVIOUS
    <3> QED
      BY <2>1, <3>1, <3>2 DEF RevisionsCurrent, d
  <2>8. ReplacesStored'
    BY <2>1, <2>2, <2>3, <2>5 DEF ReplacesStored
  <2>9. RevisionsChain'
    <3>1. \A e \in DOMAIN current' : <<e, current'[e]>> \in DOMAIN revision'
      BY <2>1, <2>2
    <3>2. ASSUME NEW s \in Old, s[1] = d PROVE revision[s].replaces # Replaced(d)
      BY <2>2, <2>4, <2>5, <3>2
    <3>3. ASSUME NEW r \in DOMAIN revision', NEW s \in DOMAIN revision',
                 r[1] = s[1], revision'[r].replaces = revision'[s].replaces
          PROVE  r = s
      BY <2>1, <2>2, <2>4, <3>2, <3>3
    <3>4. ASSUME NEW s \in Old, s[1] = d PROVE revision[s].replaces # {c}
      BY <2>1, <2>2, <2>3, <3>4
    <3>5. ASSUME NEW r \in DOMAIN revision'
          PROVE  r[2] # current'[r[1]] <=>
                   \E s \in DOMAIN revision' : s[1] = r[1] /\ revision'[s].replaces = {r[2]}
      <4>1. CASE r = item
        <5>1. r[1] = d /\ r[2] = c /\ current'[r[1]] = r[2]
          BY <2>1, <2>2, <4>1
        <5>2. ASSUME NEW s \in DOMAIN revision', s[1] = d PROVE revision'[s].replaces # {c}
          <6>1. CASE s \in Old
            BY <2>1, <3>4, <5>2, <6>1
          <6>2. CASE s = item
            BY <2>1, <2>2, <2>5, <6>2
          <6> QED
            BY <2>1, <6>1, <6>2
        <5> QED
          BY <5>1, <5>2
      <4>2. CASE r \in Old /\ r[1] # d
        <5>1. current'[r[1]] = current[r[1]] /\ r[1] \in DOMAIN current
          BY <2>1, <2>2, <4>2
        <5>2. \A s : s \in DOMAIN revision' /\ s[1] = r[1] => s \in Old /\ revision'[s] = revision[s]
          BY <2>1, <2>2, <4>2
        <5>3. \A s \in Old : s \in DOMAIN revision' /\ revision'[s] = revision[s]
          BY <2>1
        <5>4. r[2] # current[r[1]] <=> \E s \in Old : s[1] = r[1] /\ revision[s].replaces = {r[2]}
          BY <2>4, <4>2
        <5> QED
          BY <5>1, <5>2, <5>3, <5>4
      <4>3. CASE r \in Old /\ r[1] = d
        <5>1. r[2] # c /\ current'[r[1]] = c
          BY <2>1, <2>2, <4>3
        <5>2. d \in DOMAIN current /\ revision'[item].replaces = {current[d]} /\ item[1] = d
          BY <2>1, <2>2, <2>5, <4>3
        <5>3. CASE r[2] = current[d]
          BY <2>1, <4>3, <5>1, <5>2, <5>3
        <5>4. CASE r[2] # current[d]
          <6>1. PICK s \in Old : s[1] = r[1] /\ revision[s].replaces = {r[2]}
            BY <2>4, <4>3, <5>4
          <6> QED
            BY <2>1, <5>1, <6>1
        <5> QED
          BY <5>3, <5>4
      <4> QED
        BY <2>1, <4>1, <4>2, <4>3
    <3> QED
      BY <3>1, <3>3, <3>5 DEF RevisionsChain
  <2> QED
    BY <2>6, <2>7, <2>8, <2>9 DEF ChainHolds
<1> QED
  BY <1>1, <1>2

LEMMA UpsertReplay ==
  ASSUME NEW item, NEW time \in Int, NEW k \in Int, k < time, Upsert(item, time)
  PROVE  AsOf(k)' = AsOf(k)
<1>1. KnownBy(k)' = KnownBy(k)
  <2>1. /\ DOMAIN revision' = DOMAIN revision \cup {item}
        /\ \A r \in DOMAIN revision : revision'[r] = revision[r]
        /\ item \notin DOMAIN revision => revision'[item].time = time
    BY UpsertFacts
  <2>2. item \notin DOMAIN revision => ~(revision'[item].time <= k)
    BY <2>1
  <2> QED
    BY <2>1, <2>2 DEF KnownBy
<1>2. KnownBy(k) \subseteq DOMAIN revision
  BY DEF KnownBy
<1> QED
  BY <1>1, <1>2, UpsertFacts DEF AsOf

\* persist_success: an item is archived, or its write fails.
LEMMA ArchiveArchiveInv ==
  ASSUME ArchiveInv, NewsInv, NEW f \in Fetches, ArchiveItem(f)
  PROVE  ArchiveInv'
<1>0. PICK items, n, p, item, time :
        /\ items = fetch[f].page.items /\ n = fetch[f].at + 1 /\ p = items[n] /\ item = feed[p]
        /\ time = fetch[f].observed
  OBVIOUS
<1>1. UNCHANGED <<newsClock, feed, setting, replay, skipped>> /\ fetch[f].pc = "archive"
        /\ fetch' = [fetch EXCEPT ![f].at = @ + 1, ![f].pc = AfterItem(f)]
        /\ \/ Upsert(item, time) /\ UNCHANGED lost
           \/ lost' = lost \cup {p} /\ UNCHANGED <<revision, current>>
  BY <1>0 DEF ArchiveItem, Doing
<1>2. fetch \in [Fetches -> NewsRequest] /\ PageIsSound(fetch[f])
        /\ fetch[f] \in NewsRequest /\ fetch[f].at \in Int /\ time \in Int
  BY <1>0 DEF NewsInv, NewsShaped, ArchiveInv, NewsRequest
<1>3. /\ n \in 1..Len(items) /\ items \in Seq(DOMAIN feed) /\ Len(items) \in Nat
      /\ (replay # NoReplay => replay.at < time)
      /\ \A m \in 1..(n - 1) : Archived(items[m])
  BY <1>0, <1>1, <1>2 DEF PageIsSound, PageIsRead
<1>4. p \in DOMAIN feed /\ item = <<item[1], item[2]>>
  <2>1. p \in DOMAIN feed
    BY <1>0, <1>3
  <2>2. feed \in Feeds
    BY DEF ArchiveInv
  <2> QED
    BY <1>0, <2>1, <2>2, NewsAssumption
<1>5. Upsert(item, time) => DOMAIN revision' = DOMAIN revision \cup {item}
  BY UpsertFacts
<1>6. ArchiveGrows /\ Archived(p)'
  <2>1. item \in DOMAIN revision' \/ p \in lost'
    BY <1>1, <1>5
  <2>2. DOMAIN revision \subseteq DOMAIN revision' /\ lost \subseteq lost' /\ feed' = feed
    BY <1>1, <1>5
  <2> QED
    BY <1>0, <1>1, <2>1, <2>2 DEF ArchiveGrows, Archived
<1>7. StoreIsBehind'
  BY <1>1, <1>6, StoreStays DEF ArchiveInv
<1>8. (\A g \in Fetches : PageIsSound(fetch[g]))'
  <2>1. \A r : PageIsSound(r) => PageIsSound(r)'
    BY <1>1, <1>6, SoundStays
  <2>2. fetch'[f].at = n /\ fetch'[f].pc = AfterItem(f) /\ fetch'[f].page = fetch[f].page
          /\ fetch'[f].observed = time
    <3>1. fetch'[f] = [fetch[f] EXCEPT !.at = n, !.pc = AfterItem(f)]
      BY <1>0, <1>1, <1>2
    <3> QED
      BY <1>0, <1>2, <3>1 DEF NewsRequest
  <2>3. AfterItem(f) = IF n < Len(items) THEN "archive" ELSE "advance"
    BY <1>0 DEF AfterItem
  <2>4. \A m \in 1..n : Archived(items[m])'
    <3>1. \A m \in 1..n : m \in 1..(n - 1) \/ m = n
      BY <1>2, <1>3
    <3>2. Archived(items[n])'
      BY <1>0, <1>6
    <3>3. \A m \in 1..(n - 1) : Archived(items[m])'
      BY <1>3, <1>6 DEF ArchiveGrows
    <3> QED
      BY <3>1, <3>2, <3>3
  <2>5. PageIsRead(fetch[f].page)'
    <3>1. PageIsRead(fetch[f].page)
      BY <1>1, <1>2 DEF PageIsSound
    <3>2. \A q : Accounted(q) => Accounted(q)'
      BY <1>6 DEF ArchiveGrows, Accounted
    <3> QED
      BY <1>1, <2>2, <3>1, <3>2 DEF PageIsRead, Shows
  <2>6. PageIsSound(fetch[f])'
    <3>1. CASE n < Len(items)
      <4>1. 0 <= n
        BY <1>3
      <4> QED
        BY <1>0, <1>1, <1>3, <2>2, <2>3, <2>4, <2>5, <3>1, <4>1 DEF PageIsSound
    <3>2. CASE n = Len(items)
      <4>1. AfterItem(f) = "advance"
        BY <1>3, <2>3, <3>2
      <4>2. DOMAIN items = 1..n
        BY <1>3, <3>2
      <4>3. PageArchived(fetch[f].page)'
        BY <1>0, <2>2, <2>4, <4>2 DEF PageArchived
      <4> QED
        BY <2>2, <2>5, <4>1, <4>3 DEF PageIsSound
    <3> QED
      BY <1>3, <3>1, <3>2
  <2>7. \A g \in Fetches \ {f} : fetch'[g] = fetch[g]
    BY <1>1, <1>2
  <2>8. ASSUME NEW g \in Fetches \ {f} PROVE PageIsSound(fetch[g])'
    <3>1. PageIsSound(fetch[g])
      BY DEF ArchiveInv
    <3> QED
      BY <2>1, <2>7, <3>1
  <2> QED
    BY <2>6, <2>8
<1>9. ReplayHolds'
  <2>1. CASE Upsert(item, time)
    <3>1. replay # NoReplay => AsOf(replay.at)' = AsOf(replay.at)
      BY <1>1, <1>2, <1>3, <2>1, UpsertReplay DEF ArchiveInv, ReplayHolds
    <3> QED
      BY <1>1, <3>1 DEF ArchiveInv, ReplayHolds
  <2>2. CASE UNCHANGED revision
    BY <1>1, <2>2 DEF ArchiveInv, ReplayHolds, AsOf, KnownBy
  <2> QED
    BY <1>1, <2>1, <2>2
<1>10. ChainHolds'
  <2>1. CASE Upsert(item, time)
    BY <1>4, <2>1, UpsertChain DEF ArchiveInv
  <2>2. CASE UNCHANGED <<revision, current>>
    BY <2>2 DEF ArchiveInv, ChainHolds, Pairs, RevisionsCurrent, ReplacesStored, RevisionsChain
  <2> QED
    BY <1>1, <2>1, <2>2
<1> QED
  BY <1>1, <1>7, <1>8, <1>9, <1>10 DEF ArchiveInv

LEMMA ArchiveStep == NewsInv /\ ArchiveInv /\ [NewsNext]_newsVars => ArchiveInv'
<1> SUFFICES ASSUME NewsInv, ArchiveInv, [NewsNext]_newsVars PROVE ArchiveInv'
  OBVIOUS
<1>1. ASSUME NEW f \in Fetches,
             FetchStep(f) \/ DropFetch(f) \/ \E i \in Ingestors : BeginFetch(f, i)
      PROVE  ArchiveInv'
  BY <1>1, AsideArchiveInv, AskArchiveInv, AnswersArchiveInv, ArchiveArchiveInv, SaveArchiveInv
     DEF FetchStep
<1>2. ASSUME NEW k \in 1..newsClock, ReplayAsOf(k)
      PROVE  ArchiveInv'
  BY <1>2, ReplayArchiveInv
<1> QED
  BY <1>1, <1>2, OthersArchiveInv DEF NewsNext

\* What is behind the stored cursor is in the archive, but for items whose write
\* failed and for those the source left out of the page the cursor came with;
\* what the stored snapshot shows is in the archive; the revisions of a document
\* replace one another, each once, up to the one it is at; and what a replay
\* showed of a time that is over does not change (persist_success,
\* news_archive_upsert, news_archive_as_of): for any feeds, either kind of
\* source, any pages it may answer, any number of requests, restarts and kills.
THEOREM NewsArchiveIsSound == NewsSpec => []ArchiveIsSound
<1>1. ArchiveInv => ArchiveIsSound /\ FeedIsOne
  BY ArchiveInvSuffices DEF ArchiveInv, FeedIsOne
<1> QED
  BY <1>1, InitNewsInv, NewsStep, InitArchiveInv, ArchiveStep, PTL DEF NewsSpec

-----------------------------------------------------------------------------
\* The types of the news: a page ends within the feed, attempts and failures are
\* counted up to their limits, and a document has a content when it has a revision.
RequestCounted(r) == r.page.next <= Len(feed) /\ r.tries <= MaxRetries
RequestsCounted == \A f \in Fetches : RequestCounted(fetch[f])
FailuresCounted == \A i \in Ingestors : runtime[i].failures \in 0..(NewsThreshold - 1)
CursorInFeed == setting.cursor <= Len(feed)
NewsPermitsRespected == \A i \in Ingestors : Cardinality(Holding(i)) <= NewsPermits

NewsTypeInv ==
  /\ NewsInv /\ ArchiveInv
  /\ newsClock \in Nat /\ RequestsCounted /\ FailuresCounted /\ CursorInFeed
  /\ NewsPermitsRespected

LEMMA NewsTyped == NewsTypeInv => NewsTypeOK
<1> SUFFICES ASSUME NewsTypeInv PROVE NewsTypeOK
  OBVIOUS
<1>1. NewsShaped /\ feed \in Feeds
  BY DEF NewsTypeInv, NewsInv, ArchiveInv
<1>2. \A i \in Ingestors : runtime[i].enabled \in BOOLEAN
                          /\ runtime[i].failures \in 0..(NewsThreshold - 1)
                          /\ runtime[i].circuit \in {"closed", "open", "due"}
  BY <1>1 DEF NewsTypeInv, FailuresCounted, NewsShaped, NewsHealth
<1>3. /\ setting.disabled \in {"unset", "true", "false"} /\ off \in BOOLEAN
      /\ switch.pc \in {"idle", "store", "research", "again"}
  BY <1>1 DEF NewsShaped
<1>4. DOMAIN current = {r[1] : r \in DOMAIN revision}
  BY DEF NewsTypeInv, ArchiveInv, ChainHolds, RevisionsCurrent
<1> QED
  BY <1>1, <1>2, <1>3, <1>4 DEF NewsTypeInv, NewsTypeOK, RequestsCounted, RequestCounted,
     CursorInFeed, NewsPermitsRespected

LEMMA NoFetchCounted ==
  ASSUME ArchiveInv
  PROVE  RequestCounted(NoFetch)
BY FeedType, NoPageType, NewsAssumption DEF RequestCounted, NoFetch

LEMMA InitNewsTypeInv == NewsInit => NewsTypeInv
<1> SUFFICES ASSUME NewsInit PROVE NewsTypeInv
  OBVIOUS
<1>1. NewsInv /\ ArchiveInv
  BY InitNewsInv, InitArchiveInv
<1>2. RequestsCounted
  BY <1>1, NoFetchCounted DEF NewsInit, RequestsCounted
<1>3. newsClock \in Nat /\ FailuresCounted
  BY NewsAssumption DEF NewsInit, NeverAsked, FailuresCounted
<1>4. CursorInFeed
  BY <1>1, FeedType DEF NewsInit, CursorInFeed
<1>5. NewsPermitsRespected
  <2>1. \A i \in Ingestors : Holding(i) = {}
    BY DEF NewsInit, NoFetch, Holding
  <2>2. NewsPermits \in Nat /\ Cardinality({}) = 0
    BY FS_EmptySet, NewsAssumption
  <2> QED
    BY <2>1, <2>2 DEF NewsPermitsRespected
<1> QED
  BY <1>1, <1>2, <1>3, <1>4, <1>5 DEF NewsTypeInv

\* One request changes, or none.
LEMMA RequestsStep ==
  ASSUME NewsTypeInv, [NewsNext]_newsVars
  PROVE  RequestsCounted'
<1>0. /\ NewsInv /\ ArchiveInv /\ RequestsCounted /\ fetch \in [Fetches -> NewsRequest]
      /\ RequestCounted(NoFetch) /\ Len(feed) \in Nat /\ MaxRetries \in Nat
  BY NoFetchCounted, FeedType, NewsAssumption DEF NewsTypeInv, NewsInv, NewsShaped
<1>1. feed' = feed
  BY FeedStays
<1>2. ASSUME \A g \in Fetches : \/ fetch'[g] = NoFetch
                                \/ fetch'[g].page = fetch[g].page /\ fetch'[g].tries = fetch[g].tries
                                \/ RequestCounted(fetch'[g])
      PROVE  RequestsCounted'
  BY <1>0, <1>1, <1>2 DEF RequestsCounted, RequestCounted
<1>3. ASSUME NEW f \in Fetches, NEW r,
             fetch' = [fetch EXCEPT ![f] = r],
             \/ r = NoFetch
             \/ r.page = fetch[f].page /\ r.tries = fetch[f].tries
             \/ RequestCounted(r)
      PROVE  RequestsCounted'
  BY <1>0, <1>2, <1>3
<1>4. ASSUME NEW f \in Fetches, Returns(f) PROVE RequestsCounted'
  BY <1>3, <1>4 DEF Returns
<1>5. ASSUME NEW f \in Fetches, NEW r, r \in NewsRequest, fetch' = [fetch EXCEPT ![f] = r],
             r.page = fetch[f].page, r.tries = fetch[f].tries
      PROVE  RequestsCounted'
  BY <1>3, <1>5
<1>6. ASSUME NEW f \in Fetches, NEW pc, Passes(f, pc) PROVE RequestsCounted'
  BY <1>0, <1>2, <1>6 DEF Passes, NewsRequest
<1>7. ASSUME NEW f \in Fetches, FetchStep(f) PROVE RequestsCounted'
  <2>1. CASE ReadSetting(f) \/ ApplySetting(f) \/ LoadCursor(f) \/ ArchiveItem(f) \/ SaveCursor(f)
    <3>1. CASE ReadSetting(f)
      <4>1. \/ fetch' = [fetch EXCEPT ![f].pc = "apply", ![f].read = setting.disabled]
            \/ fetch' = [fetch EXCEPT ![f].pc = "check", ![f].told = FALSE]
        BY <3>1 DEF ReadSetting
      <4>2. CASE fetch' = [fetch EXCEPT ![f].pc = "apply", ![f].read = setting.disabled]
        BY <1>0, <1>2, <4>2 DEF NewsRequest
      <4>3. CASE fetch' = [fetch EXCEPT ![f].pc = "check", ![f].told = FALSE]
        BY <1>0, <1>2, <4>3 DEF NewsRequest
      <4> QED
        BY <4>1, <4>2, <4>3
    <3>2. CASE ApplySetting(f)
      <4>1. fetch' = [fetch EXCEPT ![f].pc = "check", ![f].read = "unset"]
        BY <3>2 DEF ApplySetting
      <4> QED
        BY <1>0, <1>2, <4>1 DEF NewsRequest
    <3>3. CASE LoadCursor(f)
      <4>1. PICK at : fetch' = [fetch EXCEPT ![f].pc = "permit", ![f].at = at]
        BY <3>3 DEF LoadCursor, StartsAt
      <4> QED
        BY <1>0, <1>2, <4>1 DEF NewsRequest
    <3>4. CASE ArchiveItem(f)
      <4>1. fetch' = [fetch EXCEPT ![f].at = @ + 1, ![f].pc = AfterItem(f)]
        BY <3>4 DEF ArchiveItem
      <4> QED
        BY <1>0, <1>2, <4>1 DEF NewsRequest
    <3>5. CASE SaveCursor(f)
      <4>1. fetch' = [fetch EXCEPT ![f].pc = "snapshot", ![f].observed = 0, ![f].at = 0]
        BY <3>5 DEF SaveCursor
      <4> QED
        BY <1>0, <1>2, <4>1 DEF NewsRequest
    <3> QED
      BY <2>1, <3>1, <3>2, <3>3, <3>4, <3>5
  <2>2. CASE Check(f) \/ Fallback(f) \/ SaveSnapshot(f) \/ TakePermit(f) \/ MarkFailure(f)
    BY <1>4, <1>6, <2>2 DEF Check, Fallback, SaveSnapshot, TakePermit, MarkFailure
  <2>3. CASE SourceAnswers(f)
    <3>1. CASE Returns(f)
      BY <1>4, <3>1
    <3>2. CASE \E page \in Pages(fetch[f].at), pc \in NewsPc :
                 fetch' = [fetch EXCEPT ![f].pc = pc, ![f].page = page, ![f].at = 0,
                                        ![f].observed = newsClock, ![f].tries = 0]
      <4>1. PICK page \in Pages(fetch[f].at), pc \in NewsPc :
              fetch' = [fetch EXCEPT ![f].pc = pc, ![f].page = page, ![f].at = 0,
                                     ![f].observed = newsClock, ![f].tries = 0]
        BY <3>2
      <4>2. fetch'[f].page = page /\ fetch'[f].tries = 0 /\ \A g \in Fetches \ {f} : fetch'[g] = fetch[g]
        BY <1>0, <4>1 DEF NewsRequest
      <4>3. page.next <= Len(feed)
        BY <1>0, PagesTyped DEF ArchiveInv
      <4>4. RequestCounted(fetch'[f])
        BY <1>0, <4>2, <4>3 DEF RequestCounted
      <4> QED
        BY <1>2, <4>2, <4>4
    <3> QED
      BY <2>3, <3>1, <3>2 DEF SourceAnswers, NewsPc
  <2>4. CASE \E retryable \in BOOLEAN : SourceFails(f, retryable)
    <3>1. PICK retryable \in BOOLEAN : SourceFails(f, retryable)
      BY <2>4
    <3>2. fetch' = [fetch EXCEPT ![f] = AfterAttempt(f, retryable)]
      BY <3>1 DEF SourceFails
    <3>3. RequestCounted(AfterAttempt(f, retryable))
      <4>1. fetch[f] \in NewsRequest /\ RequestCounted(fetch[f])
        BY <1>0 DEF RequestsCounted
      <4> QED
        BY <1>0, <4>1 DEF AfterAttempt, RequestCounted, NewsRequest
    <3> QED
      BY <1>3, <3>2, <3>3
  <2> QED
    BY <1>7, <2>1, <2>2, <2>3, <2>4 DEF FetchStep
<1>8. ASSUME NEW f \in Fetches, NEW i \in Ingestors, BeginFetch(f, i) PROVE RequestsCounted'
  <2> DEFINE r == [NoFetch EXCEPT !.pc = "setting", !.by = i,
                     !.told = off /\ \A g \in Fetches : fetch[g].pc \notin {"setting", "apply"}]
  <2>1. fetch' = [fetch EXCEPT ![f] = r]
    BY <1>8 DEF BeginFetch
  <2>2. r.page = NoFetch.page /\ r.tries = NoFetch.tries
    BY DEF NoFetch
  <2> HIDE DEF r
  <2>3. RequestCounted(r)
    BY <1>0, <2>2 DEF RequestCounted
  <2> QED
    BY <1>3, <2>1, <2>3
<1>9. ASSUME NEW enabled \in BOOLEAN, SwitchSource(enabled) PROVE RequestsCounted'
  BY <1>0, <1>2, <1>9 DEF SwitchSource, NewsRequest
<1>10. CASE RestartNews
  BY <1>2, <1>10 DEF RestartNews
<1>11. ASSUME UNCHANGED fetch PROVE RequestsCounted'
  BY <1>2, <1>11
<1>12. CASE StoreSwitch \/ SwitchResearch \/ NewsTick \/ UNCHANGED newsVars
  BY <1>11, <1>12 DEF StoreSwitch, SwitchResearch, NewsTick, newsVars
<1>13. ASSUME NEW i \in Ingestors, CooldownOver(i) PROVE RequestsCounted'
  BY <1>11, <1>13 DEF CooldownOver
<1>14. ASSUME NEW k, ReplayAsOf(k) PROVE RequestsCounted'
  BY <1>11, <1>14 DEF ReplayAsOf
<1>15. ASSUME NEW f \in Fetches, DropFetch(f) PROVE RequestsCounted'
  BY <1>4, <1>15 DEF DropFetch
<1> QED
  BY <1>7, <1>8, <1>9, <1>10, <1>12, <1>13, <1>14, <1>15 DEF NewsNext

\* The failures of an ingestor are counted in one place, which starts over there.
LEMMA FailuresStep ==
  ASSUME NewsTypeInv, [NewsNext]_newsVars
  PROVE  FailuresCounted'
<1>0. /\ NewsInv /\ FailuresCounted /\ runtime \in [Ingestors -> NewsHealth]
      /\ fetch \in [Fetches -> NewsRequest] /\ NewsThreshold \in Nat \ {0}
      /\ \A f \in Fetches : fetch[f].by \in Ingestors
  BY NewsAssumption DEF NewsTypeInv, NewsInv, NewsShaped, NewsRequest
<1>1. ASSUME \A i \in Ingestors : runtime'[i].failures \in {0, runtime[i].failures}
      PROVE  FailuresCounted'
  BY <1>0, <1>1 DEF FailuresCounted
<1>2. ASSUME UNCHANGED runtime PROVE FailuresCounted'
  BY <1>1, <1>2
<1>3. ASSUME NEW f \in Fetches, ApplySetting(f) \/ SourceAnswers(f) PROVE FailuresCounted'
  <2>1. CASE ApplySetting(f)
    <3>1. \/ runtime' = runtime
          \/ runtime' = [runtime EXCEPT ![fetch[f].by].enabled = (fetch[f].read = "false")]
      BY <2>1 DEF ApplySetting
    <3>2. \A i \in Ingestors : runtime'[i].failures = runtime[i].failures
      BY <1>0, <3>1 DEF NewsHealth
    <3> QED
      BY <1>1, <3>2
  <2>2. CASE SourceAnswers(f)
    <3>1. runtime' = [runtime EXCEPT ![fetch[f].by].failures = 0, ![fetch[f].by].circuit = "closed"]
      BY <2>2 DEF SourceAnswers
    <3>2. \A i \in Ingestors : runtime'[i].failures \in {0, runtime[i].failures}
      BY <1>0, <3>1 DEF NewsHealth
    <3> QED
      BY <1>1, <3>2
  <2> QED
    BY <1>3, <2>1, <2>2
<1>4. ASSUME NEW f \in Fetches, MarkFailure(f) PROVE FailuresCounted'
  <2> DEFINE r == runtime[fetch[f].by]
  <2>1. r \in NewsHealth /\ r.failures \in 0..(NewsThreshold - 1)
    BY <1>0 DEF FailuresCounted
  <2>2. runtime' = [runtime EXCEPT ![fetch[f].by] =
          IF r.circuit = "due" \/ r.failures + 1 >= NewsThreshold
          THEN [r EXCEPT !.failures = 0, !.circuit = "open"]
          ELSE [r EXCEPT !.failures = @ + 1]]
    BY <1>4 DEF MarkFailure
  <2>3. /\ [r EXCEPT !.failures = 0, !.circuit = "open"].failures = 0
        /\ [r EXCEPT !.failures = @ + 1].failures = r.failures + 1
    BY <2>1 DEF NewsHealth
  <2> HIDE DEF r
  <2>4. runtime'[fetch[f].by].failures \in 0..(NewsThreshold - 1)
    BY <1>0, <2>1, <2>2, <2>3
  <2>5. \A i \in Ingestors : i # fetch[f].by => runtime'[i] = runtime[i]
    BY <1>0, <2>2
  <2> QED
    BY <1>0, <2>4, <2>5 DEF FailuresCounted
<1>5. ASSUME NEW f \in Fetches, FetchStep(f) PROVE FailuresCounted'
  <2>1. CASE ApplySetting(f) \/ SourceAnswers(f) \/ MarkFailure(f)
    BY <1>3, <1>4, <2>1
  <2>2. CASE ~(ApplySetting(f) \/ SourceAnswers(f) \/ MarkFailure(f))
    <3>1. UNCHANGED runtime
      BY <1>5, <2>2 DEF FetchStep, ReadSetting, Check, LoadCursor, TakePermit, SourceFails,
         Fallback, ArchiveItem, SaveCursor, SaveSnapshot
    <3> QED
      BY <1>2, <3>1
  <2> QED
    BY <2>1, <2>2
<1>6. ASSUME NEW f \in Fetches, DropFetch(f) \/ \E i \in Ingestors : BeginFetch(f, i)
      PROVE  FailuresCounted'
  BY <1>2, <1>6 DEF DropFetch, BeginFetch
<1>7. ASSUME NEW i \in Ingestors, CooldownOver(i) PROVE FailuresCounted'
  BY <1>0, <1>1, <1>7 DEF CooldownOver, NewsHealth
<1>8. ASSUME NEW enabled \in BOOLEAN, SwitchSource(enabled) PROVE FailuresCounted'
  BY <1>0, <1>1, <1>8 DEF SwitchSource, NewsHealth
<1>9. CASE SwitchResearch
  BY <1>0, <1>1, <1>9 DEF SwitchResearch, NewsHealth
<1>10. CASE RestartNews
  BY <1>1, <1>10 DEF RestartNews, NeverAsked
<1>11. CASE StoreSwitch \/ NewsTick \/ (\E k \in 1..newsClock : ReplayAsOf(k)) \/ UNCHANGED newsVars
  BY <1>2, <1>11 DEF StoreSwitch, NewsTick, ReplayAsOf, newsVars
<1> QED
  BY <1>5, <1>6, <1>7, <1>8, <1>9, <1>10, <1>11 DEF NewsNext

\* The cursor that is stored came with a page.
LEMMA CursorStep ==
  ASSUME NewsTypeInv, [NewsNext]_newsVars
  PROVE  CursorInFeed' /\ newsClock' \in Nat
<1>0. /\ NewsInv /\ CursorInFeed /\ RequestsCounted /\ newsClock \in Nat
      /\ setting \in [cursor : Int, snapshot : NewsPage, disabled : {"unset", "true", "false"}]
  BY DEF NewsTypeInv, NewsInv, NewsShaped
<1>1. feed' = feed /\ newsClock' \in {newsClock, newsClock + 1}
  BY FeedStays DEF NewsNext, FetchStep, newsVars, BeginFetch, ReadSetting, ApplySetting, Check,
     LoadCursor, TakePermit, SourceAnswers, SourceFails, MarkFailure, CooldownOver, Fallback,
     ArchiveItem, SaveCursor, SaveSnapshot, SwitchSource, StoreSwitch, SwitchResearch, DropFetch,
     RestartNews, ReplayAsOf, NewsTick
<1>2. ASSUME setting'.cursor = setting.cursor PROVE CursorInFeed'
  BY <1>0, <1>1, <1>2 DEF CursorInFeed
<1>3. ASSUME NEW f \in Fetches, SaveCursor(f) PROVE CursorInFeed'
  <2>1. setting' = setting \/ setting' = [setting EXCEPT !.cursor = fetch[f].page.next]
    BY <1>3 DEF SaveCursor
  <2>2. setting'.cursor = setting.cursor \/ setting'.cursor = fetch[f].page.next
    BY <1>0, <2>1
  <2> QED
    BY <1>0, <1>1, <2>2 DEF CursorInFeed, RequestsCounted, RequestCounted
<1>4. ASSUME NEW f \in Fetches, FetchStep(f) PROVE CursorInFeed'
  <2>1. CASE SaveCursor(f)
    BY <1>3, <2>1
  <2>2. CASE SaveSnapshot(f)
    <3>1. setting'.cursor = setting.cursor
      BY <1>0, <2>2 DEF SaveSnapshot
    <3> QED
      BY <1>2, <3>1
  <2>3. CASE ~(SaveCursor(f) \/ SaveSnapshot(f))
    <3>1. UNCHANGED setting
      BY <1>4, <2>3 DEF FetchStep, ReadSetting, ApplySetting, Check, LoadCursor, TakePermit,
         SourceAnswers, SourceFails, MarkFailure, Fallback, ArchiveItem
    <3> QED
      BY <1>2, <3>1
  <2> QED
    BY <2>1, <2>2, <2>3
<1>5. ASSUME NEW f \in Fetches, DropFetch(f) \/ \E i \in Ingestors : BeginFetch(f, i)
      PROVE  CursorInFeed'
  BY <1>2, <1>5 DEF DropFetch, BeginFetch
<1>6. ASSUME NEW i \in Ingestors, CooldownOver(i) PROVE CursorInFeed'
  BY <1>2, <1>6 DEF CooldownOver
<1>7. ASSUME NEW enabled \in BOOLEAN, SwitchSource(enabled) PROVE CursorInFeed'
  BY <1>2, <1>7 DEF SwitchSource
<1>8. ASSUME StoreSwitch PROVE CursorInFeed'
  <2>1. setting' = setting \/ setting' = Switched(switch.enabled)
    BY <1>8 DEF StoreSwitch
  <2>2. setting'.cursor = setting.cursor
    BY <1>0, <2>1 DEF Switched
  <2> QED
    BY <1>2, <2>2
<1>9. ASSUME \/ SwitchResearch \/ RestartNews \/ NewsTick \/ UNCHANGED newsVars
             \/ \E k \in 1..newsClock : ReplayAsOf(k)
      PROVE  CursorInFeed'
  BY <1>2, <1>9 DEF SwitchResearch, RestartNews, NewsTick, ReplayAsOf, newsVars
<1>10. CursorInFeed'
  BY <1>4, <1>5, <1>6, <1>7, <1>8, <1>9 DEF NewsNext
<1> QED
  BY <1>0, <1>1, <1>10

-----------------------------------------------------------------------------
\* The permits.
WithPermit == {"ask", "archive", "advance", "snapshot", "failed", "fallback"}

LEMMA HoldingFinite ==
  ASSUME NEW i
  PROVE  IsFiniteSet(Holding(i)) /\ Cardinality(Holding(i)) \in Nat
<1>1. Holding(i) \subseteq Fetches
  BY DEF Holding
<1> QED
  BY <1>1, NewsAssumption, FS_Subset, FS_CardinalityType

LEMMA NewsPermitsStep ==
  ASSUME NewsTypeInv, [NewsNext]_newsVars
  PROVE  NewsPermitsRespected'
<1>0. NewsPermitsRespected /\ fetch \in [Fetches -> NewsRequest] /\ NewsPermits \in Nat
  BY NewsAssumption DEF NewsTypeInv, NewsInv, NewsShaped
<1>1. ASSUME \A g \in Fetches : fetch'[g].pc \in WithPermit =>
               fetch[g].pc \in WithPermit /\ fetch'[g].by = fetch[g].by
      PROVE  NewsPermitsRespected'
  <2> SUFFICES ASSUME NEW i \in Ingestors PROVE Cardinality(Holding(i)') <= NewsPermits
    BY DEF NewsPermitsRespected
  <2>1. Holding(i)' \subseteq Holding(i)
    BY <1>1 DEF Holding, WithPermit
  <2>2. /\ Cardinality(Holding(i)') <= Cardinality(Holding(i)) /\ Cardinality(Holding(i)') \in Nat
        /\ Cardinality(Holding(i)) \in Nat
    BY <2>1, HoldingFinite, FS_Subset, FS_CardinalityType
  <2> QED
    BY <1>0, <2>2 DEF NewsPermitsRespected
<1>2. ASSUME NEW f \in Fetches, NEW r, fetch' = [fetch EXCEPT ![f] = r],
             r.pc \in WithPermit => fetch[f].pc \in WithPermit /\ r.by = fetch[f].by
      PROVE  NewsPermitsRespected'
  BY <1>0, <1>1, <1>2
<1>3. ASSUME NEW f \in Fetches, Returns(f) PROVE NewsPermitsRespected'
  BY <1>2, <1>3 DEF Returns, NoFetch, WithPermit
<1>4. ASSUME NEW f \in Fetches, NEW pc, Passes(f, pc),
             pc \in WithPermit => fetch[f].pc \in WithPermit
      PROVE  NewsPermitsRespected'
  <2>1. /\ \A g \in Fetches \ {f} : fetch'[g] = fetch[g]
        /\ fetch'[f].pc = pc /\ fetch'[f].by = fetch[f].by
    BY <1>0, <1>4 DEF Passes, NewsRequest
  <2> QED
    BY <1>1, <1>4, <2>1
<1>5. ASSUME NEW f \in Fetches, TakePermit(f) PROVE NewsPermitsRespected'
  <2> SUFFICES ASSUME NEW i \in Ingestors PROVE Cardinality(Holding(i)') <= NewsPermits
    BY DEF NewsPermitsRespected
  <2>1. /\ \A g \in Fetches \ {f} : fetch'[g] = fetch[g]
        /\ fetch'[f].by = fetch[f].by
    BY <1>0, <1>5 DEF TakePermit, Passes, NewsRequest
  <2>2. IsFiniteSet(Holding(i)) /\ Cardinality(Holding(i)) \in Nat /\ Cardinality(Holding(i)) <= NewsPermits
    BY <1>0, HoldingFinite DEF NewsPermitsRespected
  <2>3. CASE fetch[f].by # i
    <3>1. Holding(i)' \subseteq Holding(i)
      BY <2>1, <2>3 DEF Holding
    <3>2. Cardinality(Holding(i)') <= Cardinality(Holding(i)) /\ Cardinality(Holding(i)') \in Nat
      BY <2>2, <3>1, FS_Subset, FS_CardinalityType
    <3> QED
      BY <1>0, <2>2, <3>2
  <2>4. CASE fetch[f].by = i
    <3>1. Holding(i)' \subseteq Holding(i) \cup {f}
      BY <2>1 DEF Holding
    <3>2. Cardinality(Holding(i)) < NewsPermits
      BY <1>5, <2>4 DEF TakePermit
    <3>3. IsFiniteSet(Holding(i) \cup {f}) /\ Cardinality(Holding(i) \cup {f}) <= Cardinality(Holding(i)) + 1
      <4> DEFINE H == Holding(i)
      <4>1. IsFiniteSet(H) /\ Cardinality(H) \in Nat
        BY <2>2
      <4> HIDE DEF H
      <4>2. /\ IsFiniteSet(H \cup {f})
            /\ Cardinality(H \cup {f}) = IF f \in H THEN Cardinality(H) ELSE Cardinality(H) + 1
        BY <4>1, FS_AddElement
      <4>3. Cardinality(H \cup {f}) <= Cardinality(H) + 1
        BY <4>1, <4>2
      <4> QED
        BY <4>2, <4>3 DEF H
    <3>4. /\ Cardinality(Holding(i)') <= Cardinality(Holding(i) \cup {f})
          /\ Cardinality(Holding(i)') \in Nat /\ Cardinality(Holding(i) \cup {f}) \in Nat
      BY <3>1, <3>3, FS_Subset, FS_CardinalityType
    <3> QED
      BY <1>0, <2>2, <3>2, <3>3, <3>4
  <2> QED
    BY <2>3, <2>4
<1>6. ASSUME NEW f \in Fetches, ReadSetting(f) \/ ApplySetting(f) \/ LoadCursor(f)
      PROVE NewsPermitsRespected'
  BY <1>0, <1>1, <1>6 DEF ReadSetting, ApplySetting, LoadCursor, StartsAt, NewsRequest, WithPermit
<1>7. ASSUME NEW f \in Fetches, ArchiveItem(f) \/ SaveCursor(f) PROVE NewsPermitsRespected'
  <2>1. /\ \A g \in Fetches \ {f} : fetch'[g] = fetch[g]
        /\ fetch'[f].by = fetch[f].by /\ fetch[f].pc \in WithPermit
    BY <1>0, <1>7 DEF ArchiveItem, SaveCursor, NewsRequest, Doing, WithPermit
  <2> QED
    BY <1>1, <2>1
<1>8. ASSUME NEW f \in Fetches, SourceAnswers(f) PROVE NewsPermitsRespected'
  <2>1. CASE Returns(f)
    BY <1>3, <2>1
  <2>2. CASE ~Returns(f)
    <3>1. /\ \A g \in Fetches \ {f} : fetch'[g] = fetch[g]
          /\ fetch'[f].by = fetch[f].by /\ fetch[f].pc \in WithPermit
      BY <1>0, <1>8, <2>2 DEF SourceAnswers, NewsRequest, Doing, WithPermit
    <3> QED
      BY <1>1, <3>1
  <2> QED
    BY <2>1, <2>2
<1>9. ASSUME NEW f \in Fetches, NEW retryable \in BOOLEAN, SourceFails(f, retryable)
      PROVE NewsPermitsRespected'
  <2>1. AfterAttempt(f, retryable).by = fetch[f].by /\ fetch[f].pc \in WithPermit
    BY <1>0, <1>9 DEF SourceFails, AfterAttempt, NewsRequest, Doing, WithPermit
  <2> QED
    BY <1>2, <1>9, <2>1 DEF SourceFails
<1>10. ASSUME NEW f \in Fetches, Check(f) \/ Fallback(f) \/ SaveSnapshot(f) \/ DropFetch(f)
       PROVE NewsPermitsRespected'
  BY <1>3, <1>4, <1>10 DEF Check, Fallback, SaveSnapshot, DropFetch, WithPermit
<1>11. ASSUME NEW f \in Fetches, MarkFailure(f) PROVE NewsPermitsRespected'
  BY <1>4, <1>11 DEF MarkFailure, Doing, WithPermit
<1>12. ASSUME NEW f \in Fetches, FetchStep(f) PROVE NewsPermitsRespected'
  BY <1>5, <1>6, <1>7, <1>8, <1>9, <1>10, <1>11, <1>12 DEF FetchStep
<1>13. ASSUME NEW f \in Fetches, NEW i \in Ingestors, BeginFetch(f, i) PROVE NewsPermitsRespected'
  <2> DEFINE r == [NoFetch EXCEPT !.pc = "setting", !.by = i,
                     !.told = off /\ \A g \in Fetches : fetch[g].pc \notin {"setting", "apply"}]
  <2>1. fetch' = [fetch EXCEPT ![f] = r]
    BY <1>13 DEF BeginFetch
  <2>2. r.pc = "setting"
    BY DEF NoFetch
  <2> HIDE DEF r
  <2> QED
    BY <1>2, <2>1, <2>2 DEF WithPermit
<1>14. ASSUME NEW enabled \in BOOLEAN, SwitchSource(enabled) PROVE NewsPermitsRespected'
  BY <1>0, <1>1, <1>14 DEF SwitchSource, NewsRequest
<1>15. CASE RestartNews
  BY <1>1, <1>15 DEF RestartNews, NoFetch, WithPermit
<1>16. ASSUME UNCHANGED fetch PROVE NewsPermitsRespected'
  BY <1>1, <1>16
<1>17. CASE StoreSwitch \/ SwitchResearch \/ NewsTick \/ UNCHANGED newsVars
              \/ (\E k \in 1..newsClock : ReplayAsOf(k)) \/ \E i \in Ingestors : CooldownOver(i)
  BY <1>16, <1>17 DEF StoreSwitch, SwitchResearch, NewsTick, newsVars, ReplayAsOf, CooldownOver
<1> QED
  BY <1>10, <1>12, <1>13, <1>14, <1>15, <1>17 DEF NewsNext

LEMMA NextNewsTypeInv == NewsTypeInv /\ [NewsNext]_newsVars => NewsTypeInv'
<1> SUFFICES ASSUME NewsTypeInv, [NewsNext]_newsVars PROVE NewsTypeInv'
  OBVIOUS
<1>1. NewsInv' /\ ArchiveInv'
  BY NewsStep, ArchiveStep DEF NewsTypeInv, ArchiveInv, FeedIsOne
<1> QED
  BY <1>1, RequestsStep, FailuresStep, CursorStep, NewsPermitsStep DEF NewsTypeInv

\* Requests to a source hold no more permits than there are, their attempts and
\* failures stay below their limits, and a document is current exactly when a
\* revision of it is stored (fetch_one, mark_failure, news_archive_upsert).
THEOREM NewsTypeCorrect == NewsSpec => []NewsTypeOK
  BY InitNewsTypeInv, NextNewsTypeInv, NewsTyped, PTL DEF NewsSpec

-----------------------------------------------------------------------------
\* Turns.  The documents, rows and channels, and what a relay owes to both.
Phases == {"idle", "preparing", "reasoning"} \cup Terminal
Titles == {"given", "renamed", "branched"}
TurnIds == Turns \cup {Earlier, NoTurn}
Message == {"user", "agent"} \X TurnIds

SessionDoc ==
  [turn : TurnIds, seq : Nat, phase : Phases, messages : Seq(Message), title : Titles]
StoredRow ==
  [stored : {TRUE}, deleted : BOOLEAN, title : Titles, doc : SessionDoc,
   origin : [turn : TurnIds, seq : Nat, phase : Phases]]
TaskWork ==
  [state : {"absent", "running", "aborting", "ended"}, stage : {"none", "checkpoint", "send"},
   accepted : Nat, sent : Nat, cancelled : BOOLEAN]
RelayPc == {"idle", "save_first", "select", "save", "send", "save_last", "done", "failed"}
TurnRelay ==
  [pc : RelayPc, conversation : Conversations \cup {NoTurn}, got : Nat, passed : Nat,
   doc : SessionDoc]
BranchRequest ==
  [state : {"sent"}, source : Conversations, message : Message, turn : TurnIds, seq : Nat]

TurnShaped ==
  /\ log \in [Turns -> Seq(Kinds)] /\ work \in [Turns -> TaskWork]
  /\ relay \in [Turns -> TurnRelay] /\ rows \in [Conversations -> StoredRow \cup {NoRow}]
  /\ asked \in BranchRequest \cup {NoRequest}

\* How far each has come with the log of its task.
LogFollowed ==
  \A t \in Turns :
    /\ relay[t].passed <= relay[t].got /\ relay[t].got <= work[t].sent
    /\ work[t].sent <= work[t].accepted /\ work[t].accepted <= Len(log[t])
    /\ work[t].stage # "none" => work[t].sent < Len(log[t])
    /\ work[t].stage = "send" => work[t].accepted = Len(log[t])
    /\ relay[t].pc \in {"idle", "save_first"} => relay[t].got = 0
    /\ relay[t].pc = "save" => relay[t].passed < relay[t].got
    /\ relay[t].pc # "idle" => relay[t].conversation \in Conversations

\* A session is the projection of the log up to its position.
Projects(doc, t) ==
  /\ doc.phase = PhaseAfter(SubSeq(log[t], 1, doc.seq))
  /\ <<"agent", t>> \in ToSet(doc.messages) <=> "completed" \in ToSet(SubSeq(log[t], 1, doc.seq))

RelaysProject ==
  \A t \in Turns : relay[t].pc # "idle" =>
    relay[t].doc.turn = t /\ relay[t].doc.seq = relay[t].got /\ Projects(relay[t].doc, t)

RowsProject ==
  \A t \in Turns, c \in Conversations : rows[c].stored /\ rows[c].doc.turn = t =>
    rows[c].doc.seq <= relay[t].got /\ Projects(rows[c].doc, t)

\* A turn that has not begun is in no session.
Unanswered ==
  \A t \in Turns : relay[t].pc = "idle" =>
    /\ \A u \in Turns : <<"agent", t>> \notin ToSet(relay[u].doc.messages)
    /\ \A c \in Conversations : rows[c].stored => <<"agent", t>> \notin ToSet(rows[c].doc.messages)

\* Of what a relay has taken, the row of its conversation lacks only text, and
\* what it is saving or could not save, which the client does not have.
Unsaved(t) == relay[t].passed < relay[t].got /\ relay[t].pc \in {"save", "failed"}
Serving == {"select", "save", "send", "save_last", "done"}
TakenIsSaved ==
  \A t \in Turns : relay[t].got > 0 \/ relay[t].pc \in Serving =>
    LET entry == rows[relay[t].conversation] IN
      /\ relay[t].pc # "idle" /\ entry.stored
      /\ entry.doc.turn = t =>
           \A i \in 1..relay[t].got : log[t][i] # "delta" =>
             i <= entry.doc.seq \/ (i = relay[t].got /\ Unsaved(t))

TurnInv ==
  TurnShaped /\ LogFollowed /\ RelaysProject /\ RowsProject /\ Unanswered /\ TakenIsSaved
    /\ BranchOriginIsReal

-----------------------------------------------------------------------------
\* The phase after one more event.
LEMMA LatestMark ==
  ASSUME NEW n \in Nat, NEW marks \in SUBSET (1..n), marks # {}
  PROVE  Max(marks) \in marks
<1> DEFINE T == {n - i : i \in marks}
<1>1. T \subseteq Nat /\ T # {}
  <2>1. \A i \in marks : n - i \in Nat
    OBVIOUS
  <2>2. T \subseteq Nat
    BY <2>1
  <2>3. PICK i \in marks : TRUE
    OBVIOUS
  <2>4. n - i \in T
    BY <2>3
  <2> QED
    BY <2>2, <2>4
<1>2. \E x \in T : \A y \in T : ~(<<y, x>> \in OpToRel(<, Nat))
  BY <1>1, NatLessThanWellFounded, WFMin
<1>3. \E x \in T : \A y \in T : x <= y
  <2>1. PICK x \in T : \A y \in T : ~(<<y, x>> \in OpToRel(<, Nat))
    BY <1>2
  <2>2. ASSUME NEW y \in T PROVE x <= y
    <3>1. x \in Nat /\ y \in Nat /\ ~(y < x)
      BY <1>1, <2>1 DEF OpToRel
    <3> QED
      BY <3>1
  <2> QED
    BY <2>2
<1>4. \E m \in marks : \A i \in marks : m >= i
  <2>1. PICK m \in marks : \A i \in marks : n - m <= n - i
    BY <1>3
  <2> QED
    BY <2>1
<1> QED
  BY <1>4 DEF Max

LEMMA PrefixGrows ==
  ASSUME NEW l \in Seq(Kinds), NEW n \in Nat, n < Len(l)
  PROVE  /\ PhaseAfter(SubSeq(l, 1, n + 1)) =
              IF l[n + 1] = "delta" THEN PhaseAfter(SubSeq(l, 1, n)) ELSE PhaseOf(l[n + 1])
         /\ \A k : k \in ToSet(SubSeq(l, 1, n + 1)) <=> k \in ToSet(SubSeq(l, 1, n)) \/ k = l[n + 1]
<1> DEFINE p == SubSeq(l, 1, n)
           q == SubSeq(l, 1, n + 1)
           marks(s) == {i \in DOMAIN s : s[i] # "delta"}
<1>1. /\ p \in Seq(Kinds) /\ Len(p) = n /\ \A i \in 1..n : p[i] = l[i]
      /\ q \in Seq(Kinds) /\ Len(q) = n + 1 /\ \A i \in 1..(n + 1) : q[i] = l[i]
  OBVIOUS
<1> HIDE DEF p, q
<1>2. DOMAIN p = 1..n /\ DOMAIN q = 1..(n + 1)
  BY <1>1
<1>3. \A k : k \in ToSet(q) <=> k \in ToSet(p) \/ k = l[n + 1]
  BY <1>1, <1>2 DEF ToSet
<1>4. CASE l[n + 1] = "delta"
  <2>1. marks(q) = marks(p) /\ marks(p) \subseteq 1..n
    BY <1>1, <1>2, <1>4
  <2>2. CASE marks(p) = {}
    <3>1. PhaseAfter(p) = "preparing"
      BY <2>2 DEF PhaseAfter
    <3>2. PhaseAfter(q) = "preparing"
      BY <2>1, <2>2 DEF PhaseAfter
    <3> QED
      BY <1>3, <1>4, <3>1, <3>2 DEF p, q
  <2>3. CASE marks(p) # {}
    <3> DEFINE m == Max(marks(p))
    <3>1. m \in 1..n
      BY <2>1, <2>3, LatestMark
    <3>2. q[m] = p[m]
      BY <1>1, <3>1
    <3>3. PhaseAfter(p) = PhaseOf(p[m]) /\ PhaseAfter(q) = PhaseOf(q[m])
      BY <2>1, <2>3 DEF PhaseAfter
    <3> QED
      BY <1>3, <1>4, <3>2, <3>3 DEF p, q
  <2> QED
    BY <2>2, <2>3
<1>5. CASE l[n + 1] # "delta"
  <2>1. marks(q) \subseteq 1..(n + 1) /\ n + 1 \in marks(q)
    BY <1>1, <1>2, <1>5
  <2>2. Max(marks(q)) = n + 1
    <3>1. \A i \in marks(q) : n + 1 >= i /\ i \in Int
      BY <2>1
    <3> QED
      BY <2>1, <3>1 DEF Max
  <2>3. PhaseAfter(q) = PhaseOf(q[n + 1])
    BY <2>1, <2>2 DEF PhaseAfter
  <2> QED
    BY <1>1, <1>3, <1>5, <2>3 DEF p, q
<1> QED
  BY <1>4, <1>5

LEMMA EmptyPrefix ==
  ASSUME NEW l \in Seq(Kinds)
  PROVE  /\ PhaseAfter(SubSeq(l, 1, 0)) = "preparing"
         /\ "completed" \notin ToSet(SubSeq(l, 1, 0))
<1>1. SubSeq(l, 1, 0) = <<>>
  OBVIOUS
<1>2. DOMAIN <<>> = {}
  OBVIOUS
<1>3. {i \in {} : <<>>[i] # "delta"} = {}
  OBVIOUS
<1> QED
  BY <1>1, <1>2, <1>3 DEF PhaseAfter, ToSet

\* What is recorded stays.
LEMMA PrefixKept ==
  ASSUME NEW l \in Seq(Kinds), NEW kind \in Kinds
  PROVE  /\ Append(l, kind) \in Seq(Kinds) /\ Len(Append(l, kind)) = Len(l) + 1
         /\ \A n \in 0..Len(l) : SubSeq(Append(l, kind), 1, n) = SubSeq(l, 1, n)
         /\ \A i \in 1..Len(l) : Append(l, kind)[i] = l[i]
<1>1. ASSUME NEW n \in 0..Len(l)
      PROVE  SubSeq(Append(l, kind), 1, n) = SubSeq(l, 1, n)
  <2>1. \A i \in 1..n : Append(l, kind)[i] = l[i]
    OBVIOUS
  <2> QED
    BY <2>1
<1> QED
  BY <1>1, AppendProperties

-----------------------------------------------------------------------------
\* What the types say.
LEMMA TurnTypes ==
  ASSUME TurnShaped
  PROVE  /\ \A t \in Turns : /\ log[t] \in Seq(Kinds) /\ Len(log[t]) \in Nat
                             /\ work[t] \in TaskWork /\ relay[t] \in TurnRelay
                             /\ work[t].accepted \in Nat /\ work[t].sent \in Nat
                             /\ relay[t].got \in Nat /\ relay[t].passed \in Nat
                             /\ relay[t].doc \in SessionDoc
         /\ \A c \in Conversations :
              IF rows[c].stored
              THEN rows[c] \in StoredRow /\ rows[c].doc \in SessionDoc /\ rows[c].doc.seq \in Nat
                     /\ rows[c].origin.seq \in Nat
              ELSE rows[c] = NoRow
<1>1. ASSUME NEW t \in Turns
      PROVE  /\ log[t] \in Seq(Kinds) /\ Len(log[t]) \in Nat
             /\ work[t] \in TaskWork /\ relay[t] \in TurnRelay
             /\ work[t].accepted \in Nat /\ work[t].sent \in Nat
             /\ relay[t].got \in Nat /\ relay[t].passed \in Nat
             /\ relay[t].doc \in SessionDoc
  BY DEF TurnShaped, TaskWork, TurnRelay
<1>2. ASSUME NEW c \in Conversations
      PROVE  IF rows[c].stored
             THEN rows[c] \in StoredRow /\ rows[c].doc \in SessionDoc /\ rows[c].doc.seq \in Nat
                    /\ rows[c].origin.seq \in Nat
             ELSE rows[c] = NoRow
  <2>1. rows[c] \in StoredRow \/ rows[c] = NoRow
    BY DEF TurnShaped
  <2>2. ~NoRow.stored
    BY DEF NoRow
  <2>3. ASSUME rows[c] \in StoredRow
        PROVE  /\ rows[c].stored /\ rows[c].doc \in SessionDoc /\ rows[c].doc.seq \in Nat
               /\ rows[c].origin.seq \in Nat
    BY <2>3 DEF StoredRow, SessionDoc
  <2> QED
    BY <2>1, <2>2, <2>3
<1> QED
  BY <1>1, <1>2

\* A step of a task: the log only grows, and no one else moves.
LEMMA TaskMoves ==
  ASSUME TurnInv, UNCHANGED <<relay, rows, asked>>,
         log' \in [Turns -> Seq(Kinds)], work' \in [Turns -> TaskWork],
         \A t \in Turns :
           /\ Len(log'[t]) >= Len(log[t]) /\ work'[t].accepted >= work[t].accepted
           /\ \A n \in 0..Len(log[t]) : SubSeq(log'[t], 1, n) = SubSeq(log[t], 1, n)
           /\ \A i \in 1..Len(log[t]) : log'[t][i] = log[t][i]
           /\ work'[t].sent >= work[t].sent
           /\ work'[t].sent <= work'[t].accepted /\ work'[t].accepted <= Len(log'[t])
           /\ work'[t].stage # "none" => work'[t].sent < Len(log'[t])
           /\ work'[t].stage = "send" => work'[t].accepted = Len(log'[t])
  PROVE  TurnInv'
<1>0. TurnShaped
  BY DEF TurnInv
<1>1. TurnShaped'
  BY <1>0 DEF TurnShaped
<1>2. \A t \in Turns : /\ relay[t].got \in 0..Len(log[t]) /\ work[t].accepted \in 0..Len(log[t])
                       /\ relay[t].got <= work[t].sent
  BY <1>0, TurnTypes DEF TurnInv, LogFollowed
<1>3. LogFollowed'
  <2> SUFFICES ASSUME NEW t \in Turns
               PROVE  /\ relay[t].passed <= relay[t].got /\ relay[t].got <= work'[t].sent
                      /\ relay[t].pc \in {"idle", "save_first"} => relay[t].got = 0
                      /\ relay[t].pc = "save" => relay[t].passed < relay[t].got
                      /\ relay[t].pc # "idle" => relay[t].conversation \in Conversations
    BY DEF LogFollowed
  <2>1. work[t].sent \in Nat /\ work'[t].sent \in Nat /\ relay[t].got \in Nat
    BY <1>0, TurnTypes DEF TaskWork
  <2> QED
    BY <1>2, <2>1 DEF TurnInv, LogFollowed
<1>4. ASSUME NEW t \in Turns, NEW doc, doc.seq \in 0..Len(log[t]), Projects(doc, t)
      PROVE  /\ doc.phase = PhaseAfter(SubSeq(log'[t], 1, doc.seq))
             /\ <<"agent", t>> \in ToSet(doc.messages)
                  <=> "completed" \in ToSet(SubSeq(log'[t], 1, doc.seq))
  <2>1. SubSeq(log'[t], 1, doc.seq) = SubSeq(log[t], 1, doc.seq)
    BY <1>4
  <2> QED
    BY <1>4, <2>1 DEF Projects
<1>5. RelaysProject'
  <2> SUFFICES ASSUME NEW t \in Turns, relay[t].pc # "idle"
               PROVE  relay[t].doc.turn = t /\ relay[t].doc.seq = relay[t].got /\ Projects(relay[t].doc, t)'
    BY DEF RelaysProject
  <2>1. relay[t].doc.turn = t /\ relay[t].doc.seq = relay[t].got /\ Projects(relay[t].doc, t)
    BY DEF TurnInv, RelaysProject
  <2>2. relay[t].doc.seq \in 0..Len(log[t])
    BY <1>2, <2>1
  <2> QED
    BY <1>4, <2>1, <2>2 DEF Projects
<1>6. RowsProject'
  <2> SUFFICES ASSUME NEW t \in Turns, NEW c \in Conversations, rows[c].stored, rows[c].doc.turn = t
               PROVE  rows[c].doc.seq <= relay[t].got /\ Projects(rows[c].doc, t)'
    BY DEF RowsProject
  <2>1. rows[c].doc.seq <= relay[t].got /\ Projects(rows[c].doc, t)
    BY DEF TurnInv, RowsProject
  <2>2. rows[c].doc.seq \in 0..Len(log[t])
    BY <1>0, <1>2, <2>1, TurnTypes
  <2> QED
    BY <1>4, <2>1, <2>2 DEF Projects
<1>7. Unanswered'
  BY DEF TurnInv, Unanswered
<1>8. TakenIsSaved'
  <2> SUFFICES ASSUME NEW t \in Turns, relay[t].got > 0 \/ relay[t].pc \in Serving,
                      rows[relay[t].conversation].doc.turn = t,
                      NEW i \in 1..relay[t].got, log'[t][i] # "delta"
               PROVE  i <= rows[relay[t].conversation].doc.seq \/ (i = relay[t].got /\ Unsaved(t))
    BY DEF TurnInv, TakenIsSaved, Unsaved
  <2>1. log[t][i] # "delta"
    BY <1>0, <1>2, TurnTypes
  <2> QED
    BY <2>1 DEF TurnInv, TakenIsSaved
<1>9. BranchOriginIsReal'
  <2> SUFFICES ASSUME NEW c \in Conversations, rows[c].stored, rows[c].origin.turn \in Turns
               PROVE  LET origin == rows[c].origin IN
                        /\ origin.phase = PhaseAfter(SubSeq(log'[origin.turn], 1, origin.seq))
                        /\ origin.seq <= work'[origin.turn].accepted
    BY DEF BranchOriginIsReal
  <2> DEFINE origin == rows[c].origin
             t == origin.turn
  <2>1. origin.phase = PhaseAfter(SubSeq(log[t], 1, origin.seq)) /\ origin.seq <= work[t].accepted
    BY DEF TurnInv, BranchOriginIsReal
  <2>2. /\ origin.seq \in Nat /\ work[t].accepted \in 0..Len(log[t]) /\ work'[t].accepted \in Nat
        /\ Len(log[t]) \in Nat
    BY <1>0, <1>2, TurnTypes DEF TaskWork
  <2>3. origin.seq \in 0..Len(log[t]) /\ origin.seq <= work'[t].accepted
    BY <2>1, <2>2
  <2>4. SubSeq(log'[t], 1, origin.seq) = SubSeq(log[t], 1, origin.seq)
    BY <2>3
  <2> QED
    BY <2>1, <2>3, <2>4
<1> QED
  BY <1>1, <1>3, <1>5, <1>6, <1>7, <1>8, <1>9 DEF TurnInv

\* A step of a relay that leaves the rows alone.
LEMMA RelayMoves ==
  ASSUME TurnInv, NEW t \in Turns, NEW r \in TurnRelay, relay' = [relay EXCEPT ![t] = r],
         UNCHANGED <<log, rows, asked>>, work' \in [Turns -> TaskWork],
         \A u \in Turns : /\ work'[u].accepted = work[u].accepted /\ work'[u].sent = work[u].sent
                          /\ work'[u].stage = work[u].stage,
         r.pc # "idle", r.pc = "save_first" => r.got = 0, r.conversation \in Conversations,
         r.got >= relay[t].got, r.got <= work[t].sent, r.passed <= r.got,
         r.pc = "save" => r.passed < r.got,
         r.doc.turn = t, r.doc.seq = r.got, Projects(r.doc, t),
         \A u \in Turns \ {t} : relay[u].pc = "idle" =>
           <<"agent", u>> \notin ToSet(r.doc.messages),
         r.got > 0 \/ r.pc \in Serving =>
           /\ rows[r.conversation].stored
           /\ rows[r.conversation].doc.turn = t =>
                \A i \in 1..r.got : log[t][i] # "delta" =>
                  \/ i <= rows[r.conversation].doc.seq
                  \/ i = r.got /\ r.passed < r.got /\ r.pc \in {"save", "failed"}
  PROVE  TurnInv'
<1>0. TurnShaped
  BY DEF TurnInv
<1>1. /\ relay' \in [Turns -> TurnRelay] /\ relay'[t] = r
      /\ \A u \in Turns \ {t} : relay'[u] = relay[u]
  BY <1>0 DEF TurnShaped
<1>2. TurnShaped'
  BY <1>0, <1>1 DEF TurnShaped
<1>3. LogFollowed'
  <2> SUFFICES ASSUME NEW u \in Turns
               PROVE  /\ relay'[u].passed <= relay'[u].got /\ relay'[u].got <= work'[u].sent
                      /\ work'[u].sent <= work'[u].accepted /\ work'[u].accepted <= Len(log[u])
                      /\ work'[u].stage # "none" => work'[u].sent < Len(log[u])
                      /\ work'[u].stage = "send" => work'[u].accepted = Len(log[u])
                      /\ relay'[u].pc \in {"idle", "save_first"} => relay'[u].got = 0
                      /\ relay'[u].pc = "save" => relay'[u].passed < relay'[u].got
                      /\ relay'[u].pc # "idle" => relay'[u].conversation \in Conversations
    BY DEF LogFollowed
  <2>1. CASE u = t
    BY <1>1, <2>1 DEF TurnInv, LogFollowed
  <2>2. CASE u # t
    BY <1>1, <2>2 DEF TurnInv, LogFollowed
  <2> QED
    BY <2>1, <2>2
<1>4. RelaysProject'
  <2> SUFFICES ASSUME NEW u \in Turns, relay'[u].pc # "idle"
               PROVE  /\ relay'[u].doc.turn = u /\ relay'[u].doc.seq = relay'[u].got
                      /\ Projects(relay[u].doc, u)'
    BY DEF RelaysProject
  <2>1. CASE u = t
    BY <1>1, <2>1 DEF Projects
  <2>2. CASE u # t
    BY <1>1, <2>2 DEF TurnInv, RelaysProject, Projects
  <2> QED
    BY <2>1, <2>2
<1>5. RowsProject'
  <2> SUFFICES ASSUME NEW u \in Turns, NEW c \in Conversations, rows[c].stored, rows[c].doc.turn = u
               PROVE  rows[c].doc.seq <= relay'[u].got /\ Projects(rows[c].doc, u)'
    BY DEF RowsProject
  <2>1. rows[c].doc.seq <= relay[u].got /\ Projects(rows[c].doc, u)
    BY DEF TurnInv, RowsProject
  <2>2. /\ rows[c].doc.seq \in Nat /\ relay[u].got \in Nat /\ relay'[u].got \in Nat
        /\ relay'[u].got >= relay[u].got
    BY <1>0, <1>1, TurnTypes DEF TurnRelay
  <2> QED
    BY <2>1, <2>2 DEF Projects
<1>6. Unanswered'
  <2> SUFFICES ASSUME NEW u \in Turns, relay'[u].pc = "idle"
               PROVE  /\ \A v \in Turns : <<"agent", u>> \notin ToSet(relay'[v].doc.messages)
                      /\ \A c \in Conversations : rows[c].stored =>
                           <<"agent", u>> \notin ToSet(rows[c].doc.messages)
    BY DEF Unanswered
  <2>1. u # t /\ relay[u].pc = "idle"
    BY <1>1
  <2> QED
    BY <1>1, <2>1 DEF TurnInv, Unanswered
<1>7. TakenIsSaved'
  <2> SUFFICES ASSUME NEW u \in Turns, relay'[u].got > 0 \/ relay'[u].pc \in Serving
               PROVE  LET entry == rows[relay'[u].conversation] IN
                        /\ relay'[u].pc # "idle" /\ entry.stored
                        /\ entry.doc.turn = u =>
                             \A i \in 1..relay'[u].got : log[u][i] # "delta" =>
                               i <= entry.doc.seq \/ (i = relay'[u].got /\ Unsaved(u)')
    BY DEF TakenIsSaved
  <2>1. CASE u = t
    BY <1>1, <2>1 DEF Unsaved
  <2>2. CASE u # t
    BY <1>1, <2>2 DEF TurnInv, TakenIsSaved, Unsaved
  <2> QED
    BY <2>1, <2>2
<1>8. BranchOriginIsReal'
  BY DEF TurnInv, BranchOriginIsReal
<1> QED
  BY <1>2, <1>3, <1>4, <1>5, <1>6, <1>7, <1>8 DEF TurnInv

\* A relay saves, and goes on.
LEMMA SaveMoves ==
  ASSUME TurnInv, NEW t \in Turns, relay[t].pc \in Saving,
         NEW pc \in {"select", "send", "done", "failed"},
         relay' = [relay EXCEPT ![t].pc = pc], rows' = Saved(t),
         UNCHANGED <<log, asked>>, work' \in [Turns -> TaskWork],
         \A u \in Turns : /\ work'[u].accepted = work[u].accepted /\ work'[u].sent = work[u].sent
                          /\ work'[u].stage = work[u].stage
  PROVE  TurnInv'
<1> DEFINE c == relay[t].conversation
           origin == IF rows[c].stored THEN rows[c].origin ELSE NoOrigin
           doc == relay[t].doc
           entry == Row(doc.title, doc, origin)
           r == [relay[t] EXCEPT !.pc = pc]
<1>0. TurnShaped /\ relay[t].pc # "idle" /\ c \in Conversations /\ relay[t] \in TurnRelay
        /\ doc \in SessionDoc
  BY TurnTypes DEF TurnInv, LogFollowed, Saving
<1>1. /\ doc.turn = t /\ doc.seq = relay[t].got /\ Projects(doc, t)
  BY <1>0 DEF TurnInv, RelaysProject
<1>2. r \in TurnRelay /\ r.pc = pc /\ r.got = relay[t].got /\ r.passed = relay[t].passed
        /\ r.doc = doc /\ r.conversation = c
  BY <1>0 DEF TurnRelay, RelayPc
<1>3. relay' = [relay EXCEPT ![t] = r]
  BY <1>0 DEF TurnShaped
<1> HIDE DEF r
<1>4. /\ relay' \in [Turns -> TurnRelay] /\ relay'[t] = r
      /\ \A u \in Turns \ {t} : relay'[u] = relay[u]
  BY <1>0, <1>2, <1>3 DEF TurnShaped
<1>5. origin \in [turn : TurnIds, seq : Nat, phase : Phases]
        /\ (origin.turn \in Turns => rows[c].stored /\ origin = rows[c].origin)
  <2>1. CASE rows[c].stored
    <3>1. rows[c] \in StoredRow
      BY <1>0, <2>1, TurnTypes
    <3> QED
      BY <2>1, <3>1 DEF StoredRow
  <2>2. CASE ~rows[c].stored
    <3>1. NoOrigin \in [turn : TurnIds, seq : Nat, phase : Phases] /\ NoOrigin.turn \notin Turns
      BY TurnAssumption DEF NoOrigin, TurnIds, Phases, NoTurn
    <3> QED
      BY <2>2, <3>1
  <2> QED
    BY <2>1, <2>2
<1> HIDE DEF origin
<1>6. entry \in StoredRow /\ entry.stored /\ entry.doc = doc /\ entry.origin = origin
  <2>1. doc.title \in Titles
    BY <1>0 DEF SessionDoc
  <2> QED
    BY <1>0, <1>5, <2>1 DEF Row, StoredRow
<1>7. rows' = [rows EXCEPT ![c] = entry]
  BY DEF Saved, origin
<1> HIDE DEF entry, doc
<1>8. /\ rows' \in [Conversations -> StoredRow \cup {NoRow}] /\ rows'[c] = entry
      /\ \A d \in Conversations \ {c} : rows'[d] = rows[d]
  BY <1>0, <1>6, <1>7 DEF TurnShaped
<1>9. TurnShaped'
  BY <1>0, <1>4, <1>8 DEF TurnShaped
<1>10. \A u \in Turns : /\ relay'[u].got = relay[u].got /\ relay'[u].passed = relay[u].passed
                        /\ relay'[u].doc = relay[u].doc
                        /\ relay'[u].conversation = relay[u].conversation
                        /\ relay'[u].pc = "idle" <=> relay[u].pc = "idle"
                        /\ relay'[u].got \in Nat
  BY <1>0, <1>2, <1>4, TurnTypes DEF doc
<1>11. LogFollowed'
  <2> SUFFICES ASSUME NEW u \in Turns
               PROVE  /\ relay'[u].passed <= relay'[u].got /\ relay'[u].got <= work'[u].sent
                      /\ work'[u].sent <= work'[u].accepted /\ work'[u].accepted <= Len(log[u])
                      /\ work'[u].stage # "none" => work'[u].sent < Len(log[u])
                      /\ work'[u].stage = "send" => work'[u].accepted = Len(log[u])
                      /\ relay'[u].pc \in {"idle", "save_first"} => relay'[u].got = 0
                      /\ relay'[u].pc = "save" => relay'[u].passed < relay'[u].got
                      /\ relay'[u].pc # "idle" => relay'[u].conversation \in Conversations
    BY DEF LogFollowed
  <2>1. u = t \/ relay'[u].pc = relay[u].pc
    BY <1>4
  <2>2. u = t => relay'[u].pc \notin {"idle", "save_first", "save"}
    BY <1>2, <1>4
  <2> QED
    BY <1>10, <2>1, <2>2 DEF TurnInv, LogFollowed
<1>12. RelaysProject'
  BY <1>10 DEF TurnInv, RelaysProject, Projects
<1>13. RowsProject'
  <2> SUFFICES ASSUME NEW u \in Turns, NEW d \in Conversations, rows'[d].stored, rows'[d].doc.turn = u
               PROVE  rows'[d].doc.seq <= relay'[u].got /\ Projects(rows[d].doc, u)'
    BY DEF RowsProject
  <2>1. CASE d = c
    <3>1. u = t /\ rows'[d].doc = doc
      BY <1>1, <1>6, <1>8, <2>1
    <3> QED
      BY <1>1, <1>10, <3>1 DEF Projects
  <2>2. CASE d # c
    BY <1>8, <1>10, <2>2 DEF TurnInv, RowsProject, Projects
  <2> QED
    BY <2>1, <2>2
<1>14. Unanswered'
  <2> SUFFICES ASSUME NEW u \in Turns, relay'[u].pc = "idle"
               PROVE  /\ \A v \in Turns : <<"agent", u>> \notin ToSet(relay'[v].doc.messages)
                      /\ \A d \in Conversations : rows'[d].stored =>
                           <<"agent", u>> \notin ToSet(rows'[d].doc.messages)
    BY DEF Unanswered
  <2>1. relay[u].pc = "idle"
    BY <1>10
  <2>2. /\ \A v \in Turns : <<"agent", u>> \notin ToSet(relay[v].doc.messages)
        /\ \A d \in Conversations : rows[d].stored =>
             <<"agent", u>> \notin ToSet(rows[d].doc.messages)
    BY <2>1 DEF TurnInv, Unanswered
  <2>3. <<"agent", u>> \notin ToSet(doc.messages)
    BY <2>2 DEF doc
  <2> QED
    BY <1>6, <1>8, <1>10, <2>2, <2>3
<1>15. TakenIsSaved'
  <2> SUFFICES ASSUME NEW u \in Turns, relay'[u].got > 0 \/ relay'[u].pc \in Serving
               PROVE  LET q == rows'[relay'[u].conversation] IN
                        /\ relay'[u].pc # "idle" /\ q.stored
                        /\ q.doc.turn = u =>
                             \A i \in 1..relay'[u].got : log[u][i] # "delta" =>
                               i <= q.doc.seq \/ (i = relay'[u].got /\ Unsaved(u)')
    BY DEF TakenIsSaved
  <2> DEFINE d == relay[u].conversation
  <2>1. relay[u].pc # "idle" /\ d \in Conversations
    BY <1>10 DEF TurnInv, TakenIsSaved, LogFollowed, Serving
  <2>2. CASE u = t
    <3>1. d = c /\ rows'[d].doc.seq = relay[u].got /\ rows'[d].stored
      BY <1>1, <1>6, <1>8, <2>2
    <3> QED
      BY <1>10, <2>1, <3>1
  <2>3. CASE u # t /\ d = c
    <3>1. rows'[d].doc.turn = t /\ rows'[d].stored
      BY <1>1, <1>6, <1>8, <2>3
    <3> QED
      BY <1>10, <2>1, <2>3, <3>1
  <2>4. CASE u # t /\ d # c
    <3>1. rows'[d] = rows[d] /\ relay'[u] = relay[u]
      BY <1>4, <1>8, <2>1, <2>4
    <3>2. rows[d].stored /\ (rows[d].doc.turn = u =>
            \A i \in 1..relay[u].got : log[u][i] # "delta" =>
              i <= rows[d].doc.seq \/ (i = relay[u].got /\ Unsaved(u)))
      BY <3>1 DEF TurnInv, TakenIsSaved
    <3>3. rows'[relay'[u].conversation] = rows[d] /\ (Unsaved(u)' <=> Unsaved(u))
      BY <3>1 DEF Unsaved
    <3> QED
      BY <2>1, <3>1, <3>2, <3>3
  <2> QED
    BY <2>2, <2>3, <2>4
<1>16. BranchOriginIsReal'
  <2> SUFFICES ASSUME NEW d \in Conversations, rows'[d].stored, rows'[d].origin.turn \in Turns
               PROVE  LET o == rows'[d].origin IN
                        /\ o.phase = PhaseAfter(SubSeq(log[o.turn], 1, o.seq))
                        /\ o.seq <= work'[o.turn].accepted
    BY DEF BranchOriginIsReal
  <2>1. rows[d].stored /\ rows'[d].origin = rows[d].origin
    BY <1>5, <1>6, <1>8
  <2> QED
    BY <2>1 DEF TurnInv, BranchOriginIsReal
<1> QED
  BY <1>9, <1>11, <1>12, <1>13, <1>14, <1>15, <1>16 DEF TurnInv

-----------------------------------------------------------------------------
\* Each step.
LEMMA InitTurnInv == ASSUME TurnInit PROVE TurnInv
<1>1. NoOrigin \in [turn : TurnIds, seq : Nat, phase : Phases] /\ NoOrigin.turn \notin Turns
  BY TurnAssumption DEF NoOrigin, TurnIds, Phases, NoTurn
<1>2. /\ NewDoc \in SessionDoc
      /\ EarlierDoc \in SessionDoc /\ EarlierDoc.turn = Earlier
      /\ \A t \in Turns : <<"agent", t>> \notin ToSet(NewDoc.messages) \cup ToSet(EarlierDoc.messages)
  <2> DEFINE ms == <<<<"user", Earlier>>, <<"agent", Earlier>>>>
  <2>1. ms \in Seq(Message) /\ ToSet(ms) = {<<"user", Earlier>>, <<"agent", Earlier>>}
    <3>1. <<"user", Earlier>> \in Message /\ <<"agent", Earlier>> \in Message
      BY DEF Message, TurnIds
    <3> QED
      BY <3>1 DEF ToSet
  <2>2. <<>> \in Seq(Message) /\ ToSet(<<>>) = {}
    BY DEF ToSet
  <2> HIDE DEF ms
  <2>3. NewDoc \in SessionDoc /\ NewDoc.messages = <<>>
    BY <2>2 DEF NewDoc, Doc, SessionDoc, TurnIds, Phases, Titles
  <2>4. EarlierDoc \in SessionDoc /\ EarlierDoc.messages = ms /\ EarlierDoc.turn = Earlier
    BY <2>1 DEF EarlierDoc, Doc, SessionDoc, TurnIds, Phases, Titles, Terminal, ms
  <2>5. Earlier \notin Turns
    BY TurnAssumption DEF Earlier
  <2> QED
    BY <2>1, <2>2, <2>3, <2>4, <2>5
<1>3. /\ Row("given", EarlierDoc, NoOrigin) \in StoredRow
      /\ Row("given", EarlierDoc, NoOrigin).doc = EarlierDoc
      /\ Row("given", EarlierDoc, NoOrigin).origin = NoOrigin
  BY <1>1, <1>2 DEF Row, StoredRow, Titles
<1>4. \A c \in Conversations :
        rows[c] \in {Row("given", EarlierDoc, NoOrigin), NoRow}
  BY DEF TurnInit
<1>5. ~NoRow.stored
  BY DEF NoRow
<1>6. TurnShaped
  <2>1. rows \in [Conversations -> StoredRow \cup {NoRow}]
    BY <1>3 DEF TurnInit
  <2>2. log \in [Turns -> Seq(Kinds)] /\ work \in [Turns -> TaskWork]
    BY DEF TurnInit, TaskWork
  <2>3. relay \in [Turns -> TurnRelay]
    BY <1>2 DEF TurnInit, TurnRelay, RelayPc
  <2> QED
    BY <2>1, <2>2, <2>3 DEF TurnInit, TurnShaped
<1>7. LogFollowed
  BY DEF TurnInit, LogFollowed
<1>8. RelaysProject
  BY DEF TurnInit, RelaysProject
<1>9. \A c \in Conversations : rows[c].stored =>
        rows[c].doc = EarlierDoc /\ rows[c].origin = NoOrigin
  BY <1>3, <1>4, <1>5
<1>10. RowsProject
  BY <1>2, <1>9, TurnAssumption DEF RowsProject, Earlier
<1>11. Unanswered
  BY <1>2, <1>9 DEF TurnInit, Unanswered
<1>12. TakenIsSaved
  BY DEF TurnInit, TakenIsSaved, Serving
<1>13. BranchOriginIsReal
  BY <1>1, <1>9 DEF BranchOriginIsReal
<1> QED
  BY <1>6, <1>7, <1>8, <1>10, <1>11, <1>12, <1>13 DEF TurnInv

LEMMA AppendToLogStep ==
  ASSUME TurnInv, NEW t \in Turns, NEW kind \in Kinds, AppendToLog(t, kind)
  PROVE  TurnInv'
<1>0. /\ log[t] \in Seq(Kinds) /\ work[t] \in TaskWork /\ TurnShaped
      /\ Len(log[t]) \in Nat /\ work[t].sent \in Nat /\ work[t].accepted \in Nat
  BY TurnTypes DEF TurnInv
<1> DEFINE w == [work[t] EXCEPT !.stage = "checkpoint"]
<1>1. w \in TaskWork /\ w.accepted = work[t].accepted /\ w.sent = work[t].sent /\ w.stage = "checkpoint"
  BY <1>0 DEF TaskWork
<1>2. work' = [work EXCEPT ![t] = w]
  BY <1>0 DEF AppendToLog, TurnShaped
<1> HIDE DEF w
<1>3. /\ work' \in [Turns -> TaskWork] /\ work'[t] = w
      /\ \A u \in Turns \ {t} : work'[u] = work[u]
  BY <1>0, <1>1, <1>2 DEF TurnShaped
<1>4. Append(log[t], kind) \in Seq(Kinds)
  BY <1>0, PrefixKept
<1>5. /\ log' \in [Turns -> Seq(Kinds)] /\ log'[t] = Append(log[t], kind)
      /\ \A u \in Turns \ {t} : log'[u] = log[u]
  BY <1>0, <1>4 DEF AppendToLog, TurnShaped
<1>6. UNCHANGED <<relay, rows, asked>>
  BY DEF AppendToLog
<1>7. ASSUME NEW u \in Turns
      PROVE  /\ Len(log'[u]) >= Len(log[u]) /\ work'[u].accepted >= work[u].accepted
             /\ \A n \in 0..Len(log[u]) : SubSeq(log'[u], 1, n) = SubSeq(log[u], 1, n)
             /\ \A i \in 1..Len(log[u]) : log'[u][i] = log[u][i]
             /\ work'[u].sent >= work[u].sent
             /\ work'[u].sent <= work'[u].accepted /\ work'[u].accepted <= Len(log'[u])
             /\ work'[u].stage # "none" => work'[u].sent < Len(log'[u])
             /\ work'[u].stage = "send" => work'[u].accepted = Len(log'[u])
  <2>1. /\ Len(log[u]) \in Nat /\ work[u].sent \in Nat /\ work[u].accepted \in Nat
        /\ work[u].sent <= work[u].accepted /\ work[u].accepted <= Len(log[u])
        /\ work[u].stage # "none" => work[u].sent < Len(log[u])
        /\ work[u].stage = "send" => work[u].accepted = Len(log[u])
    BY <1>0, TurnTypes DEF TurnInv, LogFollowed
  <2>2. CASE u = t
    <3>1. Len(log'[t]) = Len(log[t]) + 1
      BY <1>0, <1>5, PrefixKept
    <3>2. /\ \A n \in 0..Len(log[t]) : SubSeq(log'[t], 1, n) = SubSeq(log[t], 1, n)
          /\ \A i \in 1..Len(log[t]) : log'[t][i] = log[t][i]
      BY <1>0, <1>5, PrefixKept
    <3> QED
      BY <1>1, <1>3, <2>1, <2>2, <3>1, <3>2
  <2>3. CASE u # t
    BY <1>3, <1>5, <2>1, <2>3
  <2> QED
    BY <2>2, <2>3
<1> QED
  BY <1>3, <1>5, <1>6, <1>7, TaskMoves

\* A step of a task that records nothing.
LEMMA WorkMoves ==
  ASSUME TurnInv, NEW t \in Turns, NEW w \in TaskWork, work' = [work EXCEPT ![t] = w],
         UNCHANGED <<log, relay, rows, asked>>,
         w.sent >= work[t].sent, w.accepted >= work[t].accepted,
         w.sent <= w.accepted, w.accepted <= Len(log[t]),
         w.stage # "none" => w.sent < Len(log[t]),
         w.stage = "send" => w.accepted = Len(log[t])
  PROVE  TurnInv'
<1>0. TurnShaped
  BY DEF TurnInv
<1>1. /\ work' \in [Turns -> TaskWork] /\ work'[t] = w
      /\ \A u \in Turns \ {t} : work'[u] = work[u]
  BY <1>0 DEF TurnShaped
<1>2. log' \in [Turns -> Seq(Kinds)]
  BY <1>0 DEF TurnShaped
<1>3. ASSUME NEW u \in Turns
      PROVE  /\ Len(log[u]) >= Len(log[u]) /\ work'[u].accepted >= work[u].accepted
             /\ work'[u].sent >= work[u].sent
             /\ work'[u].sent <= work'[u].accepted /\ work'[u].accepted <= Len(log[u])
             /\ work'[u].stage # "none" => work'[u].sent < Len(log[u])
             /\ work'[u].stage = "send" => work'[u].accepted = Len(log[u])
  <2>1. /\ Len(log[u]) \in Nat /\ work[u].sent \in Nat /\ work[u].accepted \in Nat
        /\ work[u].sent <= work[u].accepted /\ work[u].accepted <= Len(log[u])
        /\ work[u].stage # "none" => work[u].sent < Len(log[u])
        /\ work[u].stage = "send" => work[u].accepted = Len(log[u])
    BY <1>0, TurnTypes DEF TurnInv, LogFollowed
  <2>2. CASE u = t
    BY <1>1, <2>1, <2>2
  <2>3. CASE u # t
    BY <1>1, <2>1, <2>3
  <2> QED
    BY <2>2, <2>3
<1> QED
  BY <1>1, <1>2, <1>3, TaskMoves

LEMMA SendSteps ==
  ASSUME TurnInv, NEW t \in Turns, PutAccepted(t) \/ SendToRelay(t) \/ ForwardCancel(t)
  PROVE  TurnInv'
<1>0. /\ TurnShaped /\ work[t] \in TaskWork /\ Len(log[t]) \in Nat
      /\ work[t].sent \in Nat /\ work[t].accepted \in Nat
      /\ work[t].sent <= work[t].accepted /\ work[t].accepted <= Len(log[t])
      /\ work[t].stage # "none" => work[t].sent < Len(log[t])
      /\ work[t].stage = "send" => work[t].accepted = Len(log[t])
  BY TurnTypes DEF TurnInv, LogFollowed
<1>1. CASE PutAccepted(t)
  <2> DEFINE size == Len(log[t])
             w == [work[t] EXCEPT !.stage = "send", !.accepted = size]
  <2>1. size \in Nat /\ work[t].stage # "none"
    BY <1>0, <1>1 DEF PutAccepted
  <2>2. work' = [work EXCEPT ![t] = w] /\ UNCHANGED <<log, relay, rows, asked>>
    BY <1>0, <1>1 DEF PutAccepted, TurnShaped
  <2> HIDE DEF size
  <2>3. w \in TaskWork /\ w.sent = work[t].sent /\ w.accepted = size /\ w.stage = "send"
    BY <1>0, <2>1 DEF TaskWork
  <2> HIDE DEF w
  <2>4. w.sent >= work[t].sent /\ w.accepted >= work[t].accepted /\ w.sent <= w.accepted
          /\ w.accepted = Len(log[t]) /\ w.accepted <= Len(log[t]) /\ w.sent < Len(log[t])
    BY <1>0, <2>1, <2>3 DEF size
  <2> QED
    BY <2>2, <2>3, <2>4, WorkMoves
<1>2. CASE SendToRelay(t)
  <2>1. /\ Unheard(t) \in TaskWork /\ Unheard(t).stage = "none"
        /\ Unheard(t).sent = work[t].sent /\ Unheard(t).accepted = work[t].accepted
    BY <1>0 DEF Unheard, TaskWork
  <2>2. /\ Heard(t) \in TaskWork /\ Heard(t).stage = "none"
        /\ Heard(t).sent = work[t].sent + 1 /\ Heard(t).accepted = work[t].accepted
    <3> DEFINE next == work[t].sent + 1
               end == IF Last(log[t]) \in Terminal THEN "ended" ELSE "running"
    <3>1. next \in Nat /\ end \in {"ended", "running"}
      BY <1>0
    <3>2. Heard(t) = [work[t] EXCEPT !.stage = "none", !.sent = next, !.state = end]
      BY <1>0 DEF Heard
    <3> HIDE DEF next, end
    <3>3. /\ Heard(t) \in TaskWork /\ Heard(t).stage = "none"
          /\ Heard(t).sent = next /\ Heard(t).accepted = work[t].accepted
      BY <1>0, <3>1, <3>2 DEF TaskWork
    <3> QED
      BY <3>3 DEF next
  <2> DEFINE w == IF RelayGone(t) THEN Unheard(t) ELSE Heard(t)
  <2>3. work' = [work EXCEPT ![t] = w] /\ UNCHANGED <<log, relay, rows, asked>>
          /\ work[t].stage = "send"
    BY <1>2 DEF SendToRelay
  <2>4. w \in TaskWork /\ w.stage = "none" /\ w.accepted = work[t].accepted
          /\ w.sent \in {work[t].sent, work[t].sent + 1}
    BY <2>1, <2>2
  <2> HIDE DEF w
  <2>5. w.sent >= work[t].sent /\ w.accepted >= work[t].accepted /\ w.sent <= w.accepted
          /\ w.accepted <= Len(log[t])
    BY <1>0, <2>3, <2>4
  <2> QED
    BY <2>3, <2>4, <2>5, WorkMoves
<1>3. CASE ForwardCancel(t)
  <2> DEFINE w == [work[t] EXCEPT !.cancelled = TRUE]
  <2>1. /\ w \in TaskWork /\ w.sent = work[t].sent /\ w.accepted = work[t].accepted
        /\ w.stage = work[t].stage
    BY <1>0 DEF TaskWork
  <2>2. work' = [work EXCEPT ![t] = w] /\ UNCHANGED <<log, relay, rows, asked>>
    BY <1>0, <1>3 DEF ForwardCancel, TurnShaped
  <2> HIDE DEF w
  <2>3. w.sent >= work[t].sent /\ w.accepted >= work[t].accepted /\ w.sent <= w.accepted
          /\ w.accepted <= Len(log[t]) /\ (w.stage # "none" => w.sent < Len(log[t]))
          /\ (w.stage = "send" => w.accepted = Len(log[t]))
    BY <1>0, <2>1
  <2> QED
    BY <2>1, <2>2, <2>3, WorkMoves
<1> QED
  BY <1>1, <1>2, <1>3

LEMMA PhaseTyped == ASSUME NEW l \in Seq(Kinds) PROVE PhaseAfter(l) \in Phases
<1> DEFINE marks == {i \in DOMAIN l : l[i] # "delta"}
<1>1. CASE marks = {}
  BY <1>1 DEF PhaseAfter, Phases
<1>2. CASE marks # {}
  <2>1. Len(l) \in Nat /\ marks \subseteq 1..Len(l)
    OBVIOUS
  <2> DEFINE m == Max(marks)
  <2>2. m \in marks
    BY <1>2, <2>1, LatestMark
  <2>3. l[m] \in Kinds \ {"delta"}
    BY <2>1, <2>2
  <2>4. PhaseOf(l[m]) \in Phases
    BY <2>3 DEF PhaseOf, Kinds, Phases, Terminal
  <2> QED
    BY <1>2, <2>4 DEF PhaseAfter
<1> QED
  BY <1>1, <1>2

LEMMA MessageAdded ==
  ASSUME NEW s \in Seq(Message), NEW m \in Message
  PROVE  Append(s, m) \in Seq(Message)
         /\ \A x : x \in ToSet(Append(s, m)) <=> x \in ToSet(s) \/ x = m
<1>1. /\ Append(s, m) \in Seq(Message) /\ Len(Append(s, m)) = Len(s) + 1 /\ Len(s) \in Nat
      /\ \A i \in 1..Len(s) : Append(s, m)[i] = s[i]
      /\ Append(s, m)[Len(s) + 1] = m
  BY AppendProperties
<1>2. DOMAIN s = 1..Len(s) /\ DOMAIN Append(s, m) = 1..(Len(s) + 1)
  BY <1>1
<1> HIDE DEF ToSet
<1>3. \A x : x \in ToSet(Append(s, m)) <=> x \in ToSet(s) \/ x = m
  BY <1>1, <1>2 DEF ToSet
<1> QED
  BY <1>1, <1>3

LEMMA RelayReceivesStep ==
  ASSUME TurnInv, NEW t \in Turns, RelayReceives(t)
  PROVE  TurnInv'
<1> DEFINE n == relay[t].got
           kind == log[t][n + 1]
           doc == relay[t].doc
           next == n + 1
           done == Applied(doc, kind)
           r == [relay[t] EXCEPT !.got = next, !.doc = done, !.pc = AfterReceipt(kind)]
<1>0. /\ TurnShaped /\ relay[t] \in TurnRelay /\ log[t] \in Seq(Kinds) /\ doc \in SessionDoc
      /\ n \in Nat /\ relay[t].passed \in Nat /\ relay[t].passed <= n
      /\ Len(log[t]) \in Nat /\ work[t].sent \in Nat /\ work[t].accepted \in Nat
      /\ n < work[t].sent /\ work[t].sent <= work[t].accepted /\ work[t].accepted <= Len(log[t])
      /\ relay[t].conversation \in Conversations
  BY TurnTypes DEF TurnInv, LogFollowed, RelayReceives
<1>1. n < Len(log[t]) /\ next \in Nat /\ kind \in Kinds /\ next <= work[t].sent
        /\ relay[t].passed < next
  BY <1>0
<1>2. doc.turn = t /\ doc.seq = n /\ Projects(doc, t)
  BY <1>0 DEF TurnInv, RelaysProject, RelayReceives
<1>3. /\ PhaseAfter(SubSeq(log[t], 1, n + 1)) =
            IF kind = "delta" THEN PhaseAfter(SubSeq(log[t], 1, n)) ELSE PhaseOf(kind)
      /\ \A k : k \in ToSet(SubSeq(log[t], 1, n + 1)) <=> k \in ToSet(SubSeq(log[t], 1, n)) \/ k = kind
  BY <1>0, <1>1, PrefixGrows
<1>4. PhaseAfter(SubSeq(log[t], 1, n)) = doc.phase
        /\ (<<"agent", t>> \in ToSet(doc.messages) <=> "completed" \in ToSet(SubSeq(log[t], 1, n)))
  BY <1>2 DEF Projects
<1> DEFINE phase == IF kind = "delta" THEN doc.phase ELSE PhaseOf(kind)
           messages == IF kind = "completed" THEN Append(doc.messages, <<"agent", t>>)
                       ELSE doc.messages
<1>5. /\ messages \in Seq(Message)
      /\ \A x : x \in ToSet(messages) <=>
           x \in ToSet(doc.messages) \/ (kind = "completed" /\ x = <<"agent", t>>)
  <2>1. <<"agent", t>> \in Message /\ doc.messages \in Seq(Message)
    BY <1>0 DEF Message, TurnIds, SessionDoc
  <2> QED
    BY <2>1, MessageAdded
<1>6. phase \in Phases
  <2>1. doc.phase \in Phases
    BY <1>0 DEF SessionDoc
  <2>2. kind # "delta" => PhaseOf(kind) \in Phases
    BY <1>1 DEF PhaseOf, Kinds, Phases, Terminal
  <2> QED
    BY <2>1, <2>2
<1>7. done = [doc EXCEPT !.seq = next, !.phase = phase, !.messages = messages]
  <2>1. doc.seq + 1 = next
    BY <1>2
  <2> HIDE DEF next
  <2> QED
    BY <1>0, <1>2, <2>1 DEF Applied, SessionDoc
<1> HIDE DEF next, phase, messages, kind, done
<1>8. /\ done \in SessionDoc /\ done.turn = t /\ done.seq = next
      /\ done.phase = phase /\ done.messages = messages
  <2>1. doc \in SessionDoc /\ doc.turn = t
    BY <1>0, <1>2
  <2> HIDE DEF doc
  <2> QED
    BY <1>1, <1>5, <1>6, <1>7, <2>1 DEF SessionDoc
<1>9. Projects(done, t)
  <2>1. done.phase = PhaseAfter(SubSeq(log[t], 1, done.seq))
    BY <1>3, <1>4, <1>8 DEF next, phase
  <2>2. <<"agent", t>> \in ToSet(done.messages)
          <=> "completed" \in ToSet(SubSeq(log[t], 1, done.seq))
    BY <1>3, <1>4, <1>5, <1>8 DEF next
  <2> QED
    BY <2>1, <2>2 DEF Projects
<1>10. AfterReceipt(kind) = IF kind = "delta" THEN "send" ELSE "save"
  BY DEF AfterReceipt
<1>11. /\ r \in TurnRelay /\ r.got = next /\ r.doc = done /\ r.pc = AfterReceipt(kind)
       /\ r.passed = relay[t].passed /\ r.conversation = relay[t].conversation
  <2>1. AfterReceipt(kind) \in RelayPc
    BY <1>10 DEF RelayPc
  <2> HIDE DEF doc
  <2> QED
    BY <1>0, <1>1, <1>8, <2>1 DEF TurnRelay
<1>12. relay' = [relay EXCEPT ![t] = r] /\ UNCHANGED <<log, work, rows, asked>>
         /\ relay[t].pc = "select"
  BY <1>0 DEF RelayReceives, TurnShaped, next, done, kind
<1> HIDE DEF r
<1>13. work' \in [Turns -> TaskWork]
  BY <1>0, <1>12 DEF TurnShaped
<1>14. \A u \in Turns \ {t} : relay[u].pc = "idle" => <<"agent", u>> \notin ToSet(r.doc.messages)
  <2> SUFFICES ASSUME NEW u \in Turns \ {t}, relay[u].pc = "idle"
               PROVE  <<"agent", u>> \notin ToSet(r.doc.messages)
    OBVIOUS
  <2>1. <<"agent", u>> \notin ToSet(doc.messages)
    BY DEF TurnInv, Unanswered
  <2>2. <<"agent", u>> # <<"agent", t>>
    OBVIOUS
  <2>3. r.doc.messages = messages
    BY <1>8, <1>11
  <2> QED
    BY <1>5, <2>1, <2>2, <2>3
<1> DEFINE entry == rows[relay[t].conversation]
<1>15. entry.stored /\ (entry.doc.turn = t => \A i \in 1..n : log[t][i] # "delta" => i <= entry.doc.seq)
  <2>1. relay[t].pc \in Serving /\ ~Unsaved(t)
    BY <1>12 DEF Serving, Unsaved
  <2> QED
    BY <2>1 DEF TurnInv, TakenIsSaved
<1>16. entry.doc.turn = t => \A i \in 1..r.got : log[t][i] # "delta" =>
         i <= entry.doc.seq \/ (i = r.got /\ r.passed < r.got /\ r.pc \in {"save", "failed"})
  <2> SUFFICES ASSUME entry.doc.turn = t, NEW i \in 1..next, log[t][i] # "delta"
               PROVE  i <= entry.doc.seq \/ (i = next /\ r.pc = "save")
    BY <1>1, <1>11
  <2>1. CASE i = next
    BY <1>10, <1>11, <2>1 DEF kind, next
  <2>2. CASE i # next
    <3>1. i \in 1..n
      BY <1>0, <2>2 DEF next
    <3> QED
      BY <1>15, <3>1
  <2> QED
    BY <2>1, <2>2
<1>17. r.pc \in {"send", "save"} /\ r.got >= relay[t].got /\ r.got <= work[t].sent
         /\ r.passed <= r.got /\ r.passed < r.got
  BY <1>0, <1>1, <1>10, <1>11 DEF next
<1> HIDE DEF n, doc
<1>18. /\ r \in TurnRelay /\ r.conversation \in Conversations
       /\ r.doc.turn = t /\ r.doc.seq = r.got /\ Projects(r.doc, t)
  BY <1>0, <1>8, <1>9, <1>11
<1>19. rows[r.conversation] = entry
  BY <1>11
<1>20. r.pc # "idle" /\ r.pc # "save_first"
  BY <1>17
<1> HIDE DEF entry
<1> QED
  BY <1>12, <1>13, <1>14, <1>15, <1>16, <1>17, <1>18, <1>19, <1>20, RelayMoves

\* A relay goes on with the session it has.
LEMMA RelayGoesOn ==
  ASSUME TurnInv, NEW t \in Turns, NEW pc \in {"select", "save_last", "failed"},
         NEW passed \in {relay[t].passed, relay[t].got},
         relay' = [relay EXCEPT ![t].pc = pc, ![t].passed = passed],
         relay[t].pc # "idle", pc \in Serving => relay[t].pc \in {"select", "send"},
         relay[t].pc = "save" => passed = relay[t].passed /\ pc = "failed",
         relay[t].pc # "failed", UNCHANGED <<log, rows, asked>>, work' \in [Turns -> TaskWork],
         \A u \in Turns : /\ work'[u].accepted = work[u].accepted /\ work'[u].sent = work[u].sent
                          /\ work'[u].stage = work[u].stage
  PROVE  TurnInv'
<1> DEFINE r == [relay[t] EXCEPT !.pc = pc, !.passed = passed]
           entry == rows[relay[t].conversation]
<1>0. /\ TurnShaped /\ relay[t] \in TurnRelay /\ relay[t].got \in Nat /\ relay[t].passed \in Nat
      /\ relay[t].passed <= relay[t].got /\ relay[t].got <= work[t].sent
      /\ relay[t].conversation \in Conversations
      /\ relay[t].pc = "save" => relay[t].passed < relay[t].got
  BY TurnTypes DEF TurnInv, LogFollowed
<1>1. /\ r \in TurnRelay /\ r.got = relay[t].got /\ r.doc = relay[t].doc /\ r.pc = pc
      /\ r.passed = passed /\ r.conversation = relay[t].conversation
  BY <1>0 DEF TurnRelay, RelayPc
<1>2. relay' = [relay EXCEPT ![t] = r]
  BY <1>0 DEF TurnShaped
<1>3. relay[t].doc.turn = t /\ relay[t].doc.seq = relay[t].got /\ Projects(relay[t].doc, t)
  BY DEF TurnInv, RelaysProject
<1> HIDE DEF r
<1>4. \A u \in Turns \ {t} : relay[u].pc = "idle" => <<"agent", u>> \notin ToSet(r.doc.messages)
  BY <1>1 DEF TurnInv, Unanswered
<1>5. ASSUME r.got > 0 \/ r.pc \in Serving
      PROVE  /\ entry.stored
             /\ entry.doc.turn = t => \A i \in 1..r.got : log[t][i] # "delta" =>
                  i <= entry.doc.seq \/ (i = r.got /\ r.passed < r.got /\ r.pc \in {"save", "failed"})
  <2>1. relay[t].got > 0 \/ relay[t].pc \in Serving
    BY <1>1, <1>5 DEF Serving
  <2>2. entry.stored /\ (entry.doc.turn = t =>
          \A i \in 1..relay[t].got : log[t][i] # "delta" =>
            i <= entry.doc.seq \/ (i = relay[t].got /\ Unsaved(t)))
    BY <2>1 DEF TurnInv, TakenIsSaved
  <2>3. Unsaved(t) => r.passed < r.got /\ r.pc = "failed"
    BY <1>1 DEF Unsaved
  <2> HIDE DEF entry
  <2> QED
    BY <1>1, <2>2, <2>3
<1>6. r.passed <= r.got /\ r.got >= relay[t].got /\ r.got <= work[t].sent
        /\ r.pc \notin {"idle", "save_first", "save"}
  BY <1>0, <1>1
<1>7. rows[r.conversation] = entry /\ r.conversation \in Conversations
        /\ r.doc.turn = t /\ r.doc.seq = r.got /\ Projects(r.doc, t)
  BY <1>0, <1>1, <1>3
<1> HIDE DEF entry
<1> QED
  BY <1>1, <1>2, <1>4, <1>5, <1>6, <1>7, RelayMoves

LEMMA RelaySteps ==
  ASSUME TurnInv, NEW t \in Turns,
         SaveSession(t) \/ SaveFails(t) \/ PassOn(t) \/ JoinTask(t)
  PROVE  TurnInv'
<1>0. /\ TurnShaped /\ relay[t] \in TurnRelay /\ work[t] \in TaskWork /\ relay[t].passed \in Nat
      /\ work \in [Turns -> TaskWork]
  BY TurnTypes DEF TurnInv, TurnShaped
<1>1. ASSUME Abandons(t)
      PROVE  /\ work' \in [Turns -> TaskWork]
             /\ \A u \in Turns : /\ work'[u].accepted = work[u].accepted
                                 /\ work'[u].sent = work[u].sent /\ work'[u].stage = work[u].stage
  <2> DEFINE stopped == work[t].cancelled \/ work[t].state = "running"
             w == [work[t] EXCEPT !.cancelled = stopped]
  <2>1. stopped \in BOOLEAN
    BY <1>0 DEF TaskWork
  <2>2. work' = [work EXCEPT ![t] = w]
    BY <1>0, <1>1 DEF Abandons
  <2> HIDE DEF stopped
  <2>3. /\ w \in TaskWork /\ w.accepted = work[t].accepted /\ w.sent = work[t].sent
        /\ w.stage = work[t].stage
    BY <1>0, <2>1 DEF TaskWork
  <2> HIDE DEF w
  <2> QED
    BY <1>0, <2>2, <2>3
<1>2. CASE SaveSession(t)
  <2>1. AfterSave(relay[t].pc) \in {"select", "send", "done"}
    BY DEF AfterSave
  <2>2. /\ relay' = [relay EXCEPT ![t].pc = AfterSave(relay[t].pc)] /\ rows' = Saved(t)
        /\ UNCHANGED <<log, asked>> /\ relay[t].pc \in Saving
    BY <1>2 DEF SaveSession
  <2>3. /\ work' \in [Turns -> TaskWork]
        /\ \A u \in Turns : /\ work'[u].accepted = work[u].accepted
                            /\ work'[u].sent = work[u].sent /\ work'[u].stage = work[u].stage
    <3> DEFINE w == [work[t] EXCEPT !.state = "running"]
    <3>1. /\ w \in TaskWork /\ w.accepted = work[t].accepted /\ w.sent = work[t].sent
          /\ w.stage = work[t].stage
      BY <1>0 DEF TaskWork
    <3>2. work' = work \/ work' = [work EXCEPT ![t] = w]
      BY <1>0, <1>2 DEF SaveSession
    <3> HIDE DEF w
    <3> QED
      BY <1>0, <3>1, <3>2
  <2> QED
    BY <2>1, <2>2, <2>3, SaveMoves
<1>3. CASE SaveFails(t)
  <2>1. /\ relay[t].pc \in Saving /\ UNCHANGED <<log, asked>>
        /\ relay' = [relay EXCEPT ![t].pc = "failed"] /\ Abandons(t)
    BY <1>3 DEF SaveFails, Abandons
  <2>2. CASE rows' = Saved(t)
    BY <1>1, <2>1, <2>2, SaveMoves
  <2>3. CASE rows' = rows
    <3>1. relay' = [relay EXCEPT ![t].pc = "failed", ![t].passed = relay[t].passed]
      BY <1>0, <2>1 DEF TurnShaped, TurnRelay
    <3>2. relay[t].pc \notin {"idle", "failed"} /\ "failed" \notin Serving
      BY <2>1 DEF Saving, Serving
    <3> QED
      BY <1>1, <2>1, <2>3, <3>1, <3>2, RelayGoesOn
  <2> QED
    BY <1>3, <2>2, <2>3 DEF SaveFails
<1>4. CASE PassOn(t)
  <2>1. relay[t].pc = "send" /\ UNCHANGED <<log, rows, asked>>
    BY <1>4 DEF PassOn
  <2>2. CASE Abandons(t)
    <3>1. relay' = [relay EXCEPT ![t].pc = "failed", ![t].passed = relay[t].passed]
      BY <1>0, <2>2 DEF TurnShaped, TurnRelay, Abandons
    <3>2. "failed" \notin Serving
      BY DEF Serving
    <3> QED
      BY <1>1, <2>1, <2>2, <3>1, <3>2, RelayGoesOn
  <2>3. CASE ~Abandons(t)
    <3>1. relay' = [relay EXCEPT ![t].pc = "select", ![t].passed = relay[t].got] /\ work' = work
      BY <1>4, <2>3 DEF PassOn
    <3> QED
      BY <1>0, <2>1, <3>1, RelayGoesOn
  <2> QED
    BY <2>2, <2>3
<1>5. CASE JoinTask(t)
  <2> DEFINE pc == IF Last(log[t]) = "completed" THEN "save_last" ELSE "failed"
  <2>1. pc \in {"save_last", "failed"}
    OBVIOUS
  <2>2. relay[t].pc = "select" /\ UNCHANGED <<log, rows, asked, work>>
          /\ relay' = [relay EXCEPT ![t].pc = pc]
    BY <1>5 DEF JoinTask
  <2> HIDE DEF pc
  <2>3. relay' = [relay EXCEPT ![t].pc = pc, ![t].passed = relay[t].passed]
    BY <1>0, <2>2 DEF TurnShaped, TurnRelay
  <2> QED
    BY <1>0, <2>1, <2>2, <2>3, RelayGoesOn
<1> QED
  BY <1>2, <1>3, <1>4, <1>5

LEMMA StartTurnStep ==
  ASSUME TurnInv, NEW t \in Turns, NEW c \in Conversations, StartTurn(t, c)
  PROVE  TurnInv'
<1> DEFINE old == IF rows[c].stored THEN rows[c].doc ELSE NewDoc
           zero == 0
           messages == Append(old.messages, <<"user", t>>)
           doc == [old EXCEPT !.turn = t, !.seq = zero, !.phase = "preparing",
                              !.messages = messages]
           r == [relay[t] EXCEPT !.pc = "save_first", !.conversation = c, !.doc = doc]
<1>0. /\ TurnShaped /\ relay[t] \in TurnRelay /\ log[t] \in Seq(Kinds)
      /\ relay[t].pc = "idle" /\ relay[t].got = 0 /\ relay[t].passed \in Nat
      /\ relay[t].passed <= relay[t].got /\ relay[t].got <= work[t].sent
  BY TurnTypes DEF TurnInv, LogFollowed, StartTurn
<1>1. /\ NewDoc \in SessionDoc /\ ToSet(NewDoc.messages) = {}
  <2>1. <<>> \in Seq(Message) /\ ToSet(<<>>) = {}
    BY DEF ToSet
  <2> QED
    BY <2>1 DEF NewDoc, Doc, SessionDoc, TurnIds, Phases, Titles
<1>2. old \in SessionDoc
  BY <1>0, <1>1, TurnTypes
<1>3. \A u \in Turns : relay[u].pc = "idle" => <<"agent", u>> \notin ToSet(old.messages)
  BY <1>1 DEF TurnInv, Unanswered
<1>4. zero \in Nat
  OBVIOUS
<1> HIDE DEF old, zero
<1>5. messages \in Seq(Message)
        /\ \A x : x \in ToSet(messages) <=> x \in ToSet(old.messages) \/ x = <<"user", t>>
  <2>1. <<"user", t>> \in Message /\ old.messages \in Seq(Message)
    BY <1>2 DEF Message, TurnIds, SessionDoc
  <2> QED
    BY <2>1, MessageAdded
<1>6. \A u \in Turns : relay[u].pc = "idle" => <<"agent", u>> \notin ToSet(messages)
  <2> SUFFICES ASSUME NEW u \in Turns, relay[u].pc = "idle"
               PROVE  <<"agent", u>> \notin ToSet(messages)
    OBVIOUS
  <2>1. <<"agent", u>> # <<"user", t>>
    OBVIOUS
  <2> QED
    BY <1>3, <1>5, <2>1
<1> HIDE DEF messages
<1>7. /\ doc \in SessionDoc /\ doc.turn = t /\ doc.seq = zero /\ doc.phase = "preparing"
      /\ doc.messages = messages
  BY <1>2, <1>4, <1>5 DEF SessionDoc, TurnIds, Phases
<1>8. Projects(doc, t)
  <2>1. PhaseAfter(SubSeq(log[t], 1, 0)) = "preparing" /\ "completed" \notin ToSet(SubSeq(log[t], 1, 0))
    BY <1>0, EmptyPrefix
  <2>2. SubSeq(log[t], 1, doc.seq) = SubSeq(log[t], 1, 0)
    BY <1>7 DEF zero
  <2> QED
    BY <1>0, <1>6, <1>7, <2>1, <2>2 DEF Projects
<1>9. doc = [old EXCEPT !.turn = t, !.seq = 0, !.phase = "preparing",
                        !.messages = Append(@, <<"user", t>>)]
  BY <1>2 DEF SessionDoc, zero, messages
<1> HIDE DEF doc
<1>10. /\ r \in TurnRelay /\ r.pc = "save_first" /\ r.conversation = c /\ r.doc = doc
       /\ r.got = relay[t].got /\ r.passed = relay[t].passed
  BY <1>0, <1>7 DEF TurnRelay, RelayPc
<1>11. relay' = [relay EXCEPT ![t] = r] /\ UNCHANGED <<log, work, rows, asked>>
  BY <1>9 DEF StartTurn, old
<1> HIDE DEF r
<1>12. work' \in [Turns -> TaskWork]
  BY <1>0, <1>11 DEF TurnShaped
<1>13. ~(r.got > 0 \/ r.pc \in Serving)
  BY <1>0, <1>10 DEF Serving
<1>14. r.doc.turn = t /\ r.doc.seq = r.got /\ Projects(r.doc, t)
  BY <1>0, <1>7, <1>8, <1>10 DEF zero
<1>15. \A u \in Turns \ {t} : relay[u].pc = "idle" => <<"agent", u>> \notin ToSet(r.doc.messages)
  BY <1>6, <1>7, <1>10
<1>16. r.got = 0 /\ r.got >= relay[t].got /\ r.got <= work[t].sent /\ r.passed <= r.got
         /\ r.conversation \in Conversations
  BY <1>0, <1>10
<1> QED
  BY <1>10, <1>11, <1>12, <1>13, <1>14, <1>15, <1>16, RelayMoves

\* Another request writes a row: no session of a turn but the one it held.
LEMMA RowMoves ==
  ASSUME TurnInv, NEW c \in Conversations, NEW entry \in StoredRow, rows' = [rows EXCEPT ![c] = entry],
         UNCHANGED <<log, work, relay>>, asked' \in BranchRequest \cup {NoRequest},
         entry.doc.turn \in Turns => rows[c].stored /\ entry.doc = rows[c].doc,
         \A t \in Turns : relay[t].pc = "idle" => <<"agent", t>> \notin ToSet(entry.doc.messages),
         entry.origin.turn \in Turns =>
           /\ entry.origin.phase = PhaseAfter(SubSeq(log[entry.origin.turn], 1, entry.origin.seq))
           /\ entry.origin.seq <= work[entry.origin.turn].accepted
  PROVE  TurnInv'
<1>0. TurnShaped /\ entry.stored
  BY DEF TurnInv, StoredRow
<1>1. /\ rows' \in [Conversations -> StoredRow \cup {NoRow}] /\ rows'[c] = entry
      /\ \A d \in Conversations \ {c} : rows'[d] = rows[d]
  BY <1>0 DEF TurnShaped
<1>2. TurnShaped'
  BY <1>0, <1>1 DEF TurnShaped
<1>3. LogFollowed' /\ RelaysProject'
  BY DEF TurnInv, LogFollowed, RelaysProject, Projects
<1>4. \A d \in Conversations, t \in Turns : rows'[d].stored /\ rows'[d].doc.turn = t =>
        rows[d].stored /\ rows'[d].doc = rows[d].doc
  BY <1>1
<1>5. RowsProject'
  <2> SUFFICES ASSUME NEW t \in Turns, NEW d \in Conversations, rows'[d].stored, rows'[d].doc.turn = t
               PROVE  rows'[d].doc.seq <= relay[t].got /\ Projects(rows[d].doc, t)'
    BY DEF RowsProject
  <2>1. rows[d].stored /\ rows'[d].doc = rows[d].doc
    BY <1>4
  <2>2. rows[d].doc.seq <= relay[t].got /\ Projects(rows[d].doc, t)
    BY <2>1 DEF TurnInv, RowsProject
  <2> QED
    BY <2>1, <2>2 DEF Projects
<1>6. Unanswered'
  <2> SUFFICES ASSUME NEW t \in Turns, relay[t].pc = "idle", NEW d \in Conversations, rows'[d].stored
               PROVE  <<"agent", t>> \notin ToSet(rows'[d].doc.messages)
    BY DEF TurnInv, Unanswered
  <2>1. CASE d = c
    BY <1>1, <2>1
  <2>2. CASE d # c
    BY <1>1, <2>2 DEF TurnInv, Unanswered
  <2> QED
    BY <2>1, <2>2
<1>7. TakenIsSaved'
  <2> SUFFICES ASSUME NEW t \in Turns, relay[t].got > 0 \/ relay[t].pc \in Serving
               PROVE  LET q == rows'[relay[t].conversation] IN
                        /\ relay[t].pc # "idle" /\ q.stored
                        /\ q.doc.turn = t =>
                             \A i \in 1..relay[t].got : log[t][i] # "delta" =>
                               i <= q.doc.seq \/ (i = relay[t].got /\ Unsaved(t))
    BY DEF TakenIsSaved, Unsaved
  <2> DEFINE d == relay[t].conversation
  <2>1. /\ relay[t].pc # "idle" /\ rows[d].stored
        /\ rows[d].doc.turn = t =>
             \A i \in 1..relay[t].got : log[t][i] # "delta" =>
               i <= rows[d].doc.seq \/ (i = relay[t].got /\ Unsaved(t))
    BY DEF TurnInv, TakenIsSaved
  <2>2. d \in Conversations
    BY <2>1 DEF TurnInv, LogFollowed
  <2>3. rows'[d].stored
    BY <1>0, <1>1, <2>1, <2>2
  <2>4. rows'[d].doc.turn = t => rows'[d].doc = rows[d].doc
    BY <1>4, <2>2, <2>3
  <2> QED
    BY <2>1, <2>3, <2>4
<1>8. BranchOriginIsReal'
  <2> SUFFICES ASSUME NEW d \in Conversations, rows'[d].stored, rows'[d].origin.turn \in Turns
               PROVE  LET o == rows'[d].origin IN
                        /\ o.phase = PhaseAfter(SubSeq(log[o.turn], 1, o.seq))
                        /\ o.seq <= work[o.turn].accepted
    BY DEF BranchOriginIsReal
  <2>1. CASE d = c
    BY <1>1, <2>1
  <2>2. CASE d # c
    BY <1>1, <2>2 DEF TurnInv, BranchOriginIsReal
  <2> QED
    BY <2>1, <2>2
<1> QED
  BY <1>2, <1>3, <1>5, <1>6, <1>7, <1>8 DEF TurnInv

\* A step of a client, or a request for a branch.
LEMMA AskedMoves ==
  ASSUME TurnInv, UNCHANGED <<log, work, relay, rows>>, asked' \in BranchRequest \cup {NoRequest}
  PROVE  TurnInv'
<1>1. TurnShaped'
  BY DEF TurnInv, TurnShaped
<1>2. LogFollowed' /\ RelaysProject' /\ RowsProject'
  BY DEF TurnInv, LogFollowed, RelaysProject, RowsProject, Projects
<1>3. Unanswered' /\ TakenIsSaved' /\ BranchOriginIsReal'
  BY DEF TurnInv, Unanswered, TakenIsSaved, Unsaved, BranchOriginIsReal
<1> QED
  BY <1>1, <1>2, <1>3 DEF TurnInv

LEMMA ConversationSteps ==
  ASSUME TurnInv, NEW c \in Conversations,
         RenameConversation(c) \/ DeleteConversation(c) \/ (\E i \in 1..3 : AskBranch(c, i))
  PROVE  TurnInv'
<1>0. /\ TurnShaped /\ rows[c].stored /\ rows[c] \in StoredRow /\ rows[c].doc \in SessionDoc
      /\ asked \in BranchRequest \cup {NoRequest}
  BY TurnTypes DEF TurnInv, TurnShaped, Live, RenameConversation, DeleteConversation, AskBranch
<1>1. \A t \in Turns : relay[t].pc = "idle" => <<"agent", t>> \notin ToSet(rows[c].doc.messages)
  BY <1>0 DEF TurnInv, Unanswered
<1>2. rows[c].origin.turn \in Turns =>
           /\ rows[c].origin.phase = PhaseAfter(SubSeq(log[rows[c].origin.turn], 1, rows[c].origin.seq))
           /\ rows[c].origin.seq <= work[rows[c].origin.turn].accepted
  BY <1>0 DEF TurnInv, BranchOriginIsReal
<1>3. CASE RenameConversation(c) \/ DeleteConversation(c)
  <2>1. PICK entry \in {[rows[c] EXCEPT !.title = "renamed"], [rows[c] EXCEPT !.deleted = TRUE]} :
          rows' = [rows EXCEPT ![c] = entry]
    BY <1>0, <1>3 DEF RenameConversation, DeleteConversation, TurnShaped
  <2>2. entry \in StoredRow /\ entry.doc = rows[c].doc /\ entry.origin = rows[c].origin
    <3>1. CASE entry = [rows[c] EXCEPT !.title = "renamed"]
      BY <1>0, <3>1 DEF StoredRow, Titles
    <3>2. CASE entry = [rows[c] EXCEPT !.deleted = TRUE]
      BY <1>0, <3>2 DEF StoredRow
    <3> QED
      BY <2>1, <3>1, <3>2
  <2>3. UNCHANGED <<log, work, relay, asked>>
    BY <1>3 DEF RenameConversation, DeleteConversation
  <2> QED
    BY <1>0, <1>1, <1>2, <2>1, <2>2, <2>3, RowMoves
<1>4. CASE \E i \in 1..3 : AskBranch(c, i)
  <2>1. PICK i \in 1..3 : AskBranch(c, i)
    BY <1>4
  <2> DEFINE doc == rows[c].doc
             checked == i = Len(doc.messages) /\ doc.turn # NoTurn /\ doc.seq > 0
             turn == IF checked THEN doc.turn ELSE NoTurn
             seq == IF checked THEN doc.seq ELSE 0
             message == doc.messages[i]
  <2>2. turn \in TurnIds /\ seq \in Nat /\ message \in Message
    <3>1. doc.turn \in TurnIds /\ doc.seq \in Nat /\ doc.messages \in Seq(Message)
      BY <1>0 DEF SessionDoc
    <3>2. i \in 1..Len(doc.messages)
      BY <2>1 DEF AskBranch
    <3> QED
      BY <3>1, <3>2 DEF TurnIds
  <2>3. asked' = [state |-> "sent", source |-> c, message |-> message, turn |-> turn, seq |-> seq]
          /\ UNCHANGED <<log, work, relay, rows>>
    BY <2>1 DEF AskBranch
  <2> HIDE DEF turn, seq, message
  <2>4. asked' \in BranchRequest
    BY <2>2, <2>3 DEF BranchRequest
  <2> QED
    BY <2>3, <2>4, AskedMoves
<1> QED
  BY <1>3, <1>4

LEMMA ServeBranchStep ==
  ASSUME TurnInv, NEW new \in Conversations, ServeBranch(new)
  PROVE  TurnInv'
<1> DEFINE q == asked
           messages == rows[q.source].doc.messages
           i == CHOOSE j \in 1..Len(messages) : messages[j] = q.message
           part == SubSeq(messages, 1, i)
           doc == [Doc(NoTurn, 0, "idle", part) EXCEPT !.title = "branched"]
           phase == DurablePhase(q.turn)
           origin == IF q.turn = NoTurn THEN NoOrigin
                     ELSE [turn |-> q.turn, seq |-> q.seq, phase |-> phase]
           entry == Row("branched", doc, origin)
<1>0. TurnShaped /\ asked' = NoRequest /\ UNCHANGED <<log, work, relay>>
  BY DEF TurnInv, ServeBranch
<1>1. q \in BranchRequest /\ q.source \in Conversations /\ q.turn \in TurnIds /\ q.seq \in Nat
  <2>1. q # NoRequest
    BY DEF ServeBranch, NoRequest
  <2> QED
    BY <1>0, <2>1 DEF TurnShaped, BranchRequest
<1>2. CASE UNCHANGED rows
  BY <1>0, <1>2, AskedMoves
<1>3. CASE ~UNCHANGED rows
  <2>1. /\ Live(q.source) /\ CheckpointAgrees(q)
        /\ \E j \in 1..Len(messages) : messages[j] = q.message
        /\ rows' = [rows EXCEPT ![new] = entry]
    BY <1>3 DEF ServeBranch
  <2>2. rows[q.source].stored /\ messages \in Seq(Message)
    BY <1>0, <1>1, <2>1, TurnTypes DEF Live, SessionDoc
  <2>3. i \in 1..Len(messages)
    BY <2>1
  <2> HIDE DEF i, messages
  <2>4. part \in Seq(Message) /\ \A x : x \in ToSet(part) => x \in ToSet(messages)
    <3>1. /\ part \in Seq(Message) /\ Len(part) = i /\ \A j \in 1..i : part[j] = messages[j]
      BY <2>2, <2>3
    <3>2. DOMAIN part = 1..i /\ 1..i \subseteq DOMAIN messages
      BY <2>2, <2>3, <3>1
    <3> QED
      BY <3>1, <3>2 DEF ToSet
  <2>5. \A t \in Turns : relay[t].pc = "idle" => <<"agent", t>> \notin ToSet(part)
    BY <1>1, <2>2, <2>4 DEF TurnInv, Unanswered, messages
  <2> HIDE DEF part
  <2>6. doc \in SessionDoc /\ doc.turn = NoTurn /\ doc.messages = part
    BY <2>4 DEF Doc, SessionDoc, TurnIds, Phases, Titles
  <2>7. NoTurn \notin Turns /\ Earlier \notin Turns
    BY TurnAssumption DEF NoTurn, Earlier
  <2>8. q.turn # NoTurn => DurableSeq(q.turn) = q.seq
    BY <2>1 DEF CheckpointAgrees
  <2>9. ASSUME q.turn \in Turns
        PROVE  /\ phase = PhaseAfter(SubSeq(log[q.turn], 1, q.seq)) /\ phase \in Phases
               /\ q.seq <= work[q.turn].accepted
    <3>1. work[q.turn].accepted = q.seq
      BY <2>7, <2>8, <2>9 DEF DurableSeq
    <3>2. log[q.turn] \in Seq(Kinds) /\ q.seq <= Len(log[q.turn])
      BY <1>0, <2>9, <3>1, TurnTypes DEF TurnInv, LogFollowed
    <3>3. SubSeq(log[q.turn], 1, q.seq) \in Seq(Kinds)
      BY <1>1, <3>2
    <3>4. phase = PhaseAfter(SubSeq(log[q.turn], 1, work[q.turn].accepted))
      BY <2>9 DEF DurablePhase
    <3>5. phase = PhaseAfter(SubSeq(log[q.turn], 1, q.seq))
      BY <3>1, <3>4
    <3>6. q.seq <= work[q.turn].accepted
      BY <1>1, <3>1
    <3> HIDE DEF phase
    <3> QED
      BY <3>3, <3>5, <3>6, PhaseTyped
  <2>10. q.turn \notin Turns => phase = "completed"
    BY DEF DurablePhase
  <2>11. phase \in Phases
    BY <2>9, <2>10 DEF Phases, Terminal
  <2>12. ASSUME origin.turn \in Turns
         PROVE  q.turn \in Turns /\ origin.turn = q.turn /\ origin.seq = q.seq /\ origin.phase = phase
    <3>1. q.turn # NoTurn
      BY <2>7, <2>12 DEF NoOrigin
    <3> QED
      BY <2>12, <3>1
  <2> HIDE DEF phase
  <2>13. origin \in [turn : TurnIds, seq : Nat, phase : Phases]
    <3>1. NoOrigin \in [turn : TurnIds, seq : Nat, phase : Phases]
      BY DEF NoOrigin, TurnIds, Phases
    <3> QED
      BY <1>1, <2>11, <3>1
  <2> HIDE DEF doc, origin
  <2>14. entry \in StoredRow /\ entry.doc = doc /\ entry.origin = origin
    BY <2>6, <2>13 DEF Row, StoredRow, Titles
  <2> HIDE DEF entry
  <2>15. entry.doc.turn \notin Turns
    BY <2>6, <2>7, <2>14
  <2>16. \A t \in Turns : relay[t].pc = "idle" => <<"agent", t>> \notin ToSet(entry.doc.messages)
    BY <2>5, <2>6, <2>14
  <2>17. entry.origin.turn \in Turns =>
           /\ entry.origin.phase = PhaseAfter(SubSeq(log[entry.origin.turn], 1, entry.origin.seq))
           /\ entry.origin.seq <= work[entry.origin.turn].accepted
    BY <2>9, <2>12, <2>14
  <2> QED
    BY <1>0, <2>1, <2>14, <2>15, <2>16, <2>17, RowMoves
<1> QED
  BY <1>2, <1>3

LEMMA TurnStep == ASSUME TurnInv, [TurnNext]_turnVars PROVE TurnInv'
<1>0. asked \in BranchRequest \cup {NoRequest}
  BY DEF TurnInv, TurnShaped
<1>1. CASE UNCHANGED turnVars
  BY <1>0, <1>1, AskedMoves DEF turnVars
<1>2. ASSUME NEW t \in Turns, TaskStep(t)
      PROVE  TurnInv'
  BY <1>2, AppendToLogStep, SendSteps DEF TaskStep
<1>3. ASSUME NEW t \in Turns, RelayStep(t)
      PROVE  TurnInv'
  BY <1>3, RelayReceivesStep, RelaySteps, SendSteps DEF RelayStep
<1>4. ASSUME NEW t \in Turns, ClientReceives(t) \/ CancelTurn(t) \/ DropTurn(t)
      PROVE  TurnInv'
  BY <1>0, <1>4, AskedMoves DEF ClientReceives, CancelTurn, DropTurn
<1>5. ASSUME NEW t \in Turns, NEW c \in Conversations, StartTurn(t, c)
      PROVE  TurnInv'
  BY <1>5, StartTurnStep
<1>6. ASSUME NEW c \in Conversations,
             RenameConversation(c) \/ DeleteConversation(c) \/ (\E i \in 1..3 : AskBranch(c, i))
      PROVE  TurnInv'
  BY <1>6, ConversationSteps
<1>7. ASSUME NEW c \in Conversations, ServeBranch(c)
      PROVE  TurnInv'
  BY <1>7, ServeBranchStep
<1> QED
  BY <1>1, <1>2, <1>3, <1>4, <1>5, <1>6, <1>7 DEF TurnNext

\* What a client saw of a turn survives in the saved session, which holds a
\* checkpointed part of the log and nothing else (start_session_turn): the
\* relay's copy and every row of the turn are projections of what it has taken.
THEOREM TurnSessionIsSaved == TurnSpec => []SessionIsSaved
<1>1. TurnInit => TurnInv
  BY InitTurnInv
<1>2. TurnInv /\ [TurnNext]_turnVars => TurnInv'
  BY TurnStep
<1>3. TurnInv => SessionIsSaved
  <2> SUFFICES ASSUME TurnInv PROVE SessionIsSaved
    OBVIOUS
  <2>0. TurnShaped
    BY DEF TurnInv
  <2>1. RowsProjectTheLog
    <3> SUFFICES ASSUME NEW t \in Turns, NEW c \in Conversations, rows[c].stored, rows[c].doc.turn = t
                 PROVE  rows[c].doc.seq <= work[t].accepted /\ Projects(rows[c].doc, t)
      BY DEF RowsProjectTheLog, Projects
    <3>1. rows[c].doc.seq <= relay[t].got /\ Projects(rows[c].doc, t)
      BY DEF TurnInv, RowsProject
    <3>2. relay[t].got <= work[t].sent /\ work[t].sent <= work[t].accepted
      BY DEF TurnInv, LogFollowed
    <3>3. /\ rows[c].doc.seq \in Nat /\ relay[t].got \in Nat /\ work[t].sent \in Nat
          /\ work[t].accepted \in Nat
      BY <2>0, TurnTypes
    <3> QED
      BY <3>1, <3>2, <3>3
  <2>2. SeenIsSaved
    <3> SUFFICES ASSUME NEW t \in Turns, relay[t].passed > 0,
                        rows[relay[t].conversation].doc.turn = t,
                        NEW i \in 1..relay[t].passed, log[t][i] # "delta"
                 PROVE  i <= rows[relay[t].conversation].doc.seq
      BY DEF SeenIsSaved
    <3>1. relay[t].passed <= relay[t].got /\ relay[t].passed \in Nat /\ relay[t].got \in Nat
      BY <2>0, TurnTypes DEF TurnInv, LogFollowed
    <3>2. relay[t].got > 0 /\ i \in 1..relay[t].got
      BY <3>1
    <3>3. i <= rows[relay[t].conversation].doc.seq \/ (i = relay[t].got /\ Unsaved(t))
      BY <3>2 DEF TurnInv, TakenIsSaved
    <3>4. Unsaved(t) => i # relay[t].got
      BY <3>1 DEF Unsaved
    <3> QED
      BY <3>3, <3>4
  <2> QED
    BY <2>1, <2>2 DEF SessionIsSaved
<1> QED
  BY <1>1, <1>2, <1>3, PTL DEF TurnSpec

\* A branch that names a checkpoint records the phase the task had at just
\* that event (branch_conversation compares the task's own checkpoint in its
\* transaction), and the log before it never changes again.
THEOREM TurnBranchOriginIsReal == TurnSpec => []BranchOriginIsReal
<1>1. TurnInit => TurnInv
  BY InitTurnInv
<1>2. TurnInv /\ [TurnNext]_turnVars => TurnInv'
  BY TurnStep
<1>3. TurnInv => BranchOriginIsReal
  BY DEF TurnInv
<1> QED
  BY <1>1, <1>2, <1>3, PTL DEF TurnSpec

-----------------------------------------------------------------------------
\* What is on its way: the relay holds at most one event the client has not been
\* passed, and while it holds one, it receives none.
ChannelsOf(sent, r, seen) ==
  /\ seen \in Nat /\ seen <= r.passed
  /\ sent - r.got <= ChannelCapacity /\ r.passed - seen <= ChannelCapacity
  /\ r.pc \in {"select", "save_last", "done"} => r.passed = r.got
  /\ r.pc \in {"save", "send"} => r.got = r.passed + 1

ChannelsKept == \A t \in Turns : ChannelsOf(work[t].sent, relay[t], client[t].seen)
ClientsTyped == client \in [Turns -> [attached : BOOLEAN, cancelled : BOOLEAN, seen : Nat]]
TriesCounted == faults \in 0..MaxSaveFaults /\ edits \in 0..MaxEdits

TurnTypeInv == TurnInv /\ ChannelsKept /\ ClientsTyped /\ TriesCounted

LEMMA TurnBounds == ChannelCapacity \in Nat /\ MaxSaveFaults \in Nat /\ MaxEdits \in Nat
  BY TurnAssumption

LEMMA ChannelsMove ==
  ASSUME ChannelsKept, NEW t \in Turns,
         \A u \in Turns : u # t => /\ work'[u].sent = work[u].sent /\ relay'[u] = relay[u]
                                   /\ client'[u].seen = client[u].seen,
         ChannelsOf(work'[t].sent, relay'[t], client'[t].seen)
  PROVE  ChannelsKept'
<1>1. \A u \in Turns : u # t => ChannelsOf(work'[u].sent, relay'[u], client'[u].seen)
  BY DEF ChannelsKept
<1> QED
  BY <1>1 DEF ChannelsKept, ChannelsOf

LEMMA TurnNumbers ==
  ASSUME TurnInv, ChannelsKept, ClientsTyped, NEW t \in Turns
  PROVE  /\ work[t] \in TaskWork /\ relay[t] \in TurnRelay
         /\ work[t].sent \in Nat /\ relay[t].got \in Nat /\ relay[t].passed \in Nat
         /\ client[t].seen \in Nat /\ ChannelsOf(work[t].sent, relay[t], client[t].seen)
         /\ relay[t].passed <= relay[t].got /\ relay[t].got <= work[t].sent
         /\ relay[t].pc \in {"idle", "save_first"} => relay[t].got = 0
         /\ work \in [Turns -> TaskWork] /\ relay \in [Turns -> TurnRelay]
  BY DEF TurnInv, TurnShaped, TaskWork, TurnRelay, ChannelsKept, ChannelsOf, LogFollowed

\* The task puts an event into the first channel if there is room.
LEMMA TaskChannels ==
  ASSUME TurnInv, ChannelsKept, ClientsTyped, NEW t \in Turns, TaskStep(t) \/ ForwardCancel(t)
  PROVE  ChannelsKept' /\ UNCHANGED <<client, faults, edits>>
<1>0. /\ work[t] \in TaskWork /\ work \in [Turns -> TaskWork]
      /\ ChannelsOf(work[t].sent, relay[t], client[t].seen)
  BY TurnNumbers
<1>1. UNCHANGED <<relay, client, faults, edits>>
  BY DEF TaskStep, ForwardCancel, AppendToLog, PutAccepted, SendToRelay
<1>2. \A u \in Turns : u # t => work'[u] = work[u]
  BY <1>0 DEF TaskStep, ForwardCancel, AppendToLog, PutAccepted, SendToRelay
<1>3. CASE work'[t].sent = work[t].sent
  BY <1>0, <1>1, <1>2, <1>3, ChannelsMove
<1>4. CASE HasRoom(t) /\ work'[t].sent = work[t].sent + 1
  <2>1. work[t].sent \in Nat /\ relay[t].got \in Nat /\ ChannelCapacity \in Nat
    BY TurnNumbers, TurnBounds
  <2>2. work'[t].sent - relay[t].got <= ChannelCapacity
    BY <1>4, <2>1 DEF HasRoom
  <2>3. ChannelsOf(work'[t].sent, relay'[t], client'[t].seen)
    BY <1>0, <1>1, <2>2 DEF ChannelsOf
  <2> QED
    BY <1>1, <1>2, <2>3, ChannelsMove
<1>5. CASE SendToRelay(t)
  <2>1. CASE RelayGone(t)
    <3>1. work'[t] = Unheard(t)
      BY <1>0, <1>5, <2>1 DEF SendToRelay
    <3>2. work'[t].sent = work[t].sent
      BY <1>0, <3>1 DEF Unheard, TaskWork
    <3> QED
      BY <1>1, <1>3, <3>2
  <2>2. CASE ~RelayGone(t)
    <3>1. work'[t] = Heard(t) /\ HasRoom(t)
      BY <1>0, <1>5, <2>2 DEF SendToRelay
    <3>2. work'[t].sent = work[t].sent + 1
      BY <1>0, <3>1 DEF Heard, TaskWork
    <3> QED
      BY <1>1, <1>4, <3>1, <3>2
  <2> QED
    BY <2>1, <2>2
<1>6. CASE PutAccepted(t) \/ ForwardCancel(t) \/ \E kind \in Kinds : AppendToLog(t, kind)
  <2>1. work'[t].sent = work[t].sent
    BY <1>0, <1>6 DEF PutAccepted, ForwardCancel, AppendToLog, TaskWork
  <2> QED
    BY <1>1, <1>3, <2>1
<1> QED
  BY <1>5, <1>6 DEF TaskStep

\* The relay takes an event, saves it, and puts it into the second channel.
LEMMA RelayChannels ==
  ASSUME TurnInv, ChannelsKept, ClientsTyped, NEW t \in Turns,
         \/ RelayReceives(t) \/ SaveSession(t) \/ SaveFails(t) \/ PassOn(t) \/ JoinTask(t)
         \/ \E c \in Conversations : StartTurn(t, c)
  PROVE  ChannelsKept'
<1> DEFINE r == relay[t]
           s == relay'[t]
           seen == client[t].seen
<1>0. /\ work[t] \in TaskWork /\ work \in [Turns -> TaskWork]
      /\ relay[t] \in TurnRelay /\ relay \in [Turns -> TurnRelay]
      /\ work[t].sent \in Nat /\ r.got \in Nat /\ r.passed \in Nat /\ seen \in Nat
      /\ ChannelsOf(work[t].sent, r, seen) /\ r.passed <= r.got
      /\ r.pc \in {"idle", "save_first"} => r.got = 0
  BY TurnNumbers
<1>1. UNCHANGED client /\ \A u \in Turns : work'[u].sent = work[u].sent
  <2>1. UNCHANGED client
    BY DEF RelayReceives, SaveSession, SaveFails, PassOn, JoinTask, StartTurn
  <2>2. \/ work' = work \/ work' = [work EXCEPT ![t].state = "running"]
        \/ work' = [work EXCEPT ![t].cancelled = @ \/ work[t].state = "running"]
    BY DEF RelayReceives, SaveSession, SaveFails, PassOn, JoinTask, StartTurn, Abandons
  <2>3. \A u \in Turns : work'[u].sent = work[u].sent
    BY <1>0, <2>2 DEF TaskWork
  <2> QED
    BY <2>1, <2>3
<1>2. \A u \in Turns : u # t => relay'[u] = relay[u]
  BY <1>0 DEF RelayReceives, SaveSession, SaveFails, PassOn, JoinTask, StartTurn, Abandons
<1>3. ASSUME ChannelsOf(work[t].sent, s, seen) PROVE ChannelsKept'
  BY <1>1, <1>2, <1>3, ChannelsMove
<1>4. CASE s.pc = "failed" /\ s.got = r.got /\ s.passed = r.passed
  <2>1. ChannelsOf(work[t].sent, s, seen)
    BY <1>0, <1>4 DEF ChannelsOf
  <2> QED
    BY <1>3, <2>1
<1>5. CASE RelayReceives(t)
  <2>1. /\ r.pc = "select" /\ s.pc \in {"save", "send"} /\ s.got = r.got + 1 /\ s.passed = r.passed
    BY <1>0, <1>5 DEF RelayReceives, AfterReceipt, TurnRelay
  <2>2. ChannelsOf(work[t].sent, s, seen)
    BY <1>0, <2>1, TurnBounds DEF ChannelsOf
  <2> QED
    BY <1>3, <2>2
<1>6. CASE SaveSession(t)
  <2>1. /\ r.pc \in Saving /\ s.pc = AfterSave(r.pc) /\ s.got = r.got /\ s.passed = r.passed
    BY <1>0, <1>6 DEF SaveSession, TurnRelay
  <2>2. CASE r.pc = "save_first"
    <3>1. s.pc = "select" /\ s.got = s.passed
      BY <1>0, <2>1, <2>2 DEF AfterSave
    <3>2. ChannelsOf(work[t].sent, s, seen)
      BY <1>0, <2>1, <3>1 DEF ChannelsOf
    <3> QED
      BY <1>3, <3>2
  <2>3. CASE r.pc = "save"
    <3>1. s.pc = "send"
      BY <2>1, <2>3 DEF AfterSave
    <3>2. ChannelsOf(work[t].sent, s, seen)
      BY <1>0, <2>1, <2>3, <3>1 DEF ChannelsOf
    <3> QED
      BY <1>3, <3>2
  <2>4. CASE r.pc = "save_last"
    <3>1. s.pc = "done"
      BY <2>1, <2>4 DEF AfterSave
    <3>2. ChannelsOf(work[t].sent, s, seen)
      BY <1>0, <2>1, <2>4, <3>1 DEF ChannelsOf
    <3> QED
      BY <1>3, <3>2
  <2> QED
    BY <2>1, <2>2, <2>3, <2>4 DEF Saving
<1>7. CASE SaveFails(t)
  BY <1>0, <1>4, <1>7 DEF SaveFails, Abandons, TurnRelay
<1>8. CASE PassOn(t)
  <2>1. CASE ClientGone(t)
    BY <1>0, <1>4, <1>8, <2>1 DEF PassOn, Abandons, TurnRelay
  <2>2. CASE ~ClientGone(t)
    <3>1. /\ r.pc = "send" /\ s.pc = "select" /\ s.got = r.got /\ s.passed = r.got
          /\ r.passed - seen < ChannelCapacity
      BY <1>0, <1>8, <2>2 DEF PassOn, TurnRelay
    <3>2. ChannelsOf(work[t].sent, s, seen)
      BY <1>0, <3>1, TurnBounds DEF ChannelsOf
    <3> QED
      BY <1>3, <3>2
  <2> QED
    BY <2>1, <2>2
<1>9. CASE JoinTask(t)
  <2>1. r.pc = "select" /\ s.pc \in {"save_last", "failed"} /\ s.got = r.got /\ s.passed = r.passed
    BY <1>0, <1>9 DEF JoinTask, TurnRelay
  <2>2. ChannelsOf(work[t].sent, s, seen)
    BY <1>0, <2>1 DEF ChannelsOf
  <2> QED
    BY <1>3, <2>2
<1>10. ASSUME NEW c \in Conversations, StartTurn(t, c) PROVE ChannelsKept'
  <2>1. s.pc = "save_first" /\ s.got = r.got /\ s.passed = r.passed
    BY <1>0, <1>10 DEF StartTurn, TurnRelay
  <2>2. ChannelsOf(work[t].sent, s, seen)
    BY <1>0, <2>1 DEF ChannelsOf
  <2> QED
    BY <1>3, <2>2
<1> QED
  BY <1>5, <1>6, <1>7, <1>8, <1>9, <1>10

\* The client takes what it was passed.
LEMMA ClientChannels ==
  ASSUME TurnInv, ChannelsKept, ClientsTyped, NEW t \in Turns,
         ClientReceives(t) \/ CancelTurn(t) \/ DropTurn(t)
  PROVE  ChannelsKept' /\ ClientsTyped'
<1> DEFINE old == client[t]
           new == client'[t]
<1>0. /\ relay[t].passed \in Nat /\ old.seen \in Nat
      /\ ChannelsOf(work[t].sent, relay[t], old.seen)
  BY TurnNumbers
<1>1. UNCHANGED <<work, relay>> /\ old \in [attached : BOOLEAN, cancelled : BOOLEAN, seen : Nat]
  BY DEF ClientReceives, CancelTurn, DropTurn, ClientsTyped
<1>2. PICK entry \in [attached : BOOLEAN, cancelled : BOOLEAN, seen : Nat] :
        /\ client' = [client EXCEPT ![t] = entry]
        /\ entry.seen = old.seen \/ (entry.seen = old.seen + 1 /\ old.seen < relay[t].passed)
  <2>1. CASE ClientReceives(t)
    <3>1. [old EXCEPT !.seen = @ + 1] \in [attached : BOOLEAN, cancelled : BOOLEAN, seen : Nat]
      BY <1>1
    <3>2. client' = [client EXCEPT ![t] = [old EXCEPT !.seen = @ + 1]] /\ old.seen < relay[t].passed
      BY <2>1 DEF ClientReceives, ClientsTyped
    <3>3. [old EXCEPT !.seen = @ + 1].seen = old.seen + 1
      BY <1>1
    <3> QED
      BY <3>1, <3>2, <3>3
  <2>2. CASE CancelTurn(t)
    <3>1. client' = [client EXCEPT ![t] = [old EXCEPT !.cancelled = TRUE]]
      BY <2>2 DEF CancelTurn, ClientsTyped
    <3>2. /\ [old EXCEPT !.cancelled = TRUE] \in [attached : BOOLEAN, cancelled : BOOLEAN, seen : Nat]
          /\ [old EXCEPT !.cancelled = TRUE].seen = old.seen
      BY <1>1
    <3> QED
      BY <3>1, <3>2
  <2>3. CASE DropTurn(t)
    <3>1. client' = [client EXCEPT ![t] = [old EXCEPT !.attached = FALSE, !.cancelled = TRUE]]
      BY <2>3 DEF DropTurn, ClientsTyped
    <3>2. LET dropped == [old EXCEPT !.attached = FALSE, !.cancelled = TRUE] IN
            /\ dropped \in [attached : BOOLEAN, cancelled : BOOLEAN, seen : Nat]
            /\ dropped.seen = old.seen
      BY <1>1
    <3> QED
      BY <3>1, <3>2
  <2> QED
    BY <2>1, <2>2, <2>3
<1>3. ClientsTyped'
  BY <1>2 DEF ClientsTyped
<1>4. new = entry /\ \A u \in Turns : u # t => client'[u] = client[u]
  BY <1>2 DEF ClientsTyped
<1>5. ChannelsOf(work[t].sent, relay[t], entry.seen)
  <2>1. entry.seen \in Nat /\ entry.seen <= relay[t].passed /\ entry.seen >= old.seen
    BY <1>0, <1>2 DEF ChannelsOf
  <2>2. relay[t].passed - entry.seen <= ChannelCapacity
    BY <1>0, <2>1, TurnBounds DEF ChannelsOf
  <2> QED
    BY <1>0, <2>1, <2>2 DEF ChannelsOf
<1>6. ChannelsKept'
  BY <1>1, <1>4, <1>5, ChannelsMove
<1> QED
  BY <1>3, <1>6

LEMMA ChannelsStay ==
  ASSUME ChannelsKept, UNCHANGED <<work, relay, client>>
  PROVE  ChannelsKept'
  BY DEF ChannelsKept, ChannelsOf

LEMMA ClientsStay == ASSUME ClientsTyped, UNCHANGED client PROVE ClientsTyped'
  BY DEF ClientsTyped

\* The tries are counted before they are made.
LEMMA TriesStep ==
  ASSUME TriesCounted, [TurnNext]_turnVars
  PROVE  TriesCounted'
<1>0. faults \in 0..MaxSaveFaults /\ edits \in 0..MaxEdits /\ MaxSaveFaults \in Nat /\ MaxEdits \in Nat
  BY TurnBounds DEF TriesCounted
<1>1. CASE UNCHANGED <<faults, edits>>
  BY <1>0, <1>1 DEF TriesCounted
<1>2. CASE AnotherEdit /\ UNCHANGED faults
  BY <1>0, <1>2 DEF AnotherEdit, TriesCounted
<1>3. CASE faults < MaxSaveFaults /\ faults' = faults + 1 /\ UNCHANGED edits
  BY <1>0, <1>3 DEF TriesCounted
<1>4. CASE UNCHANGED turnVars
  BY <1>1, <1>4 DEF turnVars
<1>5. ASSUME NEW t \in Turns,
             \/ TaskStep(t) \/ RelayReceives(t) \/ SaveSession(t) \/ PassOn(t) \/ ForwardCancel(t)
             \/ JoinTask(t) \/ ClientReceives(t) \/ CancelTurn(t) \/ DropTurn(t)
             \/ \E c \in Conversations : StartTurn(t, c)
      PROVE  UNCHANGED <<faults, edits>>
  BY <1>5 DEF TaskStep, AppendToLog, PutAccepted, SendToRelay, RelayReceives, SaveSession, PassOn,
              ForwardCancel, JoinTask, ClientReceives, CancelTurn, DropTurn, StartTurn
<1>6. ASSUME NEW t \in Turns, SaveFails(t) PROVE TriesCounted'
  BY <1>3, <1>6 DEF SaveFails
<1>7. ASSUME NEW c \in Conversations, RenameConversation(c) \/ DeleteConversation(c) PROVE TriesCounted'
  BY <1>2, <1>7 DEF RenameConversation, DeleteConversation
<1>8. ASSUME NEW c \in Conversations, ServeBranch(c) PROVE TriesCounted'
  BY <1>1, <1>8 DEF ServeBranch
<1>9. ASSUME NEW c \in Conversations, NEW i, AskBranch(c, i) PROVE TriesCounted'
  BY <1>2, <1>9 DEF AskBranch
<1> QED
  BY <1>1, <1>4, <1>5, <1>6, <1>7, <1>8, <1>9 DEF TurnNext, RelayStep

LEMMA ChannelsStep ==
  ASSUME TurnInv, ChannelsKept, ClientsTyped, [TurnNext]_turnVars
  PROVE  ChannelsKept' /\ ClientsTyped'
<1>1. ASSUME UNCHANGED <<work, relay, client>> PROVE ChannelsKept' /\ ClientsTyped'
  BY <1>1, ChannelsStay, ClientsStay
<1>2. CASE UNCHANGED turnVars
  BY <1>1, <1>2 DEF turnVars
<1>3. ASSUME NEW t \in Turns, TaskStep(t) \/ ForwardCancel(t) PROVE ChannelsKept' /\ ClientsTyped'
  BY <1>3, TaskChannels, ClientsStay
<1>4. ASSUME NEW t \in Turns,
             \/ RelayReceives(t) \/ SaveSession(t) \/ SaveFails(t) \/ PassOn(t) \/ JoinTask(t)
             \/ \E c \in Conversations : StartTurn(t, c)
      PROVE  ChannelsKept' /\ ClientsTyped'
  <2>1. UNCHANGED client
    BY <1>4 DEF RelayReceives, SaveSession, SaveFails, PassOn, JoinTask, StartTurn
  <2> QED
    BY <1>4, <2>1, RelayChannels, ClientsStay
<1>5. ASSUME NEW t \in Turns, ClientReceives(t) \/ CancelTurn(t) \/ DropTurn(t)
      PROVE  ChannelsKept' /\ ClientsTyped'
  BY <1>5, ClientChannels
<1>6. ASSUME NEW c \in Conversations, RenameConversation(c) \/ DeleteConversation(c) \/ ServeBranch(c)
      PROVE  ChannelsKept' /\ ClientsTyped'
  BY <1>1, <1>6 DEF RenameConversation, DeleteConversation, ServeBranch
<1>7. ASSUME NEW c \in Conversations, NEW i, AskBranch(c, i) PROVE ChannelsKept' /\ ClientsTyped'
  BY <1>1, <1>7 DEF AskBranch
<1> QED
  BY <1>2, <1>3, <1>4, <1>5, <1>6, <1>7 DEF TurnNext, RelayStep

LEMMA InitTurnTypeInv == TurnInit => TurnTypeInv
<1> SUFFICES ASSUME TurnInit PROVE TurnTypeInv
  OBVIOUS
<1>1. ChannelsKept
  BY TurnBounds DEF TurnInit, ChannelsKept, ChannelsOf
<1>2. ClientsTyped
  BY DEF TurnInit, ClientsTyped
<1>3. TriesCounted
  BY TurnBounds DEF TurnInit, TriesCounted
<1> QED
  BY <1>1, <1>2, <1>3, InitTurnInv DEF TurnTypeInv

LEMMA NextTurnTypeInv == TurnTypeInv /\ [TurnNext]_turnVars => TurnTypeInv'
  BY TurnStep, ChannelsStep, TriesStep DEF TurnTypeInv

LEMMA TurnTyped == TurnTypeInv => TurnTypeOK
<1> SUFFICES ASSUME TurnTypeInv PROVE TurnTypeOK
  OBVIOUS
<1>1. TurnInv /\ TurnShaped /\ ChannelsKept /\ ClientsTyped /\ TriesCounted /\ LogFollowed
  BY DEF TurnTypeInv, TurnInv
<1>2. ASSUME NEW t \in Turns
      PROVE  /\ work[t].state \in {"absent", "running", "aborting", "ended"}
             /\ work[t].stage \in {"none", "checkpoint", "send"}
             /\ relay[t].pc \in Saving \cup {"idle", "select", "send", "done", "failed"}
             /\ client[t].seen <= relay[t].passed /\ relay[t].passed <= relay[t].got
             /\ relay[t].got <= work[t].sent /\ work[t].sent <= work[t].accepted
             /\ work[t].accepted <= Len(log[t])
             /\ work[t].sent - relay[t].got <= ChannelCapacity
             /\ relay[t].passed - client[t].seen <= ChannelCapacity
  <2>1. work[t] \in TaskWork /\ relay[t] \in TurnRelay
    BY <1>1 DEF TurnShaped
  <2> QED
    BY <1>1, <2>1 DEF TaskWork, TurnRelay, RelayPc, Saving, ChannelsKept, ChannelsOf, LogFollowed
<1> QED
  BY <1>1, <1>2 DEF TurnTypeOK, TurnShaped, TriesCounted

\* Between a task, its relay and its client each event is passed on in order, and
\* neither channel holds more than its capacity (start_session_turn).
THEOREM TurnTypeCorrect == TurnSpec => []TurnTypeOK
  BY InitTurnTypeInv, NextTurnTypeInv, TurnTyped, PTL DEF TurnSpec

-----------------------------------------------------------------------------
\* The worker.

Steps == {"unread", "dispatch", "stored", "decided", "writing", "answered", "dropped"}

RequestStates ==
  [step : Steps, cid : CancelIds \cup {NoId}, cancelled : BOOLEAN, shared : BOOLEAN,
   outcome : {"none", "served", "cancelled", "deadline_exceeded"}]

WorkerTypes ==
  /\ loop \in [state : {"reading", "permit", "stopped"}, at : 0..MaxFrames,
               cid : CancelIds \cup {NoId}]
  /\ active \in [CancelIds -> 0..MaxFrames]
  /\ request \in [Positions -> RequestStates]
  /\ jobs \in Seq(Positions)

\* Frames not read yet, and the one that waits for a permit, have no request.
Ahead ==
  \A n \in Positions :
    n > loop.at \/ (loop.state = "permit" /\ n = loop.at) => request[n].step = "unread"

\* The two halves of TokensAreLive, and what the second rests on.
EntriesLive ==
  \A c \in CancelIds : active[c] # NoToken =>
    /\ request[active[c]].step \in {"dispatch", "stored", "decided"}
    /\ request[active[c]].cid = c
    /\ ~request[active[c]].cancelled

BeingServed(n) ==
  request[n].step \in {"dispatch", "stored"} /\ request[n].cid # NoId /\ ~request[n].shared

ServedReachable ==
  \A n \in Positions : BeingServed(n) => active[request[n].cid] = n \/ request[n].cancelled

Exclusive ==
  \A m, n \in Positions :
    /\ m # n /\ BeingServed(m) /\ ~request[m].cancelled
    /\ request[n].step \in {"dispatch", "stored", "decided"}
    => request[n].cid # request[m].cid

TokensInv ==
  /\ WorkerTypes
  /\ loop.state # "stopped" => Ahead /\ EntriesLive /\ ServedReachable /\ Exclusive

-----------------------------------------------------------------------------
\* Changing one field of a request keeps its type.
LEMMA RequestStep ==
  ASSUME NEW r \in RequestStates, NEW s \in Steps
  PROVE  [r EXCEPT !.step = s] \in RequestStates
BY DEF RequestStates

LEMMA RequestOutcome ==
  ASSUME NEW r \in RequestStates, NEW o \in {"none", "served", "cancelled", "deadline_exceeded"}
  PROVE  [r EXCEPT !.outcome = o] \in RequestStates
BY DEF RequestStates

LEMMA RequestCancelled ==
  ASSUME NEW r \in RequestStates
  PROVE  [r EXCEPT !.cancelled = TRUE] \in RequestStates
BY DEF RequestStates

LEMMA InitTokensInv == WorkerInit => TokensInv
<1> SUFFICES ASSUME WorkerInit PROVE TokensInv
  OBVIOUS
<1> USE WorkerAssumption DEF WorkerInit, NoToken, NoId, Unread, Positions, Steps
<1>1. WorkerTypes
  BY DEF WorkerTypes, RequestStates
<1>2. Ahead /\ EntriesLive /\ ServedReachable /\ Exclusive
  BY DEF Ahead, EntriesLive, ServedReachable, Exclusive, BeingServed
<1> QED
  BY <1>1, <1>2 DEF TokensInv

\* Reading a frame without starting a request moves the loop only.
LEMMA ReadingTokensInv ==
  ASSUME TokensInv, ReadsNext, loop'.at = loop.at + 1, loop' \in [state : {"reading", "permit"},
           at : {loop.at + 1}, cid : CancelIds \cup {NoId}],
         UNCHANGED <<active, request, jobs>>
  PROVE  TokensInv'
<1> USE WorkerAssumption DEF TokensInv, WorkerTypes, ReadsNext, Positions
<1>1. WorkerTypes'
  OBVIOUS
<1>2. Ahead'
  BY DEF Ahead
<1>3. (EntriesLive /\ ServedReachable /\ Exclusive)'
  BY DEF EntriesLive, ServedReachable, Exclusive, BeingServed
<1> QED
  BY <1>1, <1>2, <1>3

LEMMA RefuseTokensInv ==
  ASSUME TokensInv, NEW id, RefuseFrame(id)
  PROVE  TokensInv'
<1>1. loop' \in [state : {"reading", "permit"}, at : {loop.at + 1}, cid : CancelIds \cup {NoId}]
  BY DEF RefuseFrame, Reads
<1> QED
  BY <1>1, ReadingTokensInv DEF RefuseFrame, Unchanged

LEMMA ReadTokensInv ==
  ASSUME TokensInv, NEW id, NEW c \in CancelIds \cup {NoId}, ReadRequest(id, c)
  PROVE  TokensInv'
<1>1. loop' \in [state : {"reading", "permit"}, at : {loop.at + 1}, cid : CancelIds \cup {NoId}]
  BY DEF ReadRequest, Reads
<1> QED
  BY <1>1, ReadingTokensInv DEF ReadRequest, Unchanged

LEMMA ShutdownTokensInv ==
  ASSUME TokensInv, NEW id, Shutdown(id)
  PROVE  TokensInv'
<1>1. /\ loop' = [state |-> "stopped", at |-> loop.at + 1, cid |-> NoId]
      /\ loop.at < MaxFrames /\ UNCHANGED <<active, jobs>>
      /\ request' = [n \in Positions |->
           IF request[n].step \in {"unread", "answered"} THEN request[n]
           ELSE [request[n] EXCEPT !.step = "dropped"]]
  BY DEF Shutdown, Reads, ReadsNext, Unchanged
<1>2. ASSUME NEW n \in Positions
      PROVE  (IF request[n].step \in {"unread", "answered"} THEN request[n]
              ELSE [request[n] EXCEPT !.step = "dropped"]) \in RequestStates
  <2>1. request[n] \in RequestStates /\ "dropped" \in Steps
    BY DEF TokensInv, WorkerTypes, Steps
  <2> QED
    BY <2>1, RequestStep
<1>3. request' \in [Positions -> RequestStates]
  BY <1>1, <1>2, Zenon
<1>4. loop' \in [state : {"reading", "permit", "stopped"}, at : 0..MaxFrames,
                cid : CancelIds \cup {NoId}]
  BY <1>1, WorkerAssumption DEF TokensInv, WorkerTypes
<1> QED
  BY <1>1, <1>3, <1>4 DEF TokensInv, WorkerTypes

\* system.cancel: the entry and its request are those of this identity.
LEMMA CancelTokensInv ==
  ASSUME TokensInv, NEW id, NEW c \in CancelIds, CancelRequest(id, c)
  PROVE  TokensInv'
<1> USE WorkerAssumption DEF TokensInv, WorkerTypes, CancelRequest, Reads, ReadsNext, Unchanged,
         Positions, NoToken, Cancelled
<1>0. loop.state # "stopped" /\ loop'.state = "reading" /\ loop'.at = loop.at + 1
  OBVIOUS
<1>1. WorkerTypes'
  <2>1. ASSUME NEW n \in Positions
        PROVE  (IF n = active[c] THEN [request[n] EXCEPT !.cancelled = TRUE] ELSE request[n])
                 \in RequestStates
    <3>1. request[n] \in RequestStates
      BY DEF RequestStates
    <3> QED
      BY <3>1, RequestCancelled
  <2>2. request' = Cancelled(c)
    BY Zenon DEF CancelRequest
  <2>3. request' \in [Positions -> RequestStates]
    BY <2>1, <2>2, Zenon DEF Cancelled
  <2>4. loop' \in [state : {"reading", "permit", "stopped"}, at : 0..MaxFrames,
                  cid : CancelIds \cup {NoId}]
    OBVIOUS
  <2>5. active' \in [CancelIds -> 0..MaxFrames] /\ jobs' \in Seq(Positions)
    OBVIOUS
  <2> QED
    BY <2>3, <2>4, <2>5
<1>2. \A n \in Positions :
        /\ request'[n].step = request[n].step /\ request'[n].cid = request[n].cid
        /\ request'[n].shared = request[n].shared
        /\ n # active[c] => request'[n].cancelled = request[n].cancelled
        /\ n = active[c] => request'[n].cancelled = TRUE
  BY DEF RequestStates
<1>3. Ahead'
  BY <1>0, <1>2 DEF Ahead
<1>4. EntriesLive'
  <2> SUFFICES ASSUME NEW d \in CancelIds, active'[d] # NoToken
               PROVE  /\ request'[active'[d]].step \in {"dispatch", "stored", "decided"}
                      /\ request'[active'[d]].cid = d
                      /\ ~request'[active'[d]].cancelled
    BY DEF EntriesLive
  <2>1. d # c /\ active'[d] = active[d] /\ active[d] \in Positions
    OBVIOUS
  <2>2. active[d] # active[c]
    <3>1. request[active[d]].cid = d
      BY <2>1, <1>0 DEF EntriesLive
    <3>2. active[c] # NoToken => request[active[c]].cid = c
      BY <1>0 DEF EntriesLive
    <3> QED
      BY <2>1, <3>1, <3>2
  <2> QED
    BY <2>1, <2>2, <1>0, <1>2 DEF EntriesLive
<1>5. ServedReachable'
  BY <1>0, <1>2 DEF ServedReachable, BeingServed
<1>6. Exclusive'
  BY <1>0, <1>2 DEF Exclusive, BeingServed
<1> QED
  BY <1>1, <1>3, <1>4, <1>5, <1>6

\* A task is spawned: no entry names it, and it is unshared only if it is alone.
LEMMA SpawnTokensInv ==
  ASSUME TokensInv, Spawn
  PROVE  TokensInv'
<1> DEFINE n == loop.at
           c == loop.cid
<1> USE WorkerAssumption DEF TokensInv, WorkerTypes, Positions, NoToken
<1>1. /\ loop.state = "permit" /\ loop'.state = "reading" /\ loop'.at = n /\ n \in 0..MaxFrames
      /\ Ahead /\ EntriesLive /\ ServedReachable /\ Exclusive
      /\ UNCHANGED jobs
      /\ loop' \in [state : {"reading", "permit", "stopped"}, at : 0..MaxFrames,
                    cid : CancelIds \cup {NoId}]
  BY DEF Spawn, Unchanged
<1>2. CASE c # NoId /\ active[c] # NoToken
  <2>1. UNCHANGED <<active, request>>
    BY <1>2 DEF Spawn
  <2> QED
    BY <1>1, <2>1 DEF Ahead, EntriesLive, ServedReachable, Exclusive, BeingServed
<1>3. CASE ~(c # NoId /\ active[c] # NoToken)
  <2>1. /\ request' = [request EXCEPT ![n] =
               [Unread EXCEPT !.step = "dispatch", !.cid = c,
                              !.shared = c # NoId /\ Overlaps(c)]]
        /\ active' = IF c = NoId THEN active ELSE [active EXCEPT ![c] = n]
    BY <1>3 DEF Spawn
  <2>2. /\ \A m \in Positions : m # n => request'[m] = request[m]
        /\ n \in Positions =>
             /\ request'[n].step = "dispatch" /\ request'[n].cid = c
             /\ request'[n].cancelled = FALSE /\ request[n].step = "unread"
    BY <2>1, <1>1 DEF Ahead, Unread, RequestStates
  <2>9. n \in Positions => (request'[n].shared <=> c # NoId /\ Overlaps(c))
    BY <2>1 DEF Unread, RequestStates
  <2>3. WorkerTypes'
    BY <2>1, <1>1 DEF Unread, Steps, RequestStates
  <2>4. Ahead'
    BY <2>2, <1>1 DEF Ahead
  <2>5. EntriesLive'
    BY <2>1, <2>2, <1>1 DEF EntriesLive
  <2>6. ServedReachable'
    BY <2>1, <2>2, <1>1, <1>3 DEF ServedReachable, BeingServed
  <2>7. ASSUME NEW k \in Positions, NEW m \in Positions, k # m, BeingServed(k)',
               ~request'[k].cancelled, request'[m].step \in {"dispatch", "stored", "decided"}
        PROVE  request'[m].cid # request'[k].cid
    <3>1. CASE k = n
      <4>1. ~Overlaps(c) /\ c # NoId /\ request'[k].cid = c
        BY <3>1, <2>2, <2>7, <2>9 DEF BeingServed
      <4>2. request[m].step \in {"dispatch", "stored", "decided"} /\ request'[m].cid = request[m].cid
        BY <3>1, <2>2, <2>7
      <4> QED
        BY <4>1, <4>2 DEF Overlaps, Held
    <3>2. CASE m = n
      BY <3>2, <2>2, <2>7, <1>1, <1>3 DEF BeingServed, ServedReachable
    <3>3. CASE k # n /\ m # n
      BY <3>3, <2>2, <2>7, <1>1 DEF BeingServed, Exclusive
    <3> QED
      BY <3>1, <3>2, <3>3
  <2>8. Exclusive'
    BY <2>7 DEF Exclusive
  <2> QED
    BY <2>3, <2>4, <2>5, <2>6, <2>8
<1> QED
  BY <1>2, <1>3

\* A request that goes on to "stored" or "decided" keeps identity and token.
LEMMA AdvanceTokensInv ==
  ASSUME TokensInv, NEW n, UNCHANGED <<loop, active>>, jobs' \in Seq(Positions),
         n \in Positions => request[n].step \in {"dispatch", "stored"},
         \E s \in {"stored", "decided"} :
         \E o \in {"none", "served", "cancelled", "deadline_exceeded"} :
           request' = [request EXCEPT ![n].step = s, ![n].outcome = o]
  PROVE  TokensInv'
<1> USE DEF TokensInv, WorkerTypes, NoToken
<1>1. WorkerTypes'
  <2>1. PICK s \in {"stored", "decided"}, o \in {"none", "served", "cancelled", "deadline_exceeded"} :
          request' = [request EXCEPT ![n].step = s, ![n].outcome = o]
    OBVIOUS
  <2>2. CASE n \in Positions
    <3>1. request[n] \in RequestStates /\ s \in Steps
      BY <2>2 DEF Steps
    <3>2. [request[n] EXCEPT !.step = s, !.outcome = o] \in RequestStates
      BY <3>1 DEF RequestStates
    <3>3. request' = [request EXCEPT ![n] = [request[n] EXCEPT !.step = s, !.outcome = o]]
      BY <2>1, <2>2
    <3> QED
      BY <3>2, <3>3
  <2>3. CASE n \notin Positions
    <3>1. request' = request
      BY <2>1, <2>3
    <3> QED
      BY <3>1
  <2> QED
    BY <2>2, <2>3
<1> USE DEF RequestStates, Positions
<1>2. \A m \in Positions :
        /\ request'[m].cid = request[m].cid /\ request'[m].shared = request[m].shared
        /\ request'[m].cancelled = request[m].cancelled
        /\ m # n => request'[m].step = request[m].step
        /\ m = n => /\ request[m].step \in {"dispatch", "stored"}
                    /\ request'[m].step \in {"stored", "decided"}
  OBVIOUS
<1>3. loop.state # "stopped" => Ahead'
  BY <1>2 DEF Ahead
<1>4. loop.state # "stopped" => EntriesLive'
  BY <1>2 DEF EntriesLive
<1>5. loop.state # "stopped" => ServedReachable'
  BY <1>2 DEF ServedReachable, BeingServed
<1>6. loop.state # "stopped" => Exclusive'
  BY <1>2 DEF Exclusive, BeingServed
<1> QED
  BY <1>1, <1>3, <1>4, <1>5, <1>6

LEMMA DispatchTokensInv ==
  ASSUME TokensInv, NEW n \in Positions, Dispatch(n) \/ Interrupt(n)
  PROVE  TokensInv'
<1>1. jobs' \in Seq(Positions)
  <2>1. jobs' = jobs \/ jobs' = Append(jobs, n)
    BY DEF Dispatch, Interrupt
  <2>2. jobs \in Seq(Positions)
    BY DEF TokensInv, WorkerTypes
  <2>3. Append(jobs, n) \in Seq(Positions)
    BY <2>2
  <2> QED
    BY <2>1, <2>2, <2>3
<1>2. /\ UNCHANGED <<loop, active>>
      /\ request[n].step \in {"dispatch", "stored"}
  BY DEF Dispatch, Interrupt
<1>3. \E s \in {"stored", "decided"} :
      \E o \in {"none", "served", "cancelled", "deadline_exceeded"} :
        request' = [request EXCEPT ![n].step = s, ![n].outcome = o]
  <2>1. CASE request' = [request EXCEPT ![n].step = "stored"]
    <3>1. request[n].outcome \in {"none", "served", "cancelled", "deadline_exceeded"}
      BY DEF TokensInv, WorkerTypes, RequestStates
    <3>2. request' = [request EXCEPT ![n].step = "stored", ![n].outcome = request[n].outcome]
      BY <2>1 DEF TokensInv, WorkerTypes
    <3> QED
      BY <3>1, <3>2
  <2>2. CASE \E o \in {"served", "cancelled", "deadline_exceeded"} : Decides(n, o)
    BY <2>2 DEF Decides
  <2> QED
    BY <2>1, <2>2 DEF Dispatch, Interrupt
<1> QED
  BY <1>1, <1>2, <1>3, AdvanceTokensInv

LEMMA ExecuteTokensInv ==
  ASSUME TokensInv, ExecuteJob
  PROVE  TokensInv'
<1> DEFINE n == Head(jobs)
<1>1. jobs' \in Seq(Positions) /\ n \in Positions /\ UNCHANGED <<loop, active>>
  BY DEF TokensInv, WorkerTypes, ExecuteJob
<1>2. CASE request[n].step = "stored"
  <2>1. request' = [request EXCEPT ![n].step = "decided", ![n].outcome = "served"]
    BY <1>2 DEF ExecuteJob, Wakes
  <2> QED
    BY <1>1, <1>2, <2>1, AdvanceTokensInv
<1>3. CASE request[n].step # "stored"
  <2>1. UNCHANGED request
    BY <1>3 DEF ExecuteJob, Wakes
  <2> QED
    BY <1>1, <2>1
    DEF TokensInv, WorkerTypes, Ahead, EntriesLive, ServedReachable, Exclusive, BeingServed
<1> QED
  BY <1>2, <1>3

\* A decided task removes the entry of its identity: nobody unshared has it.
LEMMA ForgetTokensInv ==
  ASSUME TokensInv, NEW n \in Positions, ForgetToken(n)
  PROVE  TokensInv'
<1> USE DEF TokensInv, WorkerTypes, NoToken, Positions
<1>1. /\ UNCHANGED <<loop, jobs>> /\ request[n].step = "decided"
      /\ request' = [request EXCEPT ![n].step = "writing"]
      /\ active' = IF request[n].cid = NoId THEN active
                   ELSE [active EXCEPT ![request[n].cid] = 0]
  BY DEF ForgetToken, Forgets
<1>2. WorkerTypes'
  <2>1. [request[n] EXCEPT !.step = "writing"] \in RequestStates
    BY RequestStep DEF Steps
  <2>2. request' = [request EXCEPT ![n] = [request[n] EXCEPT !.step = "writing"]]
    BY <1>1
  <2>3. active' \in [CancelIds -> 0..MaxFrames]
    <3>1. 0 \in 0..MaxFrames
      BY WorkerAssumption
    <3>2. CASE request[n].cid = NoId
      BY <1>1, <3>2
    <3>3. CASE request[n].cid # NoId
      BY <1>1, <3>1, <3>3
    <3> QED
      BY <3>2, <3>3
  <2> QED
    BY <2>1, <2>2, <2>3, <1>1
<1>3. \A m \in Positions :
        /\ request'[m].cid = request[m].cid /\ request'[m].shared = request[m].shared
        /\ request'[m].cancelled = request[m].cancelled
        /\ m # n => request'[m].step = request[m].step
        /\ m = n => request'[m].step = "writing"
  BY <1>1 DEF RequestStates
<1>4. loop.state # "stopped" => Ahead'
  BY <1>1, <1>3 DEF Ahead
<1>5. loop.state # "stopped" => EntriesLive'
  <2> SUFFICES ASSUME loop.state # "stopped", NEW d \in CancelIds, active'[d] # NoToken
               PROVE  /\ request'[active'[d]].step \in {"dispatch", "stored", "decided"}
                      /\ request'[active'[d]].cid = d
                      /\ ~request'[active'[d]].cancelled
    BY <1>1 DEF EntriesLive
  <2>1. active'[d] = active[d] /\ d # request[n].cid /\ active[d] \in Positions
    BY <1>1, WorkerAssumption DEF RequestStates
  <2>2. active[d] # n
    BY <2>1 DEF EntriesLive
  <2> QED
    BY <2>1, <2>2, <1>3 DEF EntriesLive
<1>6. ASSUME loop.state # "stopped", NEW m \in Positions, BeingServed(m)'
      PROVE  active'[request'[m].cid] = m \/ request'[m].cancelled
  <2>1. m # n /\ BeingServed(m)
    BY <1>3, <1>6 DEF BeingServed
  <2>2. request[m].cancelled \/ request[n].cid # request[m].cid
    BY <2>1, <1>1, <1>6 DEF Exclusive
  <2> QED
    BY <2>1, <2>2, <1>1, <1>3, <1>6 DEF ServedReachable, BeingServed
<1>7. loop.state # "stopped" => ServedReachable'
  BY <1>6 DEF ServedReachable
<1>8. loop.state # "stopped" => Exclusive'
  BY <1>1, <1>3 DEF Exclusive, BeingServed
<1> QED
  BY <1>1, <1>2, <1>4, <1>5, <1>7, <1>8

LEMMA WriteTokensInv ==
  ASSUME TokensInv, NEW n \in Positions, WriteAnswer(n)
  PROVE  TokensInv'
<1> USE DEF TokensInv, WorkerTypes, NoToken, Positions
<1>1. /\ UNCHANGED <<loop, jobs, active>> /\ request[n].step = "writing"
      /\ request' = [request EXCEPT ![n].step = "answered"]
  BY DEF WriteAnswer
<1>2. WorkerTypes'
  <2>1. [request[n] EXCEPT !.step = "answered"] \in RequestStates
    BY RequestStep DEF Steps
  <2>2. request' = [request EXCEPT ![n] = [request[n] EXCEPT !.step = "answered"]]
    BY <1>1
  <2> QED
    BY <2>1, <2>2, <1>1
<1>3. \A m \in Positions :
        /\ request'[m].cid = request[m].cid /\ request'[m].shared = request[m].shared
        /\ request'[m].cancelled = request[m].cancelled
        /\ m # n => request'[m].step = request[m].step
        /\ m = n => request'[m].step = "answered"
  BY <1>1 DEF RequestStates
<1> QED
  BY <1>1, <1>2, <1>3 DEF Ahead, EntriesLive, ServedReachable, Exclusive, BeingServed

LEMMA NextTokensInv ==
  ASSUME TokensInv, [WorkerNext]_workerVars
  PROVE  TokensInv'
<1>1. CASE UNCHANGED workerVars
  BY <1>1 DEF workerVars, TokensInv, WorkerTypes, Ahead, EntriesLive, ServedReachable,
              Exclusive, BeingServed
<1>2. CASE \E id \in RequestIds \cup {Empty} : RefuseFrame(id)
  BY <1>2, RefuseTokensInv
<1>3. ASSUME NEW id \in RequestIds,
             \/ Shutdown(id)
             \/ \E c \in CancelIds : CancelRequest(id, c)
             \/ \E c \in CancelIds \cup {NoId} : ReadRequest(id, c)
      PROVE  TokensInv'
  BY <1>3, ShutdownTokensInv, CancelTokensInv, ReadTokensInv
<1>4. CASE Spawn
  BY <1>4, SpawnTokensInv
<1>5. ASSUME NEW n \in Positions, ServeTask(n) \/ Interrupt(n)
      PROVE  TokensInv'
  BY <1>5, DispatchTokensInv, ForgetTokensInv, WriteTokensInv DEF ServeTask
<1>6. CASE ExecuteJob
  BY <1>6, ExecuteTokensInv
<1> QED
  BY <1>1, <1>2, <1>3, <1>4, <1>5, <1>6 DEF WorkerNext

\* The table of cancellation tokens names requests being served, and every one
\* of them that did not share its identity can be cancelled, whatever the order
\* of reads, cancellations, deadlines and ends.
THEOREM WorkerTokensAreLive == WorkerSpec => []TokensAreLive
<1>1. TokensInv => TokensAreLive
  BY DEF TokensInv, TokensAreLive, EntriesLive, ServedReachable, BeingServed
<1> QED
  BY InitTokensInv, NextTokensInv, <1>1, PTL DEF WorkerSpec

-----------------------------------------------------------------------------
\* The ReplayWindow, and the permits.
Distinct(s) == \A i, j \in 1..Len(s) : s[i] = s[j] => i = j

WindowKept ==
  /\ order \in Seq(Positions) /\ Len(order) <= Window /\ Distinct(order)
  /\ observed = ToSet(order)

ExecutedTyped == executed \subseteq Positions

WorkerInv == TokensInv /\ WindowKept /\ ExecutedTyped /\ PermitsRespected

\* A sequence without repetitions is as long as the set of what is in it.
LEMMA DistinctCounted ==
  ASSUME NEW S, NEW s \in Seq(S), Distinct(s)
  PROVE  Cardinality(ToSet(s)) = Len(s)
<1> DEFINE n == Len(s)
<1>1. n \in Nat /\ DOMAIN s = 1..n /\ s \in [1..n -> S]
  OBVIOUS
<1>2. ToSet(s) = {s[i] : i \in 1..n}
  BY <1>1 DEF ToSet
<1>3. s \in Bijection(1..n, ToSet(s))
  <2>1. s \in [1..n -> ToSet(s)]
    BY <1>1, <1>2
  <2>2. \A i, j \in 1..n : s[i] = s[j] => i = j
    BY DEF Distinct
  <2>3. \A x \in ToSet(s) : \E i \in 1..n : s[i] = x
    BY <1>2
  <2> QED
    BY <1>1, <2>1, <2>2, <2>3 DEF Bijection, Injection, Surjection, IsInjective
<1>4. ExistsBijection(1..n, ToSet(s))
  BY <1>3 DEF ExistsBijection
<1> QED
  BY <1>1, <1>4, FS_CountingElements

\* Joining one that is not there, and leaving from the front.
LEMMA JoinDistinct ==
  ASSUME NEW S, NEW s \in Seq(S), NEW x \in S, Distinct(s), x \notin ToSet(s)
  PROVE  /\ Append(s, x) \in Seq(S) /\ Len(Append(s, x)) = Len(s) + 1
         /\ Distinct(Append(s, x)) /\ ToSet(Append(s, x)) = ToSet(s) \cup {x}
<1> DEFINE t == Append(s, x)
<1>1. /\ t \in Seq(S) /\ Len(t) = Len(s) + 1 /\ Len(s) \in Nat
      /\ DOMAIN t = 1..(Len(s) + 1) /\ DOMAIN s = 1..Len(s)
  BY AppendProperties
<1>2. (\A i \in 1..Len(s) : t[i] = s[i]) /\ t[Len(s) + 1] = x
  BY AppendProperties
<1> HIDE DEF t
<1>3. \A i \in 1..Len(s) : s[i] # x
  BY <1>1 DEF ToSet
<1>4. Distinct(t)
  <2> SUFFICES ASSUME NEW i \in 1..Len(t), NEW j \in 1..Len(t), t[i] = t[j] PROVE i = j
    BY DEF Distinct
  <2>1. CASE i \in 1..Len(s) /\ j \in 1..Len(s)
    BY <1>2, <2>1 DEF Distinct
  <2>2. CASE i = Len(s) + 1 /\ j = Len(s) + 1
    BY <2>2
  <2>3. CASE i \in 1..Len(s) /\ j = Len(s) + 1
    BY <1>2, <1>3, <2>3
  <2>4. CASE i = Len(s) + 1 /\ j \in 1..Len(s)
    BY <1>2, <1>3, <2>4
  <2> QED
    BY <1>1, <2>1, <2>2, <2>3, <2>4
<1>5. ToSet(t) = ToSet(s) \cup {x}
  <2>1. ToSet(t) = {t[i] : i \in 1..(Len(s) + 1)} /\ ToSet(s) = {s[i] : i \in 1..Len(s)}
    BY <1>1 DEF ToSet
  <2>2. 1..(Len(s) + 1) = 1..Len(s) \cup {Len(s) + 1}
    BY <1>1
  <2> QED
    BY <1>2, <2>1, <2>2
<1> QED
  BY <1>1, <1>4, <1>5 DEF t

LEMMA LeaveDistinct ==
  ASSUME NEW S, NEW s \in Seq(S), Distinct(s), s # <<>>
  PROVE  /\ Tail(s) \in Seq(S) /\ Len(Tail(s)) = Len(s) - 1
         /\ Distinct(Tail(s)) /\ ToSet(Tail(s)) = ToSet(s) \ {Head(s)}
<1> DEFINE t == Tail(s)
<1>1. /\ t \in Seq(S) /\ Len(t) = Len(s) - 1 /\ Len(s) \in Nat /\ Len(s) > 0
      /\ DOMAIN t = 1..(Len(s) - 1) /\ DOMAIN s = 1..Len(s)
      /\ Head(s) = s[1]
  BY HeadTailProperties, EmptySeq
<1>2. \A i \in 1..(Len(s) - 1) : t[i] = s[i + 1]
  BY <1>1, HeadTailProperties
<1> HIDE DEF t
<1>3. Distinct(t)
  <2> SUFFICES ASSUME NEW i \in 1..Len(t), NEW j \in 1..Len(t), t[i] = t[j] PROVE i = j
    BY DEF Distinct
  <2>1. i \in Int /\ j \in Int /\ i + 1 \in 1..Len(s) /\ j + 1 \in 1..Len(s)
    BY <1>1
  <2>2. s[i + 1] = s[j + 1]
    BY <1>1, <1>2
  <2>3. i + 1 = j + 1
    BY <2>1, <2>2 DEF Distinct
  <2> QED
    BY <2>1, <2>3
<1>4. ToSet(t) = ToSet(s) \ {Head(s)}
  <2>1. ToSet(t) = {t[i] : i \in 1..(Len(s) - 1)} /\ ToSet(s) = {s[i] : i \in 1..Len(s)}
    BY <1>1 DEF ToSet
  <2>2. ASSUME NEW i \in 1..(Len(s) - 1)
        PROVE  t[i] = s[i + 1] /\ i + 1 \in 1..Len(s) /\ s[i + 1] # s[1]
    <3>1. i + 1 \in 1..Len(s) /\ 1 \in 1..Len(s) /\ i + 1 # 1
      BY <1>1
    <3> QED
      BY <1>2, <3>1 DEF Distinct
  <2>3. ToSet(t) \subseteq ToSet(s) \ {Head(s)}
    BY <1>1, <2>1, <2>2
  <2>4. ASSUME NEW x \in ToSet(s), x # Head(s) PROVE x \in ToSet(t)
    <3>1. PICK i \in 1..Len(s) : s[i] = x
      BY <2>1
    <3>2. i - 1 \in 1..(Len(s) - 1) /\ (i - 1) + 1 = i
      BY <1>1, <2>4, <3>1
    <3>3. t[i - 1] = x
      BY <1>2, <3>1, <3>2
    <3> QED
      BY <2>1, <3>2, <3>3
  <2> QED
    BY <2>3, <2>4
<1> QED
  BY <1>1, <1>3, <1>4 DEF t

\* A new identity is remembered, and the oldest forgotten, in both.
LEMMA RememberKeepsWindow ==
  ASSUME WindowKept, NEW id \in Positions, id \notin observed, Remember(id)
  PROVE  WindowKept'
<1> DEFINE t == Append(order, id)
<1>1. order \in Seq(Positions) /\ Len(order) \in Nat /\ Len(order) <= Window /\ Window \in Nat \ {0}
  BY WorkerAssumption DEF WindowKept
<1>2. t \in Seq(Positions) /\ Len(t) = Len(order) + 1 /\ Distinct(t) /\ ToSet(t) = observed \cup {id}
  BY JoinDistinct DEF WindowKept
<1>3. /\ order' = IF Len(t) > Window THEN Tail(t) ELSE t
      /\ observed' = (observed \cup {id}) \ IF Len(t) > Window THEN {Head(t)} ELSE {}
  BY DEF Remember
<1> HIDE DEF t
<1>4. CASE Len(t) > Window
  <2>1. t # <<>>
    BY <1>1, <1>2
  <2>2. /\ Tail(t) \in Seq(Positions) /\ Len(Tail(t)) = Len(t) - 1
        /\ Distinct(Tail(t)) /\ ToSet(Tail(t)) = ToSet(t) \ {Head(t)}
    BY <1>2, <2>1, LeaveDistinct
  <2>3. order' = Tail(t) /\ observed' = ToSet(t) \ {Head(t)}
    BY <1>2, <1>3, <1>4
  <2>4. Len(order') <= Window
    BY <1>1, <1>2, <2>2, <2>3
  <2>5. Distinct(order)' /\ ToSet(order)' = observed' /\ order' \in Seq(Positions)
    BY <2>2, <2>3 DEF Distinct, ToSet
  <2> QED
    BY <2>4, <2>5 DEF WindowKept, Positions
<1>5. CASE ~(Len(t) > Window)
  <2>1. order' = t /\ observed' = ToSet(t)
    BY <1>2, <1>3, <1>5
  <2>2. Len(order') <= Window /\ order' \in Seq(Positions)
    BY <1>1, <1>2, <1>5, <2>1
  <2>3. Distinct(order)' /\ ToSet(order)' = observed'
    BY <1>2, <2>1 DEF Distinct, ToSet
  <2> QED
    BY <2>2, <2>3 DEF WindowKept, Positions
<1> QED
  BY <1>4, <1>5

\* The permits.
LEMMA HeldFinite ==
  /\ IsFiniteSet(Held) /\ Cardinality(Held) \in Nat
  /\ \A S \in SUBSET Held : IsFiniteSet(S) /\ Cardinality(S) <= Cardinality(Held)
<1>1. IsFiniteSet(Positions)
  BY WorkerAssumption, FS_Interval DEF Positions
<1>2. Held \in SUBSET Positions
  BY DEF Held
<1>3. IsFiniteSet(Held)
  BY <1>1, <1>2, FS_Subset
<1> QED
  BY <1>3, FS_Subset, FS_CardinalityType

\* Those that hold a permit are fewer, or none was added.
LEMMA FewerPermits ==
  ASSUME PermitsRespected, Held' \subseteq Held
  PROVE  PermitsRespected'
<1>1. Cardinality(Held') <= Cardinality(Held) /\ Cardinality(Held') \in Nat
  BY HeldFinite, FS_CardinalityType
<1> QED
  BY <1>1, HeldFinite, WorkerAssumption DEF PermitsRespected

LEMMA InitWorkerInv == WorkerInit => WorkerInv
<1> SUFFICES ASSUME WorkerInit PROVE WorkerInv
  OBVIOUS
<1>1. order = <<>> /\ observed = {} /\ executed = {} /\ \A n \in Positions : request[n].step = "unread"
  BY DEF WorkerInit, Unread
<1>2. WindowKept
  <2>1. order \in Seq(Positions) /\ Len(order) = 0 /\ DOMAIN order = {}
    BY <1>1
  <2>2. ToSet(order) = {} /\ Distinct(order)
    BY <2>1 DEF ToSet, Distinct
  <2> QED
    BY <1>1, <2>1, <2>2, WorkerAssumption DEF WindowKept
<1>3. PermitsRespected
  <2>1. Held = {}
    BY <1>1 DEF Held
  <2> QED
    BY <2>1, FS_EmptySet, WorkerAssumption DEF PermitsRespected
<1> QED
  BY <1>1, <1>2, <1>3, InitTokensInv DEF WorkerInv, ExecutedTyped

\* The window changes with a request that is read, and then as Remember says.
LEMMA WindowStep ==
  ASSUME WindowKept, TokensInv, [WorkerNext]_workerVars
  PROVE  WindowKept'
<1>1. CASE UNCHANGED <<order, observed>>
  BY <1>1 DEF WindowKept, Distinct, ToSet, Positions
<1>2. CASE \E id \in RequestIds : ReadsNext /\ id \notin observed /\ Remember(id)
  <2>1. PICK id \in RequestIds : ReadsNext /\ id \notin observed /\ Remember(id)
    BY <1>2
  <2>2. loop.at \in 0..MaxFrames /\ MaxFrames \in Nat /\ loop.at < MaxFrames
    BY <2>1, WorkerAssumption DEF TokensInv, WorkerTypes, ReadsNext
  <2>3. id \in Positions
    BY <2>1, <2>2 DEF RequestIds, Positions
  <2> QED
    BY <2>1, <2>3, RememberKeepsWindow
<1>3. CASE UNCHANGED workerVars
  BY <1>1, <1>3 DEF workerVars
<1>4. CASE Spawn
  BY <1>1, <1>4 DEF Spawn
<1>5. CASE ExecuteJob
  BY <1>1, <1>5 DEF ExecuteJob
<1>6. ASSUME NEW id, RefuseFrame(id) PROVE UNCHANGED <<order, observed>>
  BY <1>6 DEF RefuseFrame
<1>7. ASSUME NEW id \in RequestIds,
             \/ Shutdown(id)
             \/ \E c \in CancelIds : CancelRequest(id, c)
             \/ \E c \in CancelIds \cup {NoId} : ReadRequest(id, c)
      PROVE  ReadsNext /\ id \notin observed /\ Remember(id)
  BY <1>7 DEF Shutdown, CancelRequest, ReadRequest
<1>8. ASSUME NEW n \in Positions, ServeTask(n) \/ Interrupt(n) PROVE UNCHANGED <<order, observed>>
  BY <1>8 DEF ServeTask, Dispatch, ForgetToken, WriteAnswer, Interrupt
<1> QED
  BY <1>1, <1>2, <1>3, <1>4, <1>5, <1>6, <1>7, <1>8 DEF WorkerNext

HasOne == {"dispatch", "stored", "decided", "writing"}

\* Whoever has a permit had it before, or there was one left for it.
LEMMA NobodyElse ==
  ASSUME PermitsRespected,
         \A m \in Positions : request'[m].step \in HasOne => request[m].step \in HasOne
  PROVE  PermitsRespected'
<1>1. Held' \subseteq Held
  BY DEF Held, HasOne, Positions
<1> QED
  BY <1>1, FewerPermits

LEMMA PermitsStep ==
  ASSUME PermitsRespected, TokensInv, [WorkerNext]_workerVars
  PROVE  PermitsRespected'
<1> DEFINE kept == \A m \in Positions : request'[m].step \in HasOne => request[m].step \in HasOne
<1>0. request \in [Positions -> RequestStates] /\ jobs \in Seq(Positions)
  BY DEF TokensInv, WorkerTypes
<1>1. CASE kept
  BY <1>1, NobodyElse
<1>2. CASE Spawn
  <2> DEFINE n == loop.at
  <2>1. CASE UNCHANGED request
    BY <1>1, <2>1
  <2>2. CASE \E entry : request' = [request EXCEPT ![n] = entry]
    <3>1. Held' \subseteq Held \cup {n}
      BY <1>0, <2>2 DEF Held, Positions
    <3>2. Cardinality(Held) < Permits /\ Permits \in Nat
      BY <1>2, WorkerAssumption DEF Spawn, HasPermit
    <3>3. IsFiniteSet(Held \cup {n}) /\ Cardinality(Held \cup {n}) <= Cardinality(Held) + 1
      BY HeldFinite, FS_AddElement
    <3>4. Cardinality(Held') <= Cardinality(Held \cup {n}) /\ Cardinality(Held') \in Nat
      BY <3>1, <3>3, FS_Subset, FS_CardinalityType
    <3>5. Cardinality(Held \cup {n}) \in Nat /\ Cardinality(Held) \in Nat
      BY <3>3, HeldFinite, FS_CardinalityType
    <3>6. Cardinality(Held') <= Permits
      BY <3>2, <3>3, <3>4, <3>5
    <3> QED
      BY <3>6 DEF PermitsRespected
  <2>3. UNCHANGED request \/ \E entry : request' = [request EXCEPT ![n] = entry]
    BY <1>2 DEF Spawn
  <2> QED
    BY <2>1, <2>2, <2>3
<1>3. CASE UNCHANGED workerVars
  BY <1>1, <1>3 DEF workerVars
<1>4. CASE ExecuteJob
  <2>1. Head(jobs) \in Positions
    BY <1>0, <1>4 DEF ExecuteJob
  <2>2. CASE UNCHANGED request
    BY <1>1, <2>2
  <2>3. CASE /\ request[Head(jobs)].step = "stored"
             /\ request' = [request EXCEPT ![Head(jobs)].step = "decided",
                                           ![Head(jobs)].outcome = "served"]
    <3>1. kept
      BY <1>0, <2>1, <2>3 DEF HasOne, RequestStates
    <3> QED
      BY <1>1, <3>1
  <2> QED
    BY <1>4, <2>2, <2>3 DEF ExecuteJob, Wakes
<1>5. ASSUME NEW id, RefuseFrame(id) PROVE kept
  BY <1>5 DEF RefuseFrame
<1>6. ASSUME NEW id, Shutdown(id) PROVE kept
  <2>1. \A m \in Positions : request'[m] = IF request[m].step \in {"unread", "answered"} THEN request[m]
                               ELSE [request[m] EXCEPT !.step = "dropped"]
    BY <1>6 DEF Shutdown
  <2> QED
    BY <1>0, <2>1 DEF HasOne, RequestStates
<1>7. ASSUME NEW id, NEW c \in CancelIds, CancelRequest(id, c) PROVE kept
  <2>1. \A m \in Positions : request'[m] = IF m = active[c] THEN [request[m] EXCEPT !.cancelled = TRUE]
                               ELSE request[m]
    BY <1>7 DEF CancelRequest, Cancelled
  <2> QED
    BY <1>0, <2>1 DEF HasOne, RequestStates
<1>8. ASSUME NEW id, NEW c, ReadRequest(id, c) PROVE kept
  BY <1>8 DEF ReadRequest
<1>9. ASSUME NEW n \in Positions, ServeTask(n) \/ Interrupt(n) PROVE kept
  <2>1. request[n].step \in HasOne /\ \A m \in Positions : m # n => request'[m] = request[m]
    BY <1>0, <1>9 DEF ServeTask, Dispatch, ForgetToken, WriteAnswer, Interrupt, Decides, HasOne
  <2> QED
    BY <2>1
<1> QED
  BY <1>1, <1>2, <1>3, <1>4, <1>5, <1>6, <1>7, <1>8, <1>9 DEF WorkerNext

LEMMA ExecutedStep ==
  ASSUME ExecutedTyped, TokensInv, [WorkerNext]_workerVars
  PROVE  ExecutedTyped'
<1>1. CASE UNCHANGED executed
  BY <1>1 DEF ExecutedTyped, Positions
<1>2. CASE ExecuteJob
  <2>1. jobs \in Seq(Positions) /\ jobs # <<>>
    BY <1>2 DEF ExecuteJob, TokensInv, WorkerTypes
  <2>2. Head(jobs) \in Positions /\ executed' = executed \cup {Head(jobs)}
    BY <1>2, <2>1 DEF ExecuteJob
  <2> QED
    BY <2>2 DEF ExecutedTyped, Positions
<1>3. CASE UNCHANGED workerVars \/ Spawn
  BY <1>1, <1>3 DEF workerVars, Spawn, Unchanged
<1>4. ASSUME NEW id, RefuseFrame(id) \/ Shutdown(id) PROVE UNCHANGED executed
  BY <1>4 DEF RefuseFrame, Shutdown, Unchanged
<1>5. ASSUME NEW id, NEW c, CancelRequest(id, c) \/ ReadRequest(id, c) PROVE UNCHANGED executed
  BY <1>5 DEF CancelRequest, ReadRequest, Unchanged
<1>6. ASSUME NEW n, ServeTask(n) \/ Interrupt(n) PROVE UNCHANGED executed
  BY <1>6 DEF ServeTask, Dispatch, ForgetToken, WriteAnswer, Interrupt
<1> QED
  BY <1>1, <1>2, <1>3, <1>4, <1>5, <1>6 DEF WorkerNext

LEMMA NextWorkerInv == WorkerInv /\ [WorkerNext]_workerVars => WorkerInv'
  BY NextTokensInv, WindowStep, PermitsStep, ExecutedStep DEF WorkerInv

LEMMA WorkerTyped == WorkerInv => WorkerTypeOK /\ PermitsRespected
<1> SUFFICES ASSUME WorkerInv PROVE WorkerTypeOK
  BY DEF WorkerInv
<1>1. Cardinality(observed) = Len(order)
  BY DistinctCounted DEF WorkerInv, WindowKept
<1> QED
  BY <1>1 DEF WorkerInv, WindowKept, ExecutedTyped, TokensInv, WorkerTypes, RequestStates, Steps, WorkerTypeOK

\* No more requests are served at a time than there are permits, whatever is
\* cancelled, refused, late or stopped (run).
THEOREM WorkerPermitsRespected == WorkerSpec => []PermitsRespected
  BY InitWorkerInv, NextWorkerInv, WorkerTyped, PTL DEF WorkerSpec

\* The queue and the set of the ReplayWindow hold the same identities, each once
\* and at most as many as its capacity (ReplayWindow).
THEOREM WorkerTypeCorrect == WorkerSpec => []WorkerTypeOK
  BY InitWorkerInv, NextWorkerInv, WorkerTyped, PTL DEF WorkerSpec

-----------------------------------------------------------------------------
\* The parts together.

\* The parts share no state, so a step of one leaves the others alone, and what
\* holds of every behaviour of a part holds while they run beside each other.
THEOREM EngineRunsItsParts ==
  EngineSpec => WorkerSpec /\ TurnSpec /\ JobsSpec /\ StreamSpec /\ RootSpec /\ NewsSpec
<1>1. EngineInit => WorkerInit /\ TurnInit /\ JobsInit /\ StreamInit /\ RootInit /\ NewsInit
  BY DEF EngineInit
<1>2. ASSUME [EngineNext]_engineVars
      PROVE  /\ [WorkerNext]_workerVars /\ [TurnNext]_turnVars /\ [JobsNext]_jobVars
             /\ [StreamNext]_streamVars /\ [RootNext]_rootVars /\ [NewsNext]_newsVars
  BY <1>2 DEF EngineNext, engineVars, workerAlone, turnAlone, jobsAlone, streamAlone, rootAlone,
     newsAlone
<1> QED
  BY <1>1, <1>2, PTL DEF EngineSpec, EngineFairness, WorkerSpec, TurnSpec, JobsSpec, StreamSpec,
     RootSpec, NewsSpec

\* The state of every part is well-formed, and no more requests are served than
\* there are permits (engine/src/main.rs), whatever runs.
THEOREM EngineTypeCorrect == EngineSpec => []EngineTypeOK
<1>1. EngineInit => focus \in Focus
  BY DEF EngineInit
<1>2. focus \in Focus /\ [EngineNext]_engineVars => (focus \in Focus)'
  BY DEF EngineNext, engineVars, workerAlone, turnAlone, jobsAlone, streamAlone, rootAlone,
     newsAlone
<1>3. EngineSpec => [](focus \in Focus)
  BY <1>1, <1>2, PTL DEF EngineSpec
<1> QED
  BY <1>3, EngineRunsItsParts, WorkerTypeCorrect, WorkerPermitsRespected, TurnTypeCorrect,
     JobsTypeCorrect, StreamTypeCorrect, RootTypeCorrect, NewsTypeCorrect, PTL DEF EngineTypeOK
=============================================================================
