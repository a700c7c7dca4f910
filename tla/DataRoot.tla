------------------------------ MODULE DataRoot ------------------------------
(***************************************************************************)
(* engine/src/data_root.rs: the data of the Engine moves to another        *)
(* directory while it is being used.  A migration copies the open root     *)
(* into a staging directory, gives it its final name and then replaces the *)
(* pointer file; the open root is used until the restart.  A rollback      *)
(* points back at the root the copy was taken from.  The process may be    *)
(* killed between any two steps.                                           *)
(*                                                                         *)
(* The pointer is written to a temporary file, which is then renamed; its  *)
(* name is the same for all requests of a process.  A file is the request  *)
(* that created it, so that a request may go on writing to a file another  *)
(* one has renamed.  Directories that are not data roots, free space, hash *)
(* mismatches (an early failure) and roots removed by the user are left    *)
(* out, and so are ASTOCK_DATA_DIR and the older `data_dir` setting, which *)
(* the pointer overrides.                                                  *)
(***************************************************************************)
EXTENDS Naturals, FiniteSets

CONSTANTS Roots, Original,
          Requests,     \* migrations and rollbacks, each made once
          Writes,       \* changes to the data
          MaxKills      \* bound: kills of the process

VARIABLES root,      \* the data roots: what they hold, and the copy's manifest
          open,      \* the root of the running Engine
          op,        \* the requests
          content,   \* the files created as a pointer
          temporary, pointer,   \* the two names: the file they name
          overlapped,           \* two requests were writing the pointer at a time
          kills

rootVars == <<root, open, op, content, temporary, pointer, overlapped, kills>>

Nothing == "nothing"

ASSUME RootsAssumption == Original \in Roots /\ Nothing \notin Roots \cup Requests

Absent == [there |-> FALSE, data |-> {}, source |-> Original]
Torn == [whole |-> FALSE, root |-> Original, copy |-> Original]
Unborn == [pc |-> "unborn", target |-> Original, copy |-> Original, data |-> {},
           due |-> {}, file |-> Nothing]

RootInit ==
  /\ root = [r \in Roots |-> [Absent EXCEPT !.there = (r = Original)]]
  /\ open = Original
  /\ op = [o \in Requests |-> Unborn]
  /\ content = [o \in Requests |-> Torn]
  /\ temporary = Nothing /\ pointer = Nothing
  /\ overlapped = FALSE /\ kills = 0

-----------------------------------------------------------------------------
\* The Engine goes on writing to the open root until it is restarted.
Write(w) ==
  /\ open # Nothing /\ \A r \in Roots : w \notin root[r].data
  /\ root' = [root EXCEPT ![open].data = @ \cup {w}]
  /\ UNCHANGED <<open, op, content, temporary, pointer, overlapped, kills>>

\* migrate_with_bootstrap: the destination does not exist; a staging directory
\* of its own.
Prepare(o, r) ==
  /\ open # Nothing /\ op[o].pc = "unborn" /\ ~root[r].there
  /\ op' = [op EXCEPT ![o] = [Unborn EXCEPT !.pc = "staged", !.target = r, !.copy = r,
                                            !.due = root[open].data]]
  /\ UNCHANGED <<root, open, content, temporary, pointer, overlapped, kills>>

\* The files are copied; then the storage thread makes the backup, between two
\* writes.
Backup(o) ==
  /\ op[o].pc = "staged"
  /\ op' = [op EXCEPT ![o].pc = "backed", ![o].data = root[open].data]
  /\ UNCHANGED <<root, open, content, temporary, pointer, overlapped, kills>>

\* The manifest is written and verified, and the staging directory renamed,
\* unless the destination exists by now.
Finalize(o) ==
  /\ op[o].pc = "backed"
  /\ IF root[op[o].target].there
     THEN op' = [op EXCEPT ![o].pc = "failed"] /\ UNCHANGED root
     ELSE /\ op' = [op EXCEPT ![o].pc = "activate"]
          /\ root' = [root EXCEPT ![op[o].target] =
               [there |-> TRUE, data |-> op[o].data, source |-> open]]
  /\ UNCHANGED <<open, content, temporary, pointer, overlapped, kills>>

\* rollback_with_bootstrap: the pointer names a copy whose source is retained
\* and the open root is one of the two; the source is then verified.
Pointed == content[pointer]
Rollback(o) ==
  /\ open # Nothing /\ op[o].pc = "unborn"
  /\ pointer # Nothing /\ Pointed.whole
  /\ LET source == root[Pointed.copy].source IN
       /\ open \in {source, Pointed.copy} /\ source # Pointed.copy
       /\ op' = [op EXCEPT ![o] = [Unborn EXCEPT !.pc = "verify", !.target = source,
                                                 !.copy = Pointed.copy]]
  /\ UNCHANGED <<root, open, content, temporary, pointer, overlapped, kills>>

Verified(o) ==
  /\ op[o].pc = "verify"
  /\ op' = [op EXCEPT ![o].pc = "activate"]
  /\ UNCHANGED <<root, open, content, temporary, pointer, overlapped, kills>>

\* A request that awaits a worker may be dropped; its staging directory is
\* removed with it.
Cancel(o) ==
  /\ op[o].pc \in {"staged", "verify"}
  /\ op' = [op EXCEPT ![o].pc = "failed"]
  /\ UNCHANGED <<root, open, content, temporary, pointer, overlapped, kills>>

-----------------------------------------------------------------------------
\* write_active_redirect, by a request that no await interrupts any more.
Activating == {o \in Requests : op[o].pc \in {"write", "rename"}}

\* Mutant: the pointer is activated before the copy has its name.
AnyTime(o) == op[o].pc \in {"backed", "activate"}
ReadyToActivate(o) == op[o].pc = "activate"

\* File::create truncates a file of that name.
CreateTemporary(o) ==
  /\ ReadyToActivate(o)
  /\ LET f == IF temporary = Nothing THEN o ELSE temporary IN
       /\ op' = [op EXCEPT ![o].pc = "write", ![o].file = f]
       /\ temporary' = f
       /\ content' = [content EXCEPT ![f] = Torn]
  /\ overlapped' = (overlapped \/ Activating # {})
  /\ UNCHANGED <<root, open, pointer, kills>>

\* Two that write to one file may leave a mixture.
WriteTemporary(o) ==
  /\ op[o].pc = "write"
  /\ op' = [op EXCEPT ![o].pc = "rename"]
  /\ \E c \in {[whole |-> TRUE, root |-> op[o].target, copy |-> op[o].copy]}
              \cup (IF \E p \in Activating \ {o} : op[p].file = op[o].file THEN {Torn} ELSE {}) :
       content' = [content EXCEPT ![op[o].file] = c]
  /\ UNCHANGED <<root, open, temporary, pointer, overlapped, kills>>

\* The rename replaces the pointer, or fails: another one took the file along.
Activate(o) ==
  /\ op[o].pc = "rename"
  /\ op' = [op EXCEPT ![o].pc = IF temporary = Nothing THEN "failed" ELSE "done"]
  /\ IF temporary = Nothing THEN UNCHANGED <<temporary, pointer>>
     ELSE pointer' = temporary /\ temporary' = Nothing
  /\ UNCHANGED <<root, open, content, overlapped, kills>>

-----------------------------------------------------------------------------
\* The process ends, by itself or killed.  Requests under way are gone, and
\* the next process has other names for its temporary files.
Kill ==
  /\ open # Nothing /\ kills < MaxKills
  /\ open' = Nothing /\ kills' = kills + 1 /\ temporary' = Nothing
  /\ op' = [o \in Requests |->
       IF op[o].pc \in {"unborn", "done"} THEN op[o] ELSE [op[o] EXCEPT !.pc = "failed"]]
  /\ UNCHANGED <<root, content, pointer, overlapped>>

\* resolve_and_open: an unreadable pointer is an error, and so is a root
\* without a store.
Resolve ==
  /\ open = Nothing
  /\ pointer # Nothing => Pointed.whole /\ root[Pointed.root].there
  /\ open' = IF pointer = Nothing THEN Original ELSE Pointed.root
  /\ UNCHANGED <<root, op, content, temporary, pointer, overlapped, kills>>

RootNext ==
  \/ \E w \in Writes : Write(w)
  \/ \E o \in Requests :
       \/ \E r \in Roots : Prepare(o, r)
       \/ Backup(o) \/ Finalize(o) \/ Rollback(o) \/ Verified(o) \/ Cancel(o)
       \/ CreateTemporary(o) \/ WriteTemporary(o) \/ Activate(o)
  \/ Kill \/ Resolve

RootSpec == RootInit /\ [][RootNext]_rootVars

-----------------------------------------------------------------------------
Root == [there : BOOLEAN, data : SUBSET Writes, source : Roots]
File == [whole : BOOLEAN, root : Roots, copy : Roots]
Step == {"unborn", "staged", "backed", "verify", "activate", "write", "rename", "done", "failed"}
Operation ==
  [pc : Step, target : Roots, copy : Roots, data : SUBSET Writes, due : SUBSET Writes,
   file : Requests \cup {Nothing}]

\* Every part has its type.
RootTypeOK ==
  /\ root \in [Roots -> Root]
  /\ open \in Roots \cup {Nothing}
  /\ op \in [Requests -> Operation]
  /\ content \in [Requests -> File]
  /\ temporary \in Requests \cup {Nothing} /\ pointer \in Requests \cup {Nothing}
  /\ overlapped \in BOOLEAN

\* Whenever the process is killed, the next one finds a pointer it can read
\* (unless two requests wrote it at the same time) and under it a store; a
\* migrated root holds what its source held when its migration was asked for
\* (docs/architecture.md:44-46: only the pointer is switched, atomically).
PointerIsSound ==
  pointer # Nothing =>
    /\ Pointed.whole \/ overlapped
    /\ Pointed.whole => root[Pointed.root].there
    /\ \A o \in Requests :
         op[o].pc = "done" /\ op[o].target = op[o].copy => op[o].due \subseteq root[op[o].target].data
=============================================================================
