---------------------------- MODULE ModelStream -----------------------------
(***************************************************************************)
(* One streamed round of the model: minimax/src/client.rs re-establishes a *)
(* stream that fails before anything was passed on, rate_gate.rs retries   *)
(* the establishment, and agent-runtime/src/minimax.rs removes private     *)
(* reasoning from the text, which arrives in arbitrary fragments.          *)
(*                                                                         *)
(* Each connection sends a reply of its own: some private chunks, one of   *)
(* Replies in fragments, perhaps a tool call, and the finish reason; it    *)
(* may fail, close or fall silent anywhere.  The markers of private        *)
(* reasoning are abbreviated to three symbols, which keeps what makes them *)
(* hard: they begin alike and may be cut anywhere.                         *)
(***************************************************************************)
EXTENDS Naturals, Sequences, SequencesExt, FiniteSetsExt

CONSTANTS Replies,       \* texts a connection may send
          MaxPrecommitRestarts,   \* restarts before the commit (2)
          MaxAttempts,   \* attempts to establish a connection (5)
          MaxBuffered    \* chunks held back before the commit (max_buffered_bytes)

ASSUME StreamAssumption ==
  /\ Replies \subseteq Seq(STRING) /\ MaxPrecommitRestarts \in Nat
  /\ MaxAttempts \in Nat \ {0} /\ MaxBuffered \in Nat \ {0}

VARIABLES link,       \* the connection: its number, what it sends and has sent
          attempt,    \* attempts to establish it
          restart_count,
          buffered,   \* chunks received before the commit
          committed,
          finished,   \* the finish reason was received
          pending,    \* chunks committed and not passed on yet
          filter,     \* the visibility filter, and the visible text so far
          given,      \* what was passed on: of which connections, which text
          ended       \* how the round ended

streamVars == <<link, attempt, restart_count, buffered, committed, finished, pending,
                filter, given, ended>>

Open  == <<"<", "t", ">">>
Close == <<"<", "/", ">">>
NoLink == [open |-> FALSE, no |-> 0, left |-> <<>>, sent |-> "nothing"]

StreamInit ==
  /\ link = NoLink /\ attempt = 1 /\ restart_count = 0
  /\ buffered = <<>> /\ committed = FALSE /\ finished = FALSE /\ pending = <<>>
  /\ filter = [inside |-> FALSE, rest |-> <<>>, out |-> <<>>]
  /\ given = [from |-> {}, text |-> <<>>, kinds |-> {}]
  /\ ended = "no"

-----------------------------------------------------------------------------
\* VisibilityFilter.

Places(text, marker) ==
  {i \in 1..(Len(text) + 1 - Len(marker)) : SubSeq(text, i, i + Len(marker) - 1) = marker}
Before(text, marker) == SubSeq(text, 1, Min(Places(text, marker)) - 1)
After(text, marker)  == SubSeq(text, Min(Places(text, marker)) + Len(marker), Len(text))

\* suffix_prefix_len: an end that may be the beginning of the marker.
\* Mutant: a marker is recognised in one fragment only.
NoTail(text, marker) == <<>>
MarkerTail(text, marker) ==
  LET lengths == {n \in 1..(Len(marker) - 1) :
                    n <= Len(text) /\ IsSuffix(SubSeq(marker, 1, n), text)}
  IN IF lengths = {} THEN <<>> ELSE SubSeq(marker, 1, Max(lengths))

\* push
Filtered[f \in [inside : BOOLEAN, rest : Seq(STRING), out : Seq(STRING)]] ==
  LET marker == IF f.inside THEN Close ELSE Open
      kept == MarkerTail(f.rest, marker)
      shown(text) == IF f.inside THEN f.out ELSE f.out \o text
  IN IF Places(f.rest, marker) # {}
     THEN Filtered[[inside |-> ~f.inside, rest |-> After(f.rest, marker),
                    out |-> shown(Before(f.rest, marker))]]
     ELSE [f EXCEPT !.rest = kept,
                    !.out = shown(SubSeq(f.rest, 1, Len(f.rest) - Len(kept)))]

Pushed(text) == Filtered[[filter EXCEPT !.rest = @ \o text]]

\* finish
Flushed == IF filter.inside THEN filter.out ELSE filter.out \o filter.rest

-----------------------------------------------------------------------------
\* RateGate::run around the establishment.  A failure of the first connection
\* is the caller's, that of a later one counts as a restart.

NotCommitted == restart_count < MaxPrecommitRestarts /\ ~committed

Connect(reply) ==
  /\ ended = "no" /\ ~link.open
  /\ link' = [open |-> TRUE, no |-> link.no + 1, left |-> reply, sent |-> "nothing"]
  /\ attempt' = 1
  /\ UNCHANGED <<restart_count, buffered, committed, finished, pending, filter, given, ended>>

ConnectFails(transient) ==
  /\ ended = "no" /\ ~link.open
  /\ IF transient /\ attempt < MaxAttempts
     THEN attempt' = attempt + 1 /\ UNCHANGED <<restart_count, ended>>
     ELSE IF transient /\ link.no > 0 /\ NotCommitted
     THEN attempt' = 1 /\ restart_count' = restart_count + 1 /\ UNCHANGED ended
     ELSE ended' = "error" /\ UNCHANGED <<attempt, restart_count>>
  /\ UNCHANGED <<link, buffered, committed, finished, pending, filter, given>>

-----------------------------------------------------------------------------
\* What the connection may send next, and what is left of its reply then.
Order == [nothing |-> 0, private |-> 1, text |-> 2, tool |-> 3, finish |-> 4]

Chunks ==
  {[kind |-> "text", text |-> SubSeq(link.left, 1, n)] :
     n \in IF Order[link.sent] <= Order["text"] THEN 1..Len(link.left) ELSE {}}
  \cup {[kind |-> k, text |-> <<>>] :
     k \in {k \in {"private", "tool", "finish"} :
              /\ Order[link.sent] <= Order[k] /\ (k # "private" => Order[link.sent] < Order[k])
              /\ k # "private" => link.left = <<>>}}

\* chunk_commits_protocol, or the buffer is full.
Commits(chunk) == chunk.kind # "private" \/ Len(buffered) + 1 >= MaxBuffered

Receive(chunk) ==
  /\ ended = "no" /\ link.open /\ pending = <<>>
  /\ chunk \in Chunks
  /\ link' = [link EXCEPT !.sent = chunk.kind,
                          !.left = SubSeq(@, Len(chunk.text) + 1, Len(@))]
  /\ finished' = (finished \/ chunk.kind = "finish")
  /\ IF committed \/ Commits(chunk)
     THEN committed' = TRUE /\ pending' = Append(buffered, chunk) /\ buffered' = <<>>
     ELSE buffered' = Append(buffered, chunk) /\ UNCHANGED <<committed, pending>>
  /\ UNCHANGED <<attempt, restart_count, filter, given, ended>>

\* The adapter is polled: a chunk is passed on.
Deliver ==
  /\ pending # <<>>
  /\ filter' = Pushed(Head(pending).text)
  /\ given' = [from |-> given.from \cup {link.no}, text |-> given.text \o Head(pending).text,
               kinds |-> given.kinds \cup {Head(pending).kind}]
  /\ pending' = Tail(pending)
  /\ UNCHANGED <<link, attempt, restart_count, buffered, committed, finished, ended>>

\* prepare_restart
Restarts ==
  /\ link' = [link EXCEPT !.open = FALSE] /\ attempt' = 1 /\ restart_count' = restart_count + 1
  /\ buffered' = <<>> /\ pending' = <<>> /\ finished' = FALSE
  /\ UNCHANGED <<committed, filter, given, ended>>

Ends(how) ==
  /\ ended' = how /\ link' = [link EXCEPT !.open = FALSE]
  /\ filter' = IF how = "clean" THEN [filter EXCEPT !.out = Flushed, !.rest = <<>>] ELSE filter
  /\ UNCHANGED <<attempt, restart_count, buffered, committed, finished, pending, given>>

Listening == ended = "no" /\ link.open /\ pending = <<>>

\* An error on the connection, transient or not.
LinkFails(transient) ==
  /\ Listening
  /\ IF transient /\ NotCommitted THEN Restarts ELSE Ends("error")

\* It closes.
LinkCloses ==
  /\ Listening
  /\ IF NotCommitted THEN Restarts
     ELSE IF committed /\ finished THEN Ends("clean") ELSE Ends("error")

\* The watchdog.
LinkSilent ==
  /\ Listening
  /\ IF NotCommitted THEN Restarts ELSE Ends("error")

StreamNext ==
  \/ \E reply \in Replies : Connect(reply)
  \/ \E transient \in BOOLEAN : ConnectFails(transient) \/ LinkFails(transient)
  \/ \E chunk \in Chunks : Receive(chunk)
  \/ Deliver \/ LinkCloses \/ LinkSilent

StreamSpec == StreamInit /\ [][StreamNext]_streamVars

-----------------------------------------------------------------------------
\* Every part has its type, and the buffer is used until the commit only.
Chunk == [kind : {"private", "text", "tool", "finish"}, text : Seq(STRING)]
StreamTypeOK ==
  /\ link.open \in BOOLEAN /\ link.no \in 0..(MaxPrecommitRestarts + 1)
  /\ attempt \in 1..MaxAttempts /\ restart_count \in 0..MaxPrecommitRestarts
  /\ buffered \in Seq(Chunk) /\ pending \in Seq(Chunk)
  /\ Len(buffered) < MaxBuffered /\ (committed => buffered = <<>>)
  /\ committed \in BOOLEAN /\ finished \in BOOLEAN
  /\ ended \in {"no", "clean", "error"}

\* The text without what is private: from a marker to the next closing one.
Public[text \in Seq(STRING)] ==
  IF Places(text, Open) = {} THEN text
  ELSE LET rest == After(text, Open)
       IN Before(text, Open) \o
          (IF Places(rest, Close) = {} THEN <<>> ELSE Public[After(rest, Close)])

\* A round is passed on from one connection only, what is visible of it is
\* public, however the text was cut, and a round that ends without an error is
\* complete (docs/agent-runtime-hardening.md, section 1).
RoundIsWhole ==
  /\ \A m, n \in given.from : m = n
  /\ IsPrefix(filter.out, Public[given.text])
  /\ ended = "clean" =>
       /\ link.left = <<>> /\ "finish" \in given.kinds
       /\ filter.out = Public[given.text]
=============================================================================
