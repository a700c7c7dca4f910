---------------------------- MODULE MCEventStore ----------------------------
(***************************************************************************)
(* Small instances of what the Engine keeps in its database: the event     *)
(* store of agent tasks, the relation graph, and the formal disclosures.   *)
(* They share no table, so a behaviour is one of one of them.  The         *)
(* caller-chosen identities, bodies and intents of the event store are     *)
(* interchangeable, hence the symmetry.                                    *)
(***************************************************************************)
EXTENDS EventStore, RelationGraph, Disclosure, TLC

CONSTANT Focus    \* the parts that run

VARIABLE focus

databaseVars == <<vars, graphVars, disclosureVars, focus>>

Symmetry ==
  UNION {Permutations(S) : S \in {TaskId \ {ObservedTask}, EventId, EventBody, EffectId, Key, Intent}}

\* What a source says of the relation: what is supplied, where, from and to
\* when (no end without a report period), and when it was published.
Source(product, region, from, to, published) ==
  [product |-> product, region |-> region, from |-> from, to |-> to, published |-> published]

\* Two sources agree on a report period, see the product in two regions, or
\* tell of a period that is soon over and of one that has not begun.
SomeSources ==
  {[a |-> Source("p", "r", 1, 3, 1), b |-> Source("p", "r", 1, 3, 2)],
   [a |-> Source("p", "r", 1, Never, 1), b |-> Source("p", "s", 2, Never, 2)],
   [a |-> Source("p", "r", 1, 2, 1), b |-> Source("p", "r", 2, 3, 1)]}

SomeVersions == [a |-> 2, b |-> 1]
SomeQueries == {<<2, 1>>}

\* Titles without the words of a revision are equal; the days are in the order
\* of publication, which the indexes need not follow.
Notice(title, kind, day, codes) == [title |-> title, kind |-> kind, day |-> day, codes |-> codes]
Entry(url, notice) == [url |-> url, notice |-> notice]
Plan == Entry("u1", Notice("plan", "active", 1, {"x"}))
Fixed == Entry("u2", Notice("plan", "revised", 2, {"x"}))
Again == Entry("u3", Notice("plan", "revised", 3, {"x", "y"}))
Void == Entry("u4", Notice("plan", "cancelled", 4, {"y"}))
Shared == Entry("u1", Notice("plan", "active", 1, {"y"}))

\* The newest first; a revision in an earlier column, and one url for two
\* disclosures; a page more than is read.
Listing(official, mirror) == [official |-> official, mirror |-> mirror]
SomeListings ==
  {Listing(<<<<<<Fixed, Plan>>>>, <<>>>>, <<>>),
   Listing(<<<<<<Again>>, <<Plan>>, <<Fixed>>>>, <<<<Shared>>>>>>, <<Void, Fixed>>),
   Listing(<<<<<<Void>>, <<Again, Fixed>>>>>>, <<Shared>>)}

DatabaseInit ==
  /\ Init /\ GraphInit /\ DisclosureInit
  /\ focus \in Focus
  /\ focus # "relation" => evidence = CHOOSE e \in Evidence : TRUE
  /\ focus # "disclosures" => listing = CHOOSE l \in Listings : TRUE

DatabaseNext ==
  \/ focus = "tasks"       /\ Next           /\ UNCHANGED <<graphVars, disclosureVars, focus>>
  \/ focus = "relation"    /\ GraphNext      /\ UNCHANGED <<vars, disclosureVars, focus>>
  \/ focus = "disclosures" /\ DisclosureNext /\ UNCHANGED <<vars, graphVars, focus>>

DatabaseSpec == DatabaseInit /\ [][DatabaseNext]_databaseVars

\* The tables of relations (relation-extraction, graph/src/bitemporal.rs) and of
\* disclosures (disclosure/src/lib.rs), and the places of those that write them,
\* are well-formed.
DatabaseTypeOK == GraphTypeOK /\ DisclosureTypeOK /\ focus \in Focus
=============================================================================
