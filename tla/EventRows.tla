----------------------------- MODULE EventRows -----------------------------
(***************************************************************************)
(* The data the indexer and its abstract specification share: events of    *)
(* the chain, the rows they become, and which contracts a prefix of the    *)
(* chain makes known.  One table stands for all tables of one indexer;     *)
(* what a row's columns hold is the subject of EventDecoders.              *)
(***************************************************************************)
EXTENDS Naturals, Sequences, FiniteSets

CONSTANTS
  Contracts,   \* the contracts one factory-pattern indexer follows (SY, YT or Market)
  Known,       \* those listed in lib/constants.ts
  Factory,     \* the factory that announces the others
  Events,      \* [tx, by, announces]: a transaction's event, its emitter, whom it announces
  Malformed    \* events whose keys or data the validation schema rejects

ASSUME KnownAssumption == Known \subseteq Contracts
ASSUME FactoryAssumption == Factory \notin Contracts
ASSUME EventsAssumption ==
  \A e \in Events : /\ e.by \in Contracts \cup {Factory}
                    /\ e.announces \subseteq Contracts

\* A block: the fork it was produced on stands for its hash and timestamp.
BlockType == [fork : Nat, events : Seq(Events)]

\* The unique key of every event table, and what the key does not determine.
EventKey(r) == <<r.block, r.tx, r.index>>

RowOf(b, i, j) == [block |-> i, tx |-> b.events[j].tx, index |-> j, fork |-> b.fork]

\* The rows that block b at height i gives when the contracts W are watched.
BlockRows(b, i, W) ==
  {RowOf(b, i, j) : j \in {k \in DOMAIN b.events : /\ b.events[k].by \in W
                                                   /\ b.events[k] \notin Malformed}}

\* The contracts that a block announces: the indexer's factory() hook.
factory(b) ==
  UNION {b.events[j].announces : j \in {k \in DOMAIN b.events : b.events[k].by = Factory}}

\* The contracts known at height i of the chain s.
Discovered(s, i) == Known \cup UNION {factory(s[k]) : k \in 1..i}

Prefix(s, n) == SubSeq(s, 1, n)

\* The rows of the first n blocks.
RowsUpTo(rows, n) == {r \in rows : r.block <= n}
=============================================================================
