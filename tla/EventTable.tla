----------------------------- MODULE EventTable -----------------------------
(***************************************************************************)
(* What the indexer promises the readers of its tables: at every moment    *)
(* the table holds exactly the rows of one chain of blocks, block by       *)
(* block, with every event of every contract discovered so far.  The chain *)
(* is extended at its end or cut back after a reorganisation; nothing else *)
(* changes the table, whatever crashes, restarts and repeats there are.    *)
(***************************************************************************)
EXTENDS EventRows

VARIABLES indexed,  \* the blocks the table speaks of
          table     \* the rows

Init == indexed = <<>> /\ table = {}

\* One more block, with at least the contracts discovered up to it.
Extend ==
  /\ Len(indexed') = Len(indexed) + 1
  /\ Prefix(indexed', Len(indexed)) = indexed
  /\ \E W \in SUBSET Contracts :
       /\ Discovered(indexed', Len(indexed')) \subseteq W
       /\ table' = table \cup BlockRows(indexed'[Len(indexed')], Len(indexed'), W)

\* The blocks after the first n were orphaned.
Rewind(n) ==
  /\ n < Len(indexed)
  /\ indexed' = Prefix(indexed, n)
  /\ table' = RowsUpTo(table, n)

Next == \/ Extend
        \/ \E n \in 0..Len(indexed) : Rewind(n)

Spec == Init /\ [][Next]_<<indexed, table>>
=============================================================================
