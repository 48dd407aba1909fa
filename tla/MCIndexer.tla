----------------------------- MODULE MCIndexer -----------------------------
(* An instance of Indexer for TLC, composed with the decoders: one contract *)
(* with three events, one of them malformed and one with a value that its   *)
(* column cannot hold, and the factory that announces it.  An event of the  *)
(* instance stands for an event of any kind, so what holds of its row must  *)
(* hold of the row of every kind.                                           *)
EXTENDS Indexer, EventDecoders

CONSTANTS c1, f1, t1, t2, t3, t4

MCAnnounce == [tx |-> t1, by |-> f1, announces |-> {c1}]
MCEvent == [tx |-> t2, by |-> c1, announces |-> {}]
MCBadEvent == [tx |-> t3, by |-> c1, announces |-> {}]
MCLargeEvent == [tx |-> t4, by |-> c1, announces |-> {}]
MCEvents == {MCAnnounce, MCEvent, MCBadEvent, MCLargeEvent}
MCUnstorable == {MCLargeEvent}
MCMalformed == {MCBadEvent}
MCContracts == {c1}

\* Every row carries its event: whatever the kind of the event and the length
\* of its strings, transform() passes its validation and fills the columns of
\* the table each from the member of that name.  A malformed event behind the
\* cursor, for which there is no row (BlockRows), was rejected: the schemas and
\* the bounds checks of the readers find every event that is cut short, rather
\* than write a row with something else in place of what is missing.  And a
\* contract is watched for every kind of event that transform() decodes, the
\* discovered ones (the filter that factory() returns) like the listed ones.
DecodedAsEmitted ==
  /\ \A r \in rows : EveryEventCarried
  /\ Malformed \cap OnChain(checkpoint) # {} => EveryCutDetected
  /\ \A c \in watching : IF c \in Known THEN ListedFully ELSE DiscoveredFully
=============================================================================
