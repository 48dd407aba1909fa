------------------------- MODULE Operations_proofs -------------------------
(***************************************************************************)
(* The programs around the contracts that keep state across restarts: the  *)
(* indexer (Indexer) and the deployment scripts (Deploy).                  *)
(*                                                                         *)
(* Safety of the indexer and its refinement of EventTable, for any         *)
(* contracts, events and blocks, any number of reorganisations, crashes    *)
(* and hung streams.  A commit adds all rows of its block, because the     *)
(* rows before it are rows of lower blocks (NoPhantomRows) and cannot      *)
(* clash with it.  They are enough rows because what is watched covers     *)
(* what the cursor has passed (WatchesAnnounced), after a restart for the  *)
(* reason that the persisted filters do (RestartKeepsWatching).            *)
(*                                                                         *)
(* Safety of the scripts, for any finite set of pairs, any selections of   *)
(* upgrade.sh, any number of runs and of versions of the source.  What is  *)
(* left to do (script.todo) begins with the second half of at most one     *)
(* step, the rest being commands of the script's text (Shape); every       *)
(* command finds set what it needs once those before it are done           *)
(* (InOrder); so whatever .env names is on the chain, of its kind, and     *)
(* refers to what .env names (Complete), a PT and YT to each other         *)
(* (Paired): except a name whose address was taken from what a failing     *)
(* read printed (misread).  The factories have one answer for a pair       *)
(* (Unique, Twins), so the address read after a creation is the created    *)
(* one, and until it is read it is the only contract that .env lacks       *)
(* (Awaited, Accounted), unless a run was disturbed.                       *)
(***************************************************************************)
EXTENDS Indexer, Deploy, SequenceTheorems, FiniteSetTheorems, TLAPS


-----------------------------------------------------------------------------
(* Blocks, rows and prefixes *)

RowType == [block : Nat, tx : {e.tx : e \in Events}, index : Nat, fork : Nat]

\* Only contracts are announced.
LEMMA FactoryType ==
  ASSUME NEW b \in BlockType
  PROVE  factory(b) \subseteq Contracts
BY EventsAssumption DEF factory, BlockType

\* A prefix is a shorter sequence of the same blocks.
LEMMA PrefixFacts ==
  ASSUME NEW S, NEW s \in Seq(S), NEW n \in 0..Len(s)
  PROVE  /\ Prefix(s, n) \in Seq(S)
         /\ Len(Prefix(s, n)) = n
         /\ \A i \in 1..n : Prefix(s, n)[i] = s[i]
<1>1. \A i \in 1..n : s[i] \in S
  OBVIOUS
<1> QED BY <1>1, SubSeqProperties, SMT DEF Prefix

\* What is known at a height depends on the blocks up to it.
LEMMA DiscoveredSame ==
  ASSUME NEW s, NEW t, NEW i \in Nat, \A k \in 1..i : s[k] = t[k]
  PROVE  Discovered(s, i) = Discovered(t, i)
<1>1. {factory(s[k]) : k \in 1..i} = {factory(t[k]) : k \in 1..i}
  OBVIOUS
<1> QED BY <1>1, Zenon DEF Discovered

\* One block more makes known what it announces.
LEMMA DiscoveredNext ==
  ASSUME NEW s, NEW i \in Nat
  PROVE  Discovered(s, i + 1) = Discovered(s, i) \cup factory(s[i + 1])
<1>1. 1..(i + 1) = (1..i) \cup {i + 1}
  OBVIOUS
<1> QED BY <1>1 DEF Discovered

\* Contracts once known stay known higher up.
LEMMA DiscoveredGrows ==
  ASSUME NEW s, NEW i \in Nat, NEW j \in Nat, i <= j
  PROVE  Discovered(s, i) \subseteq Discovered(s, j)
<1>1. 1..i \subseteq 1..j
  OBVIOUS
<1> QED BY <1>1 DEF Discovered

\* Watching more contracts gives no fewer rows.
LEMMA MoreWatchedMoreRows ==
  ASSUME NEW b, NEW i, NEW W, NEW V, W \subseteq V
  PROVE  BlockRows(b, i, W) \subseteq BlockRows(b, i, V)
BY DEF BlockRows

\* The rows of a block are well typed and carry its height.
LEMMA BlockRowsFacts ==
  ASSUME NEW b \in BlockType, NEW i \in Nat, NEW W
  PROVE  /\ BlockRows(b, i, W) \subseteq RowType
         /\ \A r \in BlockRows(b, i, W) : r.block = i
<1> SUFFICES ASSUME NEW r \in BlockRows(b, i, W)
             PROVE  r \in RowType /\ r.block = i
  OBVIOUS
<1>1. PICK j \in DOMAIN b.events : r = RowOf(b, i, j)
  BY DEF BlockRows
<1>2. b.events \in Seq(Events) /\ b.fork \in Nat
  BY DEF BlockType
<1>3. j \in Nat /\ b.events[j] \in Events
  BY <1>1, <1>2
<1> QED BY <1>1, <1>2, <1>3 DEF RowOf, RowType

\* The block delivered next is one of the chain.
LEMMA DeliveredType ==
  ASSUME TypeOK, HasNext
  PROVE  Delivered \in BlockType
<1>1. Len(checkpoint) + 1 \in 1..Len(chain)
  BY DEF TypeOK, HasNext
<1> QED BY <1>1 DEF TypeOK, Delivered

-----------------------------------------------------------------------------
(* The invariant *)

\* The initial tables are empty, and only the constants are known.
LEMMA InitConsistent == Init => Consistent
<1> SUFFICES ASSUME Init PROVE Consistent
  OBVIOUS
<1>1. TypeOK
  <2>1. triggers \in BOOLEAN
    BY Zenon DEF Init
  <2>2. NoBlock \in BlockType
    BY DEF NoBlock, BlockType
  <2>3. /\ chain = <<>> /\ reorgs = 0 /\ rows = {} /\ checkpoint = <<>> /\ filters = {}
        /\ pc = "down" /\ watching = {} /\ block = NoBlock /\ failures = 0
    BY Zenon DEF Init
  <2> QED
    <3> HIDE DEF Init
    <3> QED BY ONLY <2>1, <2>2, <2>3, SMT DEF TypeOK
<1>2. Discovered(checkpoint, 0) = Known
  BY DEF Discovered
<1>3. NoPhantomRows /\ NothingMissed
  BY DEF Init, NoPhantomRows, NothingMissed
<1>4. RestartKeepsWatching
  BY <1>2 DEF Init, RestartKeepsWatching
<1>5. WatchesAnnounced
  BY DEF Init, WatchesAnnounced
<1> QED BY <1>1, <1>3, <1>4, <1>5 DEF Consistent

\* What the database holds speaks of the database alone.
LEMMA DatabaseKept ==
  ASSUME Consistent, UNCHANGED db, TypeOK', WatchesAnnounced'
  PROVE  Consistent'
BY DEF Consistent, db, NoPhantomRows, NothingMissed, RestartKeepsWatching

\* The chain may change in any way under the process.
LEMMA ChainStep ==
  ASSUME Consistent, ProduceBlock \/ Reorganise
  PROVE  Consistent'
<1>1. chain' \in Seq(BlockType) /\ reorgs' \in Nat
  <2>1. CASE ProduceBlock
    <3>1. PICK es \in BlockBodies :
            chain' = Append(chain, [fork |-> reorgs, events |-> es])
      BY <2>1 DEF ProduceBlock
    <3>2. es \in Seq(Events)
      BY DEF BlockBodies
    <3>3. [fork |-> reorgs, events |-> es] \in BlockType
      BY <3>2 DEF BlockType, Consistent, TypeOK
    <3> QED BY <2>1, <3>1, <3>3 DEF ProduceBlock, Consistent, TypeOK
  <2>2. CASE Reorganise
    <3>1. PICK n \in 0..(Len(chain) - 1) : chain' = Prefix(chain, n)
      BY <2>2 DEF Reorganise
    <3>2. chain \in Seq(BlockType) /\ n \in 0..Len(chain)
      BY DEF Consistent, TypeOK
    <3> QED BY <2>2, <3>1, <3>2, PrefixFacts DEF Reorganise, Consistent, TypeOK
  <2> QED BY <2>1, <2>2
<1>2. UNCHANGED <<db, triggers, process, failures>>
  BY DEF ProduceBlock, Reorganise
<1>3. TypeOK'
  BY <1>1, <1>2 DEF Consistent, TypeOK, db, process
<1>4. WatchesAnnounced'
  BY <1>2 DEF Consistent, WatchesAnnounced, Followed, InitialFilter, db, process
<1> QED BY <1>2, <1>3, <1>4, DatabaseKept

\* A started process watches what is persisted, and that is enough.
LEMMA StartUpStep ==
  ASSUME Consistent, StartUp
  PROVE  Consistent'
<1>1. InitialFilter \subseteq Contracts
  BY KnownAssumption DEF Consistent, TypeOK, InitialFilter
<1>2. TypeOK'
  BY <1>1 DEF StartUp, environment, db, Consistent, TypeOK
<1>3. Discovered(checkpoint, Len(checkpoint)) \subseteq InitialFilter
  <2>1. Len(checkpoint) \in 0..Len(checkpoint)
    BY DEF Consistent, TypeOK
  <2> QED BY <2>1 DEF Consistent, RestartKeepsWatching, InitialFilter
<1>4. WatchesAnnounced'
  BY <1>3 DEF StartUp, db, WatchesAnnounced
<1> QED BY <1>2, <1>4, DatabaseKept DEF StartUp

\* A process that is down or starting watches nothing yet.
LEMMA BootStep ==
  ASSUME Consistent, Boot \/ Restart
  PROVE  Consistent'
<1>1. TypeOK'
  BY DEF Boot, Restart, environment, db, process, Consistent, TypeOK
<1>2. WatchesAnnounced'
  BY DEF Boot, Restart, process, WatchesAnnounced
<1> QED BY <1>1, <1>2, DatabaseKept DEF Boot, Restart

\* A process that ends takes only what is volatile with it.
LEMMA FailureStep ==
  ASSUME Consistent, Crash \/ Hang \/ StreamTimeout \/ CommitFails
  PROVE  Consistent'
<1>1. NoBlock \in BlockType
  BY DEF NoBlock, BlockType
<1>2. UNCHANGED db /\ triggers' \in BOOLEAN
  BY DEF Crash, Hang, StreamTimeout, CommitFails, Consistent, TypeOK
<1>3. TypeOK'
  BY <1>1, <1>2 DEF Crash, Hang, StreamTimeout, CommitFails, Ended, environment, db,
                    Consistent, TypeOK
<1>4. WatchesAnnounced'
  BY DEF Crash, Hang, StreamTimeout, CommitFails, Ended, environment, db, Consistent, TypeOK,
         WatchesAnnounced
<1> QED BY <1>2, <1>3, <1>4, DatabaseKept

\* The prefix that is still canonical keeps its rows and its filters.
LEMMA InvalidateStep ==
  ASSUME Consistent, Invalidate
  PROVE  Consistent'
<1>1. PICK n \in 0..(Len(checkpoint) - 1) :
        /\ checkpoint' = Prefix(checkpoint, n)
        /\ rows' = RowsUpTo(rows, n)
        /\ filters' = {f \in filters : f.from <= n}
  BY DEF Invalidate
<1>2. UNCHANGED <<environment, triggers, process, failures>> /\ pc = "streaming"
  BY DEF Invalidate
<1>3. /\ checkpoint \in Seq(BlockType) /\ Len(checkpoint) \in Nat
      /\ n \in Nat /\ n \in 0..Len(checkpoint)
  BY DEF Consistent, TypeOK
<1>4. /\ checkpoint' \in Seq(BlockType)
      /\ Len(checkpoint') = n
      /\ \A i \in 1..n : checkpoint'[i] = checkpoint[i]
  BY <1>1, <1>3, PrefixFacts
<1>5. \A i \in 0..n : Discovered(checkpoint', i) = Discovered(checkpoint, i)
  <2> TAKE i \in 0..n
  <2>1. i \in Nat /\ \A k \in 1..i : checkpoint'[k] = checkpoint[k]
    BY <1>3, <1>4
  <2> QED BY <2>1, DiscoveredSame
<1>6. TypeOK'
  <2>1. rows' \subseteq rows
    BY <1>1 DEF RowsUpTo
  <2>2. filters' \subseteq [contract : Contracts, from : 1..(Len(checkpoint') + 1)]
    <3> SUFFICES ASSUME NEW f \in filters'
                 PROVE  f \in [contract : Contracts, from : 1..(n + 1)]
      BY <1>4
    <3>1. f \in [contract : Contracts, from : 1..(Len(checkpoint) + 1)]
      BY <1>1 DEF Consistent, TypeOK
    <3>2. f.from \in 1..(Len(checkpoint) + 1) /\ f.from <= n
      BY <1>1, <3>1
    <3>3. f.from \in 1..(n + 1)
      BY <1>3, <3>2
    <3> QED BY <3>1, <3>3
  <2> QED BY <1>2, <1>4, <2>1, <2>2 DEF environment, process, Consistent, TypeOK
<1>7. NoPhantomRows'
  <2> SUFFICES ASSUME NEW r \in rows'
               PROVE  /\ r.block \in 1..n
                      /\ r \in BlockRows(checkpoint'[r.block], r.block, Contracts)
    BY <1>4 DEF NoPhantomRows
  <2>1. r \in rows /\ r.block <= n
    BY <1>1 DEF RowsUpTo
  <2>2. /\ r.block \in 1..Len(checkpoint)
        /\ r \in BlockRows(checkpoint[r.block], r.block, Contracts)
    BY <2>1 DEF Consistent, NoPhantomRows
  <2>3. r.block \in 1..n
    BY <1>3, <2>1, <2>2
  <2> QED BY <1>4, <2>2, <2>3
<1>8. NothingMissed'
  <2> SUFFICES ASSUME NEW i \in 1..n
               PROVE  BlockRows(checkpoint'[i], i, Discovered(checkpoint', i))
                        \subseteq rows'
    BY <1>4 DEF NothingMissed
  <2>1. i \in 1..Len(checkpoint) /\ i \in Nat /\ i \in 0..n /\ i <= n
    BY <1>3
  <2>2. checkpoint[i] \in BlockType
    BY <1>3, <2>1
  <2>3. BlockRows(checkpoint[i], i, Discovered(checkpoint, i)) \subseteq rows
    BY <2>1 DEF Consistent, NothingMissed
  <2>4. BlockRows(checkpoint[i], i, Discovered(checkpoint, i))
          \subseteq RowsUpTo(rows, n)
    BY <2>1, <2>2, <2>3, BlockRowsFacts DEF RowsUpTo
  <2> QED BY <1>1, <1>4, <1>5, <2>1, <2>4
<1>9. RestartKeepsWatching'
  <2> SUFFICES ASSUME NEW i \in 0..n
               PROVE  Discovered(checkpoint', i) \subseteq
                        Known \cup {f.contract : f \in {g \in filters' : g.from <= i}}
    BY <1>4 DEF RestartKeepsWatching
  <2>1. i \in 0..Len(checkpoint)
    BY <1>3
  <2>2. Discovered(checkpoint, i)
          \subseteq Known \cup {f.contract : f \in {g \in filters : g.from <= i}}
    BY <2>1 DEF Consistent, RestartKeepsWatching
  <2>3. {g \in filters : g.from <= i} \subseteq {g \in filters' : g.from <= i}
    <3> SUFFICES ASSUME NEW g \in filters, g.from <= i
                 PROVE  g.from <= n
      BY <1>1
    <3>1. g.from \in Nat
      BY <1>3 DEF Consistent, TypeOK
    <3> QED BY <1>3, <3>1
  <2> QED BY <1>5, <2>2, <2>3
<1>10. WatchesAnnounced'
  <2>1. Discovered(checkpoint, n) \subseteq Discovered(checkpoint, Len(checkpoint))
    BY <1>3, DiscoveredGrows
  <2>2. Discovered(checkpoint', n) = Discovered(checkpoint, n)
    BY <1>3, <1>5
  <2> QED BY <1>2, <1>4, <2>1, <2>2 DEF process, Consistent, WatchesAnnounced
<1> QED BY <1>6, <1>7, <1>8, <1>9, <1>10 DEF Consistent

\* A discovery persists the filters of the block before it is transformed.
LEMMA DiscoverStep ==
  ASSUME Consistent, Discover
  PROVE  Consistent'
<1>1. Delivered \in BlockType
  BY DeliveredType DEF Consistent, Discover
<1>2. factory(Delivered) \subseteq Contracts
  BY <1>1, FactoryType
<1>3. Len(checkpoint) + 1 \in 1..(Len(checkpoint) + 1)
  BY DEF Consistent, TypeOK
<1>4. TypeOK'
  BY <1>2, <1>3 DEF Discover, environment, Consistent, TypeOK
<1>5. NoPhantomRows' /\ NothingMissed'
  BY DEF Discover, Consistent, NoPhantomRows, NothingMissed
<1>6. RestartKeepsWatching'
  BY DEF Discover, Consistent, RestartKeepsWatching
<1>7. WatchesAnnounced'
  BY DEF Discover, HasNext, Consistent, WatchesAnnounced
<1> QED BY <1>4, <1>5, <1>6, <1>7 DEF Consistent

\* A block is transformed only once all it announces is followed.
LEMMA DeliverStep ==
  ASSUME Consistent, Deliver
  PROVE  Consistent'
<1>1. Delivered \in BlockType
  BY DeliveredType DEF Consistent, Deliver
<1>2. TypeOK'
  BY <1>1 DEF Deliver, environment, db, Consistent, TypeOK
<1>3. WatchesAnnounced'
  BY DEF Deliver, HasNext, db, Consistent, WatchesAnnounced, Followed, InitialFilter
<1> QED BY <1>2, <1>3, DatabaseKept DEF Deliver

\* The conflict clause keeps no row of the block away.
LEMMA NothingRefused ==
  ASSUME Consistent
  PROVE  Inserted(rows, transform) = rows \cup transform
<1>1. block \in BlockType /\ Len(checkpoint) \in Nat
  BY DEF Consistent, TypeOK
<1>2. \A r \in transform : r.block = Len(checkpoint) + 1
  BY <1>1, BlockRowsFacts DEF transform
<1>3. \A o \in rows : o.block \in 1..Len(checkpoint)
  BY DEF Consistent, NoPhantomRows
<1>4. \A r \in transform, o \in rows : o.block # r.block
  BY <1>1, <1>2, <1>3
<1>5. \A r \in transform, o \in rows : EventKey(o) # EventKey(r)
  BY <1>4 DEF EventKey
<1> QED BY <1>5 DEF Inserted

\* A commit appends the block to what the database speaks of, with the rows of
\* every contract discovered up to it.
LEMMA CommitFacts ==
  ASSUME Consistent, Commit
  PROVE  /\ checkpoint' \in Seq(BlockType)
         /\ Len(checkpoint') = Len(checkpoint) + 1
         /\ \A i \in 1..Len(checkpoint) : checkpoint'[i] = checkpoint[i]
         /\ checkpoint'[Len(checkpoint')] = block
         /\ \A i \in 0..Len(checkpoint) :
              Discovered(checkpoint', i) = Discovered(checkpoint, i)
         /\ Discovered(checkpoint', Len(checkpoint'))
              = Discovered(checkpoint, Len(checkpoint)) \cup factory(block)
         /\ Discovered(checkpoint', Len(checkpoint')) \subseteq watching
         /\ rows' = rows \cup transform
<1>1. /\ checkpoint \in Seq(BlockType) /\ block \in BlockType
      /\ Len(checkpoint) \in Nat
  BY DEF Consistent, TypeOK
<1>2. checkpoint' = Append(checkpoint, block) /\ pc = "transforming"
  BY DEF Commit
<1>3. /\ checkpoint' \in Seq(BlockType)
      /\ Len(checkpoint') = Len(checkpoint) + 1
      /\ \A i \in 1..Len(checkpoint) : checkpoint'[i] = checkpoint[i]
      /\ checkpoint'[Len(checkpoint) + 1] = block
  BY <1>1, <1>2, AppendProperties
<1>4. \A i \in 0..Len(checkpoint) :
        Discovered(checkpoint', i) = Discovered(checkpoint, i)
  <2> TAKE i \in 0..Len(checkpoint)
  <2>1. i \in Nat /\ \A k \in 1..i : checkpoint'[k] = checkpoint[k]
    BY <1>1, <1>3
  <2> QED BY <2>1, DiscoveredSame
<1>5. Discovered(checkpoint', Len(checkpoint) + 1)
        = Discovered(checkpoint, Len(checkpoint)) \cup factory(block)
  <2>1. Discovered(checkpoint', Len(checkpoint) + 1)
          = Discovered(checkpoint', Len(checkpoint))
              \cup factory(checkpoint'[Len(checkpoint) + 1])
    BY <1>1, DiscoveredNext
  <2>2. Discovered(checkpoint', Len(checkpoint))
          = Discovered(checkpoint, Len(checkpoint))
    BY <1>1, <1>4
  <2> QED BY <1>3, <2>1, <2>2
<1>6. /\ Discovered(checkpoint, Len(checkpoint)) \subseteq watching
      /\ factory(block) \subseteq watching
  BY <1>2 DEF Consistent, WatchesAnnounced, Followed
<1>7. rows' = rows \cup transform
  BY NothingRefused DEF Commit
<1> QED BY <1>3, <1>4, <1>5, <1>6, <1>7

LEMMA CommitStep ==
  ASSUME Consistent, Commit
  PROVE  Consistent'
<1>1. /\ checkpoint \in Seq(BlockType) /\ block \in BlockType
      /\ Len(checkpoint) \in Nat
      /\ watching \subseteq Contracts /\ pc = "transforming"
  BY DEF Consistent, TypeOK, Commit
<1> DEFINE n == Len(checkpoint)
<1>2. /\ transform \subseteq RowType
      /\ \A r \in transform : r.block = n + 1
  BY <1>1, BlockRowsFacts DEF transform
<1>3. TypeOK'
  <2>1. rows' \subseteq RowType
    BY <1>2, CommitFacts DEF Consistent, TypeOK, RowType
  <2>2. filters' \subseteq [contract : Contracts, from : 1..(Len(checkpoint') + 1)]
    <3>1. filters \subseteq [contract : Contracts, from : 1..(n + 1)]
      BY DEF Consistent, TypeOK
    <3>2. 1..(n + 1) \subseteq 1..(Len(checkpoint') + 1)
      BY <1>1, CommitFacts
    <3> QED BY <3>1, <3>2 DEF Commit
  <2>3. NoBlock \in BlockType
    BY DEF NoBlock, BlockType
  <2> QED BY <2>1, <2>2, <2>3, CommitFacts
          DEF Commit, environment, RowType, Consistent, TypeOK
<1>4. NoPhantomRows'
  <2> SUFFICES ASSUME NEW r \in rows'
               PROVE  /\ r.block \in 1..(n + 1)
                      /\ r \in BlockRows(checkpoint'[r.block], r.block, Contracts)
    BY CommitFacts DEF NoPhantomRows
  <2>1. CASE r \in rows
    <3>1. /\ r.block \in 1..n
          /\ r \in BlockRows(checkpoint[r.block], r.block, Contracts)
      BY <2>1 DEF Consistent, NoPhantomRows
    <3> QED BY <1>1, <3>1, CommitFacts
  <2>2. CASE r \in transform
    <3>1. r.block = n + 1
      BY <1>2, <2>2
    <3>2. r \in BlockRows(block, n + 1, Contracts)
      BY <1>1, <2>2, MoreWatchedMoreRows DEF transform
    <3> QED BY <1>1, <3>1, <3>2, CommitFacts
  <2> QED BY <2>1, <2>2, CommitFacts
<1>5. NothingMissed'
  <2> SUFFICES ASSUME NEW i \in 1..(n + 1)
               PROVE  BlockRows(checkpoint'[i], i, Discovered(checkpoint', i))
                        \subseteq rows'
    BY CommitFacts DEF NothingMissed
  <2>1. CASE i \in 1..n
    <3>1. i \in 0..n
      BY <2>1
    <3> QED BY <2>1, <3>1, CommitFacts DEF Consistent, NothingMissed
  <2>2. CASE i = n + 1
    <3>1. BlockRows(block, n + 1, Discovered(checkpoint', n + 1)) \subseteq transform
      BY CommitFacts, MoreWatchedMoreRows DEF transform
    <3> QED BY <2>2, <3>1, CommitFacts
  <2> QED BY <1>1, <2>1, <2>2
<1>6. RestartKeepsWatching'
  <2> SUFFICES ASSUME NEW i \in 0..(n + 1)
               PROVE  Discovered(checkpoint', i) \subseteq
                        Known \cup {f.contract : f \in {g \in filters : g.from <= i}}
    BY CommitFacts DEF Commit, RestartKeepsWatching
  <2>1. CASE i \in 0..n
    BY <2>1, CommitFacts DEF Consistent, RestartKeepsWatching
  <2>2. CASE i = n + 1
    <3>1. \A g \in filters : g.from <= i
      BY <1>1, <2>2 DEF Consistent, TypeOK
    <3>2. Discovered(checkpoint, n) \subseteq InitialFilter
      <4>1. n \in 0..n
        BY <1>1
      <4> QED BY <4>1 DEF Consistent, RestartKeepsWatching, InitialFilter
    <3>3. factory(block) \subseteq InitialFilter
      BY <1>1 DEF Consistent, WatchesAnnounced, Followed
    <3>4. Discovered(checkpoint', i) \subseteq InitialFilter
      BY <2>2, <3>2, <3>3, CommitFacts
    <3> QED BY <3>1, <3>4 DEF InitialFilter
  <2> QED BY <1>1, <2>1, <2>2
<1>7. WatchesAnnounced'
  BY CommitFacts DEF Commit, WatchesAnnounced
<1> QED BY <1>3, <1>4, <1>5, <1>6, <1>7 DEF Consistent

LEMMA NextConsistent == Consistent /\ [Next]_vars => Consistent'
<1> SUFFICES ASSUME Consistent, [Next]_vars PROVE Consistent'
  OBVIOUS
<1>1. CASE ProduceBlock \/ Reorganise
  BY <1>1, ChainStep
<1>2. CASE Boot \/ StartUp \/ Restart
  BY <1>2, BootStep, StartUpStep
<1>3. CASE Invalidate
  BY <1>3, InvalidateStep
<1>4. CASE Discover
  BY <1>4, DiscoverStep
<1>5. CASE Deliver
  BY <1>5, DeliverStep
<1>6. CASE Commit
  BY <1>6, CommitStep
<1>7. CASE Crash \/ Hang \/ StreamTimeout \/ CommitFails
  BY <1>7, FailureStep
<1>8. CASE UNCHANGED vars
  <2>1. TypeOK' /\ WatchesAnnounced'
    BY <1>8 DEF vars, db, process, environment, Consistent, TypeOK,
                WatchesAnnounced, Followed, InitialFilter
  <2> QED BY <1>8, <2>1, DatabaseKept DEF vars, db
<1> QED BY <1>1, <1>2, <1>3, <1>4, <1>5, <1>6, <1>7, <1>8 DEF Next

\* Rows, cursor, filters and process agree in every state the indexer can
\* reach: no row of an orphaned block, none missing, none given up on restart.
THEOREM Safety == Spec => []Consistent
<1> QED BY InitConsistent, NextConsistent, PTL DEF Spec

-----------------------------------------------------------------------------
(* The refinement *)

\* EventTable speaks of blocks, prefixes and rows as Indexer does.
LEMMA SharedData ==
  ASSUME NEW s, NEW b, NEW i, NEW W
  PROVE  /\ Table!Prefix(s, i) = Prefix(s, i)
         /\ Table!Discovered(s, i) = Discovered(s, i)
         /\ Table!BlockRows(b, i, W) = BlockRows(b, i, W)
         /\ Table!RowsUpTo(s, i) = RowsUpTo(s, i)
<1>1. Table!Prefix(s, i) = Prefix(s, i)
  BY DEF Prefix, Table!Prefix
<1>2. Table!Discovered(s, i) = Discovered(s, i)
  BY DEF Discovered, Table!Discovered, factory, Table!factory
<1>3. Table!BlockRows(b, i, W) = BlockRows(b, i, W)
  BY DEF BlockRows, Table!BlockRows, RowOf, Table!RowOf
<1>4. Table!RowsUpTo(s, i) = RowsUpTo(s, i)
  BY DEF RowsUpTo, Table!RowsUpTo
<1> QED BY <1>1, <1>2, <1>3, <1>4

\* Extending the table: a commit.
LEMMA CommitExtends ==
  ASSUME Consistent, Commit
  PROVE  Table!Extend
<1>1. /\ checkpoint \in Seq(BlockType) /\ Len(checkpoint) \in Nat
      /\ watching \subseteq Contracts
  BY DEF Consistent, TypeOK
<1>2. Prefix(checkpoint', Len(checkpoint)) = checkpoint
  <2>1. Len(checkpoint) \in 0..Len(checkpoint')
    BY <1>1, CommitFacts
  <2>2. /\ Prefix(checkpoint', Len(checkpoint)) \in Seq(BlockType)
        /\ Len(Prefix(checkpoint', Len(checkpoint))) = Len(checkpoint)
        /\ \A i \in 1..Len(checkpoint) :
             Prefix(checkpoint', Len(checkpoint))[i] = checkpoint'[i]
    BY <2>1, CommitFacts, PrefixFacts
  <2> QED BY <1>1, <2>2, CommitFacts, SeqEqual
<1>3. rows' = rows \cup BlockRows(checkpoint'[Len(checkpoint')],
                                  Len(checkpoint'), watching)
  BY CommitFacts DEF transform
<1>4. /\ Table!Prefix(checkpoint', Len(checkpoint)) = checkpoint
      /\ Table!Discovered(checkpoint', Len(checkpoint')) \subseteq watching
      /\ rows' = rows \cup Table!BlockRows(checkpoint'[Len(checkpoint')],
                                           Len(checkpoint'), watching)
  BY <1>2, <1>3, CommitFacts, SharedData
<1>5. Len(checkpoint') = Len(checkpoint) + 1
  BY CommitFacts
<1> QED BY <1>1, <1>4, <1>5 DEF Table!Extend

\* Cutting it back: an invalidation.
LEMMA InvalidateRewinds ==
  ASSUME Consistent, Invalidate
  PROVE  \E n \in 0..Len(checkpoint) : Table!Rewind(n)
<1>1. PICK n \in 0..(Len(checkpoint) - 1) :
        checkpoint' = Prefix(checkpoint, n) /\ rows' = RowsUpTo(rows, n)
  BY DEF Invalidate
<1>2. n \in 0..Len(checkpoint) /\ n < Len(checkpoint)
  BY DEF Consistent, TypeOK
<1> QED BY <1>1, <1>2, SharedData DEF Table!Rewind

\* Whatever crashes, restarts, repetitions and reorganisations there are, the
\* tables of the indexer change only as their abstract specification says.
THEOREM IndexerImplementsTable == Spec => ImplementsTable
<1>1. Init => Table!Init
  BY DEF Init, Table!Init
<1>2. Consistent /\ [Next]_vars => [Table!Next]_<<checkpoint, rows>>
  <2> SUFFICES ASSUME Consistent, [Next]_vars
               PROVE  Table!Next \/ UNCHANGED <<checkpoint, rows>>
    OBVIOUS
  <2>1. CASE Commit
    BY <2>1, CommitExtends DEF Table!Next
  <2>2. CASE Invalidate
    BY <2>2, InvalidateRewinds DEF Table!Next
  <2>3. CASE \/ ProduceBlock \/ Reorganise \/ Boot \/ StartUp \/ Discover \/ Deliver
             \/ CommitFails \/ Crash \/ Restart \/ Hang \/ StreamTimeout \/ UNCHANGED vars
    BY <2>3 DEF ProduceBlock, Reorganise, Boot, StartUp, Discover, Deliver, CommitFails,
                Crash, Restart, Hang, StreamTimeout, vars, db
  <2> QED BY <2>1, <2>2, <2>3 DEF Next
<1> QED BY <1>1, <1>2, Safety, PTL DEF Spec, ImplementsTable, Table!Spec

-----------------------------------------------------------------------------
(* The deployment scripts: commands and types *)

\* The kinds of contract that deploy.sh deploys with sncast, the others being
\* made by the factories.
DeployedKinds == Range(Core) \cup {"MockYieldToken", "SY"}

\* The commands that the texts of the scripts consist of.
PlainCommands ==
  [op : {"declarations", "expiry", "seeding", "export", "summary"}]
  \cup [op : {"declare"}, class : Range(Classes)]
  \cup {Deploy(k, LinksOf(k)) : k \in {k \in Keys : k[1] \in DeployedKinds}}
  \cup [op : {"invoke"}, given : Nat, taken : Nat]
  \cup [op : {"pair", "market", "seed"}, pair : Pairs]
  \cup [op : {"check"}, class : Range(Classes), wanted : BOOLEAN]
  \cup [op : {"upgrade"}, key : Keys, new : Nat]

\* The commands that stand for the second half of a step under way.
ReadOf(k) == [op |-> "read", key |-> k]
Create(p) == [op |-> "create", pair |-> p]
CreateMarket(p) == [op |-> "create_market", pair |-> p]
Record(k, v) == [op |-> "record", key |-> k, value |-> v]

Commands ==
  PlainCommands
  \cup [op : {"read"}, key : Keys]
  \cup [op : {"create", "create_market"}, pair : Pairs]
  \cup [op : {"record"}, key : Keys, value : Nat]
  \cup [op : {"performed"}, class : Range(Classes), new : Nat]

Names == [address : [Keys -> Nat], hash : [Range(Classes) -> Nat], expiry : Nat]
ContractsOf(kind) ==
  [kind : {kind}, of : SUBSET Nat, expiry : Nat, class : Range(Classes) \X Nat,
   makes : [Makes(kind) -> Nat]]
AnyContract == UNION {ContractsOf(kind) : kind \in Range(Classes)}

\* The names that deploy.sh asks the factories for.
AskedKeys == {k \in Keys : k[1] \in {"PT", "YT", "Market"}}

Scripts ==
  [name : {"none", "deploy", "upgrade"}, todo : Seq(Commands), legacy : BOOLEAN,
   counted : SUBSET {"skipped", "needed", "performed"}, recorded : BOOLEAN]

DeployTypeOK ==
  /\ env \in Names /\ sh \in Names /\ json \in Names
  /\ contracts \in Seq(AnyContract)
  /\ declared \subseteq Range(Classes) \X Nat /\ source \in Nat
  /\ script \in Scripts
  /\ runs \in Nat
  /\ disturbed \in BOOLEAN /\ refused \in BOOLEAN
  /\ misread \in [address : SUBSET AskedKeys, hash : SUBSET Range(Classes)]
  /\ ended \in {"well", "running", "stopped", "broken"}

\* No script runs and nothing is left to do, or its variables agree with .env.
ShellAgrees ==
  IF script.name = "none" THEN script.todo = <<>>
  ELSE sh.address = env.address /\ sh.expiry = env.expiry

-----------------------------------------------------------------------------
(* The order of the commands *)

Recorded == {k \in Keys : env.address[k] # 0}

\* The names that a command sets, unless a read fails.
Gives(c) ==
  IF c.op \in {"deploy", "record", "read"} THEN {c.key}
  ELSE IF c.op = "pair" THEN {<<"PT", c.pair>>, <<"YT", c.pair>>}
  ELSE IF c.op = "market" THEN {<<"Market", c.pair>>} ELSE {}

\* The names that must be set when its turn comes.
Needs(c, disturbance) ==
  IF c.op = "deploy" THEN c.of
  ELSE IF c.op = "pair" THEN {<<"Factory", NoPair>>, <<"SY", c.pair>>}
  ELSE IF c.op = "market"
  THEN {<<"MarketFactory", NoPair>>} \cup IF disturbance THEN {} ELSE {<<"PT", c.pair>>}
  ELSE IF c.op = "export" /\ ~disturbance THEN Keys ELSE {}

OrderedFrom(s, given, disturbance) ==
  \A i \in DOMAIN s : \A k \in Needs(s[i], disturbance) :
    k \in given \/ \E j \in 1..(i - 1) : k \in Gives(s[j])

IsSet(k) == env.address[k] # 0

\* The PT of the pair was made for the expiry of .env, and is read.
HasPT(p) ==
  <<"PT", p>> \notin misread.address =>
    /\ IsSet(<<"PT", p>>) /\ ~IsSet(<<"YT", p>>)
    /\ contracts[env.address[<<"PT", p>>]].expiry = env.expiry

\* What a list may begin with, ahead of the rest of a script's text.
UnderWay(f) ==
  \/ f = <<>>
  \/ \E k \in Keys, v \in DOMAIN contracts :
       /\ f = <<Record(k, v)>> /\ ~IsSet(k) /\ k[1] \in DeployedKinds
       /\ contracts[v].kind = k[1]
       /\ contracts[v].of = {env.address[link] : link \in LinksOf(k)}
       /\ \A link \in LinksOf(k) : IsSet(link)
  \/ \E p \in Pairs :
       /\ IsSet(<<"SY", p>>)
       /\ \/ /\ IsSet(<<"Factory", NoPair>>)
             /\ f = <<Create(p), ReadOf(<<"PT", p>>), ReadOf(<<"YT", p>>)>> /\ ~IsSet(<<"PT", p>>)
          \/ f = <<ReadOf(<<"PT", p>>), ReadOf(<<"YT", p>>)>> /\ ~IsSet(<<"PT", p>>)
          \/ f = <<ReadOf(<<"YT", p>>)>> /\ HasPT(p)
  \/ \E p \in Pairs :
       /\ IsSet(<<"PT", p>>) /\ ~IsSet(<<"Market", p>>)
       /\ \/ /\ IsSet(<<"MarketFactory", NoPair>>)
             /\ f = <<CreateMarket(p), ReadOf(<<"Market", p>>)>>
          \/ f = <<ReadOf(<<"Market", p>>)>>
  \/ \E c \in Range(Classes), v \in Nat :
       f = <<Performed(c, v)>> /\ (refused \/ <<c, v>> \in declared)

Shape ==
  \E f \in Seq(Commands), rest \in Seq(PlainCommands) :
    script.todo = f \o rest /\ UnderWay(f)

InOrder == OrderedFrom(script.todo, Recorded, disturbed)

-----------------------------------------------------------------------------
(* The contracts and the names *)

\* Names that are set, and not misread, belong together; those that they refer
\* to are set too.
Complete(names) ==
  \A k \in Keys \ misread.address : names.address[k] # 0 =>
    /\ names.address[k] \in DOMAIN contracts
    /\ contracts[names.address[k]].kind = k[1]
    /\ contracts[names.address[k]].of = {names.address[link] : link \in LinksOf(k)}
    /\ \A link \in LinksOf(k) : names.address[link] # 0

\* Where the PT was read, there is no YT without it, nor with another expiry.
Paired(names) ==
  \A p \in Pairs :
    <<"PT", p>> \notin misread.address /\ names.address[<<"YT", p>>] # 0 =>
      /\ names.address[<<"PT", p>>] # 0
      /\ <<"YT", p>> \notin misread.address =>
           contracts[names.address[<<"PT", p>>]].expiry
             = contracts[names.address[<<"YT", p>>]].expiry

Exported ==
  /\ Complete(json) /\ Paired(json)
  /\ json # Nothing /\ ~disturbed => \A k \in Keys : json.address[k] # 0

\* The factories make one PT and one YT for an SY and an expiry, together, and
\* one market for a PT.
Unique ==
  \A i, j \in DOMAIN contracts :
    /\ contracts[i].kind \in {"PT", "YT", "Market"}
    /\ contracts[i].kind = contracts[j].kind
    /\ contracts[i].of = contracts[j].of
    /\ contracts[i].expiry = contracts[j].expiry
    => i = j
Twins ==
  \A i \in DOMAIN contracts : contracts[i].kind = "YT" => \E j \in DOMAIN contracts :
    /\ contracts[j].kind = "PT"
    /\ contracts[j].of = contracts[i].of /\ contracts[j].expiry = contracts[i].expiry

\* Undisturbed, every read was answered, and the YT of a pair is recorded right
\* after the PT.
PairsWhole ==
  ~disturbed =>
    /\ misread.address = {}
    /\ \A p \in Pairs : IsSet(<<"PT", p>>) =>
         IsSet(<<"YT", p>>) \/ (script.todo # <<>> /\ Head(script.todo) = ReadOf(<<"YT", p>>))

\* The contracts that the command under way is about to record.
Awaited ==
  IF script.todo = <<>> THEN {}
  ELSE LET c == Head(script.todo) IN
       IF c.op = "record" THEN {c.value}
       ELSE IF c.op = "read"
       THEN Registered(c.key)
            \cup IF c.key[1] = "PT" THEN Registered(<<"YT", c.key[2]>>) ELSE {}
       ELSE {}

Accounted ==
  ~disturbed => \A i \in DOMAIN contracts : i \in Awaited \/ \E k \in Keys : env.address[k] = i

DeployInv ==
  /\ DeployTypeOK /\ ShellAgrees /\ Shape /\ InOrder
  /\ Complete(env) /\ Paired(env) /\ Exported
  /\ Unique /\ Twins /\ PairsWhole /\ Accounted
  /\ HashesDeclared

-----------------------------------------------------------------------------
(* Names and commands *)

\* The classes, one by one.
LEMMA ClassNames ==
  Range(Classes) = {"MockYieldToken", "PyLpOracle", "RouterStatic", "SY", "PT", "YT", "Market",
                    "Factory", "MarketFactory", "Router"}
  BY DEF Range, Classes

\* The contracts there is one of, one by one.
LEMMA CoreNames ==
  Range(Core) = {"Factory", "MarketFactory", "Router", "RouterStatic", "PyLpOracle"}
  BY DEF Range, Core

\* A name is a core contract, or a kind of contract and a pair.
LEMMA KeysAre ==
  /\ \A c \in Range(Core) : <<c, NoPair>> \in Keys
  /\ \A p \in Pairs : \A c \in {"MockYieldToken", "SY", "PT", "YT", "Market"} : <<c, p>> \in Keys
  /\ \A k \in Keys :
       \/ k[1] \in Range(Core) /\ k = <<k[1], NoPair>>
       \/ k[1] \in {"MockYieldToken", "SY", "PT", "YT", "Market"} /\ k[2] \in Pairs
          /\ k = <<k[1], k[2]>>
  BY DEF Keys

\* What a contract refers to, by its kind: never a YT nor a market.
LEMMA LinksAre ==
  ASSUME NEW k \in Keys
  PROVE  /\ k[1] = "MarketFactory" => LinksOf(k) = {<<"Factory", NoPair>>}
         /\ k[1] = "SY" => LinksOf(k) = {<<"MockYieldToken", k[2]>>}
         /\ k[1] \in {"PT", "YT"} => LinksOf(k) = {<<"SY", k[2]>>}
         /\ k[1] = "Market" => LinksOf(k) = {<<"PT", k[2]>>}
         /\ k[1] \in {"Factory", "Router", "RouterStatic", "PyLpOracle", "MockYieldToken"} =>
              LinksOf(k) = {}
         /\ LinksOf(k) \subseteq Keys
         /\ \A link \in LinksOf(k) : link[1] \in {"Factory", "MockYieldToken", "SY", "PT"}
  <1>1. k[1] \in {"Factory", "MarketFactory", "Router", "RouterStatic", "PyLpOracle",
                  "MockYieldToken", "SY", "PT", "YT", "Market"}
    BY KeysAre, CoreNames
  <1>2. CASE k[1] = "MarketFactory"
    BY <1>2, KeysAre, CoreNames DEF LinksOf
  <1>3. CASE k[1] \in {"SY", "PT", "YT", "Market"}
    <2>1. k[2] \in Pairs BY <1>3, KeysAre, CoreNames
    <2>2. CASE k[1] = "SY"
      <3>1. LinksOf(k) = {<<"MockYieldToken", k[2]>>} BY <2>2 DEF LinksOf
      <3> QED BY <2>1, <2>2, <3>1, KeysAre, ZenonT(40)
    <2>3. CASE k[1] \in {"PT", "YT"} BY <2>1, <2>3, KeysAre DEF LinksOf
    <2>4. CASE k[1] = "Market" BY <2>1, <2>4, KeysAre DEF LinksOf
    <2> QED BY <1>3, <2>2, <2>3, <2>4
  <1>4. CASE k[1] \in {"Factory", "Router", "RouterStatic", "PyLpOracle", "MockYieldToken"}
    BY <1>4 DEF LinksOf
  <1> QED BY <1>1, <1>2, <1>3, <1>4

\* The fields of the commands of a text.
LEMMA PlainOps ==
  ASSUME NEW c \in PlainCommands
  PROVE  /\ c \in Commands
         /\ c.op \in {"declarations", "expiry", "seeding", "export", "summary", "declare", "deploy",
                      "invoke", "pair", "market", "seed", "check", "upgrade"}
         /\ c.op = "declare" => c.class \in Range(Classes)
         /\ c.op = "deploy" => c.key \in Keys /\ c.of = LinksOf(c.key) /\ c.key[1] \in DeployedKinds
         /\ c.op = "invoke" => c.given \in Nat /\ c.taken \in Nat
         /\ c.op \in {"pair", "market", "seed"} => c.pair \in Pairs
         /\ c.op = "check" => c.class \in Range(Classes) /\ c.wanted \in BOOLEAN
         /\ c.op = "upgrade" => c.key \in Keys /\ c.new \in Nat
  BY DEF PlainCommands, Commands, Deploy

\* The commands of a text, written out.
LEMMA PlainAre ==
  /\ \A o \in {"declarations", "expiry", "seeding", "export", "summary"} :
       [op |-> o] \in PlainCommands
  /\ \A c \in Range(Classes) : Declare(c) \in PlainCommands
  /\ \A k \in Keys : k[1] \in DeployedKinds => Deploy(k, LinksOf(k)) \in PlainCommands
  /\ \A m, n \in Nat : Invoke(m, n) \in PlainCommands
  /\ \A o \in {"pair", "market", "seed"} : \A p \in Pairs :
       [op |-> o, pair |-> p] \in PlainCommands
  /\ \A c \in Range(Classes) : \A w \in BOOLEAN :
       [op |-> "check", class |-> c, wanted |-> w] \in PlainCommands
  /\ \A k \in Keys : \A v \in Nat : [op |-> "upgrade", key |-> k, new |-> v] \in PlainCommands
  BY DEF PlainCommands, Declare, Invoke

\* The commands that stand for the second half of a step.
LEMMA OtherCommands ==
  /\ PlainCommands \subseteq Commands
  /\ \A k \in Keys : ReadOf(k) \in Commands
  /\ \A p \in Pairs : Create(p) \in Commands /\ CreateMarket(p) \in Commands
  /\ \A k \in Keys : \A v \in Nat : Record(k, v) \in Commands
  /\ \A c \in Range(Classes) : \A v \in Nat : Performed(c, v) \in Commands
  BY DEF Commands, ReadOf, Create, CreateMarket, Record, Performed

-----------------------------------------------------------------------------
(* Lists of commands *)

\* Head and tail of a sequence that a value was put in front of.
LEMMA Begins ==
  ASSUME NEW S, NEW a \in S, NEW s \in Seq(S)
  PROVE  /\ <<a>> \o s \in Seq(S) /\ <<a>> \o s # <<>>
         /\ Len(<<a>> \o s) = Len(s) + 1
         /\ Head(<<a>> \o s) = a /\ Tail(<<a>> \o s) = s
  <1>1. <<a>> \in Seq(S) /\ Len(<<a>>) = 1 /\ <<a>>[1] = a
    OBVIOUS
  <1>2. <<a>> \o s \in Seq(S) /\ Len(<<a>> \o s) = Len(s) + 1
    BY <1>1, ConcatProperties
  <1>3. (<<a>> \o s)[1] = a /\ \A i \in 1..Len(s) : (<<a>> \o s)[i + 1] = s[i]
    BY <1>1, <1>2, ConcatProperties
  <1>4. Tail(<<a>> \o s) \in Seq(S) /\ Len(Tail(<<a>> \o s)) = Len(s)
    BY <1>2, HeadTailProperties
  <1>5. Tail(<<a>> \o s) = s
    BY <1>2, <1>3, <1>4, HeadTailProperties, SeqEqual
  <1> QED BY <1>2, <1>3, <1>5

\* A sequence is its head and its tail.
LEMMA Splits ==
  ASSUME NEW S, NEW s \in Seq(S), s # <<>>
  PROVE  /\ Head(s) \in S /\ Tail(s) \in Seq(S)
         /\ s = <<Head(s)>> \o Tail(s)
  <1>1. Head(s) \in S /\ Tail(s) \in Seq(S) /\ Len(Tail(s)) = Len(s) - 1
        /\ \A i \in 1..Len(Tail(s)) : Tail(s)[i] = s[i + 1]
    BY HeadTailProperties
  <1>2. <<Head(s)>> \in Seq(S) /\ Len(<<Head(s)>>) = 1 /\ <<Head(s)>>[1] = s[1]
    BY <1>1
  <1>3. <<Head(s)>> \o Tail(s) \in Seq(S) /\ Len(<<Head(s)>> \o Tail(s)) = Len(s)
    BY <1>1, <1>2, ConcatProperties
  <1>4. \A i \in 1..Len(s) : (<<Head(s)>> \o Tail(s))[i] = s[i]
    BY <1>1, <1>2, <1>3, ConcatProperties
  <1> QED BY <1>1, <1>3, <1>4, SeqEqual

LEMMA Begins2 ==
  ASSUME NEW a \in Commands, NEW b \in Commands, NEW s \in Seq(Commands)
  PROVE  <<a, b>> \o s = <<a>> \o (<<b>> \o s)
  <1>1. <<a>> \in Seq(Commands) /\ <<b>> \in Seq(Commands) /\ <<a, b>> \in Seq(Commands)
    OBVIOUS
  <1>2. <<a>> \o <<b>> = <<a, b>>
    <2>1. <<a>> \o <<b>> \in Seq(Commands) /\ Len(<<a>> \o <<b>>) = 2
      BY <1>1, ConcatProperties
    <2>2. \A i \in 1..2 : (<<a>> \o <<b>>)[i] = <<a, b>>[i]
      BY <1>1, ConcatProperties
    <2> QED BY <1>1, <2>1, <2>2, SeqEqual
  <1>3. (<<a>> \o <<b>>) \o s = <<a>> \o (<<b>> \o s)
    BY <1>1, ConcatAssociative
  <1> QED BY <1>2, <1>3

LEMMA Begins3 ==
  ASSUME NEW a \in Commands, NEW b \in Commands, NEW c \in Commands, NEW s \in Seq(Commands)
  PROVE  <<a, b, c>> \o s = <<a>> \o (<<b, c>> \o s)
  <1>1. <<a>> \in Seq(Commands) /\ <<b, c>> \in Seq(Commands) /\ <<a, b, c>> \in Seq(Commands)
    OBVIOUS
  <1>2. <<a>> \o <<b, c>> = <<a, b, c>>
    <2>1. <<a>> \o <<b, c>> \in Seq(Commands) /\ Len(<<a>> \o <<b, c>>) = 3
      BY <1>1, ConcatProperties
    <2>2. \A i \in 1..3 : (<<a>> \o <<b, c>>)[i] = <<a, b, c>>[i]
      BY <1>1, ConcatProperties
    <2> QED BY <1>1, <2>1, <2>2, SeqEqual
  <1>3. (<<a>> \o <<b, c>>) \o s = <<a>> \o (<<b, c>> \o s)
    BY <1>1, ConcatAssociative
  <1> QED BY <1>2, <1>3

LEMMA PlainLists ==
  ASSUME NEW s \in Seq(PlainCommands)
  PROVE  s \in Seq(Commands)
  BY OtherCommands, SeqMonotonic

-----------------------------------------------------------------------------
(* The order of the commands *)

\* What is left of a list in order is in order, once its head gave what it gives.
LEMMA OrderedTail ==
  ASSUME NEW a \in Commands, NEW s \in Seq(Commands), NEW given, NEW d,
         OrderedFrom(<<a>> \o s, given, d)
  PROVE  /\ Needs(a, d) \subseteq given
         /\ OrderedFrom(s, given \cup Gives(a), d)
  <1> DEFINE t == <<a>> \o s
  <1>1. t \in Seq(Commands) /\ Len(t) = Len(s) + 1 /\ t[1] = a
        /\ \A i \in 1..Len(s) : t[i + 1] = s[i]
    BY ConcatProperties
  <1> HIDE DEF t
  <1>2. \A i \in 1..Len(t) : \A k \in Needs(t[i], d) :
          k \in given \/ \E j \in 1..(i - 1) : k \in Gives(t[j])
    BY <1>1 DEF OrderedFrom, t
  <1>3. Needs(a, d) \subseteq given
    <2> SUFFICES ASSUME NEW k \in Needs(a, d) PROVE k \in given OBVIOUS
    <2>1. 1 \in 1..Len(t) BY <1>1
    <2>2. k \in given \/ \E j \in 1..(1 - 1) : k \in Gives(t[j])
      BY <1>1, <1>2, <2>1
    <2> QED BY <2>2
  <1>4. ASSUME NEW i \in 1..Len(s), NEW k \in Needs(s[i], d)
        PROVE  k \in given \cup Gives(a) \/ \E j \in 1..(i - 1) : k \in Gives(s[j])
    <2>1. i + 1 \in 1..Len(t) /\ t[i + 1] = s[i] BY <1>1
    <2>2. k \in given \/ \E j \in 1..i : k \in Gives(t[j])
      BY <1>2, <2>1
    <2>3. CASE k \notin given
      <3>1. PICK j \in 1..i : k \in Gives(t[j]) BY <2>2, <2>3
      <3>2. CASE j = 1 BY <1>1, <3>1, <3>2
      <3>3. CASE j # 1
        <4>1. j - 1 \in 1..(i - 1) /\ j - 1 \in 1..Len(s) /\ t[(j - 1) + 1] = s[j - 1]
          BY <1>1, <3>1, <3>3
        <4>2. (j - 1) + 1 = j BY <3>1
        <4> QED BY <3>1, <4>1, <4>2
      <3> QED BY <3>2, <3>3
    <2> QED BY <2>3
  <1> QED BY <1>3, <1>4 DEF OrderedFrom

\* Two lists in order follow each other when the first gives what the second takes.
LEMMA OrderedConcat ==
  ASSUME NEW s \in Seq(Commands), NEW t \in Seq(Commands), NEW given, NEW later, NEW d,
         OrderedFrom(s, given, d), OrderedFrom(t, later, d),
         \A k \in later : k \in given \/ \E j \in 1..Len(s) : k \in Gives(s[j])
  PROVE  OrderedFrom(s \o t, given, d)
  <1> DEFINE u == s \o t
  <1>1. u \in Seq(Commands) /\ Len(u) = Len(s) + Len(t)
        /\ (\A i \in 1..Len(s) : u[i] = s[i])
        /\ (\A i \in 1..Len(t) : u[Len(s) + i] = t[i])
        /\ Len(s) \in Nat /\ Len(t) \in Nat
    BY ConcatProperties, LenProperties
  <1> HIDE DEF u
  <1> SUFFICES ASSUME NEW i \in 1..Len(u), NEW k \in Needs(u[i], d)
               PROVE  k \in given \/ \E j \in 1..(i - 1) : k \in Gives(u[j])
    <2>1. DOMAIN u = 1..Len(u) BY <1>1
    <2> QED BY <2>1 DEF OrderedFrom, u
  <1>2. CASE i <= Len(s)
    <2>1. i \in 1..Len(s) /\ u[i] = s[i] BY <1>1, <1>2
    <2>2. k \in given \/ \E j \in 1..(i - 1) : k \in Gives(s[j])
      BY <2>1 DEF OrderedFrom
    <2>3. \A j \in 1..(i - 1) : u[j] = s[j] BY <1>1, <2>1
    <2> QED BY <2>2, <2>3
  <1>3. CASE i > Len(s)
    <2> DEFINE m == i - Len(s)
    <2>1. m \in 1..Len(t) /\ Len(s) + m = i BY <1>1, <1>3
    <2>2. u[i] = t[m] BY <1>1, <2>1
    <2>3. k \in later \/ \E j \in 1..(m - 1) : k \in Gives(t[j])
      BY <2>1, <2>2 DEF OrderedFrom
    <2>4. ASSUME NEW j \in 1..(m - 1), k \in Gives(t[j])
          PROVE  \E l \in 1..(i - 1) : k \in Gives(u[l])
      <3>1. j \in 1..Len(t) /\ Len(s) + j \in 1..(i - 1) BY <1>1, <2>1
      <3>2. u[Len(s) + j] = t[j] BY <1>1, <3>1
      <3> QED BY <2>4, <3>1, <3>2
    <2>5. ASSUME NEW j \in 1..Len(s), k \in Gives(s[j])
          PROVE  \E l \in 1..(i - 1) : k \in Gives(u[l])
      <3>1. j \in 1..(i - 1) /\ u[j] = s[j] BY <1>1, <1>3
      <3> QED BY <2>5, <3>1
    <2> QED BY <2>3, <2>4, <2>5
  <1>4. i <= Len(s) \/ i > Len(s) BY <1>1
  <1> QED BY <1>2, <1>3, <1>4

\* What a read that went unanswered leaves unset is needed by nothing later.
LEMMA OrderedWeaker ==
  ASSUME NEW s \in Seq(Commands), NEW given, NEW more, NEW d \in BOOLEAN, NEW e \in BOOLEAN,
         d => e, OrderedFrom(s, given, d),
         \A k \in given : k \in more \/ (e /\ k[1] \in {"PT", "YT", "Market"})
  PROVE  OrderedFrom(s, more, e)
  <1> SUFFICES ASSUME NEW i \in 1..Len(s), NEW k \in Needs(s[i], e)
               PROVE  k \in more \/ \E j \in 1..(i - 1) : k \in Gives(s[j])
    BY LenProperties DEF OrderedFrom
  <1>1. s[i] \in Commands
    BY ElementOfSeq
  <1>2. k \in Needs(s[i], d) /\ (e => k[1] \notin {"PT", "YT", "Market"})
    <2>1. \A x \in Commands : x.op \in {"pair", "market"} =>
            <<"Factory", NoPair>>[1] = "Factory" /\ <<"MarketFactory", NoPair>>[1] = "MarketFactory"
            /\ <<"SY", x.pair>>[1] = "SY"
      OBVIOUS
    <2>2. s[i].op = "deploy" => s[i].of = LinksOf(s[i].key) /\ s[i].key \in Keys
            /\ s[i].key[1] \in DeployedKinds
      BY <1>1, PlainOps DEF Commands
    <2>3. s[i].op = "deploy" => \A l \in s[i].of : l[1] \in {"Factory", "MockYieldToken"}
      BY <2>2, LinksAre, CoreNames DEF DeployedKinds
    <2>4. CASE s[i].op = "deploy" BY <2>3, <2>4 DEF Needs
    <2>5. CASE s[i].op = "pair" BY <2>5 DEF Needs
    <2>6. CASE s[i].op = "market" BY <2>6 DEF Needs
    <2>7. CASE s[i].op = "export" BY <2>7 DEF Needs
    <2>8. CASE s[i].op \notin {"deploy", "pair", "market", "export"} BY <2>8 DEF Needs
    <2> QED BY <2>4, <2>5, <2>6, <2>7, <2>8
  <1>3. k \in given \/ \E j \in 1..(i - 1) : k \in Gives(s[j])
    BY <1>2 DEF OrderedFrom
  <1> QED BY <1>2, <1>3

-----------------------------------------------------------------------------
(* What the command under way says of the rest *)

IsRecording(h, r) ==
  \E k \in Keys, v \in DOMAIN contracts :
    /\ h = Record(k, v) /\ ~IsSet(k) /\ k[1] \in DeployedKinds
    /\ contracts[v].kind = k[1]
    /\ contracts[v].of = {env.address[link] : link \in LinksOf(k)}
    /\ \A link \in LinksOf(k) : IsSet(link)
    /\ r \in Seq(PlainCommands)
IsCreating(h, r) ==
  \E p \in Pairs, rest \in Seq(PlainCommands) :
    /\ IsSet(<<"SY", p>>) /\ IsSet(<<"Factory", NoPair>>) /\ ~IsSet(<<"PT", p>>)
    /\ h = Create(p) /\ r = <<ReadOf(<<"PT", p>>), ReadOf(<<"YT", p>>)>> \o rest
IsReadingPT(h, r) ==
  \E p \in Pairs, rest \in Seq(PlainCommands) :
    /\ IsSet(<<"SY", p>>) /\ ~IsSet(<<"PT", p>>)
    /\ h = ReadOf(<<"PT", p>>) /\ r = <<ReadOf(<<"YT", p>>)>> \o rest
IsReadingYT(h, r) ==
  \E p \in Pairs :
    /\ IsSet(<<"SY", p>>) /\ HasPT(p)
    /\ h = ReadOf(<<"YT", p>>) /\ r \in Seq(PlainCommands)
IsCreatingMarket(h, r) ==
  \E p \in Pairs, rest \in Seq(PlainCommands) :
    /\ IsSet(<<"PT", p>>) /\ IsSet(<<"MarketFactory", NoPair>>) /\ ~IsSet(<<"Market", p>>)
    /\ h = CreateMarket(p) /\ r = <<ReadOf(<<"Market", p>>)>> \o rest
IsReadingMarket(h, r) ==
  \E p \in Pairs :
    /\ IsSet(<<"PT", p>>) /\ ~IsSet(<<"Market", p>>)
    /\ h = ReadOf(<<"Market", p>>) /\ r \in Seq(PlainCommands)
IsPerformed(h, r) ==
  \E c \in Range(Classes), v \in Nat :
    /\ h = Performed(c, v) /\ (refused \/ <<c, v>> \in declared)
    /\ r \in Seq(PlainCommands)

LEMMA Ahead1 ==
  ASSUME NEW a \in Commands, NEW rest \in Seq(Commands), NEW t, t = <<a>> \o rest
  PROVE  Head(t) = a /\ Tail(t) = rest
  <1>1. Head(<<a>> \o rest) = a /\ Tail(<<a>> \o rest) = rest
    BY Begins, Zenon
  <1> QED BY <1>1, Zenon

LEMMA Ahead2 ==
  ASSUME NEW a \in Commands, NEW b \in Commands, NEW rest \in Seq(Commands),
         NEW t, t = <<a, b>> \o rest
  PROVE  Head(t) = a /\ Tail(t) = <<b>> \o rest
  <1>1. <<b>> \o rest \in Seq(Commands) BY Begins, Zenon
  <1>2. <<a, b>> \o rest = <<a>> \o (<<b>> \o rest) BY Begins2
  <1> QED BY <1>1, <1>2, Ahead1, Zenon

LEMMA Ahead3 ==
  ASSUME NEW a \in Commands, NEW b \in Commands, NEW c \in Commands,
         NEW rest \in Seq(Commands), NEW t, t = <<a, b, c>> \o rest
  PROVE  Head(t) = a /\ Tail(t) = <<b, c>> \o rest
  <1>1. <<b, c>> \in Seq(Commands) OBVIOUS
  <1>2. <<b, c>> \o rest \in Seq(Commands) BY <1>1, ConcatProperties
  <1>3. <<a, b, c>> \o rest = <<a>> \o (<<b, c>> \o rest) BY Begins3
  <1> QED BY <1>2, <1>3, Ahead1, Zenon

\* What the command under way is, and what comes after it.
LEMMA Heads ==
  ASSUME Shape, script.todo # <<>>, NEW h, NEW r, h = Head(script.todo), r = Tail(script.todo)
  PROVE  \/ h \in PlainCommands /\ r \in Seq(PlainCommands)
         \/ IsRecording(h, r) \/ IsCreating(h, r) \/ IsReadingPT(h, r) \/ IsReadingYT(h, r)
         \/ IsCreatingMarket(h, r) \/ IsReadingMarket(h, r) \/ IsPerformed(h, r)
  <1>1. PICK f \in Seq(Commands), rest \in Seq(PlainCommands) :
          script.todo = f \o rest /\ UnderWay(f)
    BY DEF Shape
  <1>2. rest \in Seq(Commands)
    BY PlainLists
  <1>3. CASE f = <<>>
    <2>1. script.todo = rest BY <1>1, <1>3, ConcatEmptySeq
    <2> QED BY <2>1, Splits
  <1>4. CASE \E k \in Keys, v \in DOMAIN contracts :
               /\ f = <<Record(k, v)>> /\ ~IsSet(k) /\ k[1] \in DeployedKinds
               /\ contracts[v].kind = k[1]
               /\ contracts[v].of = {env.address[link] : link \in LinksOf(k)}
               /\ \A link \in LinksOf(k) : IsSet(link)
    <2>1. PICK k \in Keys, v \in DOMAIN contracts :
               /\ f = <<Record(k, v)>> /\ ~IsSet(k) /\ k[1] \in DeployedKinds
               /\ contracts[v].kind = k[1]
               /\ contracts[v].of = {env.address[link] : link \in LinksOf(k)}
               /\ \A link \in LinksOf(k) : IsSet(link)
      BY <1>4
    <2>2. Record(k, v) \in Commands
      <3>1. f[1] = Record(k, v) /\ 1 \in DOMAIN f BY <2>1
      <3> QED BY <3>1, <1>1
    <2>3. script.todo = <<Record(k, v)>> \o rest BY <1>1, <2>1
    <2>4. h = Record(k, v) /\ r = rest
      BY <1>2, <2>2, <2>3, Ahead1
    <2> QED BY <2>1, <2>4 DEF IsRecording
  <1>5. ASSUME NEW p \in Pairs,
               IsSet(<<"SY", p>>), IsSet(<<"Factory", NoPair>>), ~IsSet(<<"PT", p>>),
               f = <<Create(p), ReadOf(<<"PT", p>>), ReadOf(<<"YT", p>>)>>
        PROVE  IsCreating(h, r)
    <2>1. /\ Create(p) \in Commands /\ ReadOf(<<"PT", p>>) \in Commands
          /\ ReadOf(<<"YT", p>>) \in Commands
      BY KeysAre, OtherCommands
    <2>2. script.todo = <<Create(p), ReadOf(<<"PT", p>>), ReadOf(<<"YT", p>>)>> \o rest
      BY <1>1, <1>5
    <2>3. h = Create(p) /\ r = <<ReadOf(<<"PT", p>>), ReadOf(<<"YT", p>>)>> \o rest
      BY <1>2, <2>1, <2>2, Ahead3
    <2> QED BY <1>5, <2>3 DEF IsCreating
  <1>6. ASSUME NEW p \in Pairs, IsSet(<<"SY", p>>), ~IsSet(<<"PT", p>>),
               f = <<ReadOf(<<"PT", p>>), ReadOf(<<"YT", p>>)>>
        PROVE  IsReadingPT(h, r)
    <2>1. ReadOf(<<"PT", p>>) \in Commands /\ ReadOf(<<"YT", p>>) \in Commands
      BY KeysAre, OtherCommands
    <2>2. script.todo = <<ReadOf(<<"PT", p>>), ReadOf(<<"YT", p>>)>> \o rest
      BY <1>1, <1>6
    <2>3. h = ReadOf(<<"PT", p>>) /\ r = <<ReadOf(<<"YT", p>>)>> \o rest
      BY <1>2, <2>1, <2>2, Ahead2
    <2> QED BY <1>6, <2>3 DEF IsReadingPT
  <1>7. ASSUME NEW p \in Pairs, IsSet(<<"SY", p>>), HasPT(p),
               f = <<ReadOf(<<"YT", p>>)>>
        PROVE  IsReadingYT(h, r)
    <2>1. ReadOf(<<"YT", p>>) \in Commands BY KeysAre, OtherCommands
    <2>2. script.todo = <<ReadOf(<<"YT", p>>)>> \o rest BY <1>1, <1>7
    <2>3. h = ReadOf(<<"YT", p>>) /\ r = rest BY <1>2, <2>1, <2>2, Ahead1
    <2> QED BY <1>7, <2>3 DEF IsReadingYT
  <1>8. ASSUME NEW p \in Pairs, IsSet(<<"PT", p>>), ~IsSet(<<"Market", p>>),
               IsSet(<<"MarketFactory", NoPair>>),
               f = <<CreateMarket(p), ReadOf(<<"Market", p>>)>>
        PROVE  IsCreatingMarket(h, r)
    <2>1. CreateMarket(p) \in Commands /\ ReadOf(<<"Market", p>>) \in Commands
      BY KeysAre, OtherCommands
    <2>2. script.todo = <<CreateMarket(p), ReadOf(<<"Market", p>>)>> \o rest
      BY <1>1, <1>8
    <2>3. h = CreateMarket(p) /\ r = <<ReadOf(<<"Market", p>>)>> \o rest
      BY <1>2, <2>1, <2>2, Ahead2
    <2> QED BY <1>8, <2>3 DEF IsCreatingMarket
  <1>9. ASSUME NEW p \in Pairs, IsSet(<<"PT", p>>), ~IsSet(<<"Market", p>>),
               f = <<ReadOf(<<"Market", p>>)>>
        PROVE  IsReadingMarket(h, r)
    <2>1. ReadOf(<<"Market", p>>) \in Commands BY KeysAre, OtherCommands
    <2>2. script.todo = <<ReadOf(<<"Market", p>>)>> \o rest BY <1>1, <1>9
    <2>3. h = ReadOf(<<"Market", p>>) /\ r = rest BY <1>2, <2>1, <2>2, Ahead1
    <2> QED BY <1>9, <2>3 DEF IsReadingMarket
  <1>10. ASSUME NEW c \in Range(Classes), NEW v \in Nat, refused \/ <<c, v>> \in declared,
                f = <<Performed(c, v)>>
         PROVE  IsPerformed(h, r)
    <2>1. Performed(c, v) \in Commands BY OtherCommands
    <2>2. script.todo = <<Performed(c, v)>> \o rest BY <1>1, <1>10
    <2>3. h = Performed(c, v) /\ r = rest BY <1>2, <2>1, <2>2, Ahead1
    <2> QED BY <1>10, <2>3 DEF IsPerformed
  <1> QED
    BY <1>1, <1>3, <1>4, <1>5, <1>6, <1>7, <1>8, <1>9, <1>10 DEF UnderWay

PlainOp == {"declarations", "expiry", "seeding", "export", "summary", "declare", "deploy",
            "invoke", "pair", "market", "seed", "check", "upgrade"}

\* A command is told by its name.
LEMMA HeadOps ==
  ASSUME NEW h, NEW r
  PROVE  /\ h \in PlainCommands => h.op \in PlainOp
         /\ IsRecording(h, r) => h.op = "record"
         /\ IsCreating(h, r) => h.op = "create"
         /\ IsReadingPT(h, r) => h.op = "read" /\ h.key[1] = "PT"
         /\ IsReadingYT(h, r) => h.op = "read" /\ h.key[1] = "YT"
         /\ IsCreatingMarket(h, r) => h.op = "create_market"
         /\ IsReadingMarket(h, r) => h.op = "read" /\ h.key[1] = "Market"
         /\ IsPerformed(h, r) => h.op = "performed"
  <1>1. h \in PlainCommands => h.op \in PlainOp BY PlainOps DEF PlainOp
  <1>2. IsRecording(h, r) => h.op = "record" BY DEF IsRecording, Record
  <1>3. IsCreating(h, r) => h.op = "create" BY DEF IsCreating, Create
  <1>4. IsReadingPT(h, r) => h.op = "read" /\ h.key[1] = "PT" BY DEF IsReadingPT, ReadOf
  <1>5. IsReadingYT(h, r) => h.op = "read" /\ h.key[1] = "YT" BY DEF IsReadingYT, ReadOf
  <1>6. IsCreatingMarket(h, r) => h.op = "create_market" BY DEF IsCreatingMarket, CreateMarket
  <1>7. IsReadingMarket(h, r) => h.op = "read" /\ h.key[1] = "Market"
    BY DEF IsReadingMarket, ReadOf
  <1>8. IsPerformed(h, r) => h.op = "performed" BY DEF IsPerformed, Performed
  <1> QED BY <1>1, <1>2, <1>3, <1>4, <1>5, <1>6, <1>7, <1>8

\* A command of the text has only commands of the text behind it.
LEMMA PlainHead ==
  ASSUME Shape, NEW op \in PlainOp, Doing(op)
  PROVE  /\ script.todo # <<>> /\ This.op = op
         /\ This \in PlainCommands /\ Tail(script.todo) \in Seq(PlainCommands)
  <1>1. op \notin {"record", "create", "read", "create_market", "performed"} BY DEF PlainOp
  <1>2. This.op = op /\ script.todo # <<>> BY DEF Doing, This
  <1> QED BY <1>1, <1>2, Heads, HeadOps DEF This

\* A command that is not of the text says which step is under way.
LEMMA OtherHead ==
  ASSUME Shape, NEW op, Doing(op)
  PROVE  LET r == Tail(script.todo) IN
         /\ script.todo # <<>> /\ This.op = op
         /\ op = "record" => IsRecording(This, r)
         /\ op = "create" => IsCreating(This, r)
         /\ op = "create_market" => IsCreatingMarket(This, r)
         /\ op = "read" =>
              IsReadingPT(This, r) \/ IsReadingYT(This, r) \/ IsReadingMarket(This, r)
         /\ op = "performed" => IsPerformed(This, r)
  <1>1. This.op = op /\ script.todo # <<>> BY DEF Doing, This
  <1>2. \A x \in {"record", "create", "read", "create_market", "performed"} : x \notin PlainOp
    BY DEF PlainOp
  <1> QED BY <1>1, <1>2, Heads, HeadOps DEF This

-----------------------------------------------------------------------------
(* Steps of the shell *)

LEMMA NothingIs ==
  /\ Nothing \in Names /\ Idle \in Scripts
  /\ \A k \in Keys : Nothing.address[k] = 0
  /\ \A c \in Range(Classes) : Nothing.hash[c] = 0
  /\ Idle.name = "none" /\ Idle.todo = <<>>
  BY DEF Nothing, Names, Idle, Scripts

\* The script goes on, with more to do.
LEMMA Continues ==
  ASSUME DeployTypeOK, script.todo # <<>>, NEW more \in Seq(Commands), Continue(more)
  PROVE  /\ script' \in Scripts /\ script'.todo = more \o Tail(script.todo)
         /\ script'.name = script.name /\ ended' = ended
  <1>1. script \in Scripts /\ script.todo \in Seq(Commands) BY DEF DeployTypeOK, Scripts
  <1>2. Tail(script.todo) \in Seq(Commands) BY <1>1, Splits
  <1>3. more \o Tail(script.todo) \in Seq(Commands) BY <1>2, ConcatProperties
  <1>4. script' = [script EXCEPT !.todo = more \o Tail(script.todo)] /\ ended' = ended
    BY DEF Continue
  <1> DEFINE t == more \o Tail(script.todo)
  <1> HIDE DEF t
  <1>5. script' = [script EXCEPT !.todo = t] /\ t \in Seq(Commands) BY <1>3, <1>4 DEF t
  <1>6. script' \in Scripts /\ script'.todo = t /\ script'.name = script.name
    BY <1>1, <1>5 DEF Scripts
  <1> QED BY <1>4, <1>6 DEF t

\* The script goes on.
LEMMA Moves ==
  ASSUME DeployTypeOK, script.todo # <<>>, Continue(<<>>)
  PROVE  /\ script' \in Scripts /\ script'.todo = Tail(script.todo)
         /\ script'.name = script.name /\ ended' = ended
  <1>1. Tail(script.todo) \in Seq(Commands) BY Splits DEF DeployTypeOK, Scripts
  <1>2. <<>> \o Tail(script.todo) = Tail(script.todo) BY <1>1, ConcatEmptySeq
  <1>3. <<>> \in Seq(Commands) OBVIOUS
  <1> QED BY <1>2, <1>3, Continues

\* The script ends.
LEMMA Stops ==
  ASSUME NEW how, Stop(how)
  PROVE  /\ script' \in Scripts /\ script'.todo = <<>> /\ script'.name = "none"
         /\ sh' \in Names /\ ended' = how
  BY NothingIs DEF Stop

\* The commands put in front are of the text, or a step under way.
LEMMA ShapeNext ==
  ASSUME NEW r \in Seq(PlainCommands), NEW more \in Seq(Commands), script'.todo = more \o r,
         more \in Seq(PlainCommands) \/ UnderWay(more)'
  PROVE  Shape'
  <1>1. CASE more \in Seq(PlainCommands)
    <2>1. script'.todo \in Seq(PlainCommands) BY <1>1, ConcatProperties
    <2>2. script'.todo = <<>> \o script'.todo BY <2>1, ConcatEmptySeq
    <2>3. UnderWay(<<>>)' /\ <<>> \in Seq(Commands) BY DEF UnderWay
    <2> QED BY <2>1, <2>2, <2>3 DEF Shape
  <1>2. CASE UnderWay(more)' BY <1>2 DEF Shape
  <1> QED BY <1>1, <1>2

LEMMA ShapeMoves ==
  ASSUME script'.todo \in Seq(PlainCommands)
  PROVE  Shape'
  <1>1. script'.todo = <<>> \o script'.todo BY ConcatEmptySeq
  <1>2. UnderWay(<<>>)' /\ <<>> \in Seq(Commands) BY DEF UnderWay
  <1> QED BY <1>1, <1>2 DEF Shape

\* The commands put in front give what the one they replace gave.
LEMMA OrderNext ==
  ASSUME DeployTypeOK, DeployTypeOK', InOrder, script.todo # <<>>, disturbed => disturbed',
         NEW more \in Seq(Commands), script'.todo = more \o Tail(script.todo),
         OrderedFrom(more, Recorded', disturbed'),
         \A k \in Recorded \cup Gives(This) :
           \/ k \in Recorded'
           \/ \E j \in 1..Len(more) : k \in Gives(more[j])
           \/ disturbed' /\ k[1] \in {"PT", "YT", "Market"}
  PROVE  InOrder'
  <1> DEFINE r == Tail(script.todo)
             given == Recorded \cup Gives(This)
             later == Recorded' \cup {k \in given : \E j \in 1..Len(more) : k \in Gives(more[j])}
  <1>1. r \in Seq(Commands) /\ This \in Commands /\ script.todo = <<This>> \o r
    BY Splits DEF DeployTypeOK, Scripts, This
  <1>2. OrderedFrom(r, given, disturbed)
    BY <1>1, OrderedTail DEF InOrder
  <1>3. \A k \in given : k \in later \/ (disturbed' /\ k[1] \in {"PT", "YT", "Market"})
    OBVIOUS
  <1>4. disturbed \in BOOLEAN /\ disturbed' \in BOOLEAN BY DEF DeployTypeOK
  <1>5. \A k \in later : k \in Recorded' \/ \E j \in 1..Len(more) : k \in Gives(more[j])
    OBVIOUS
  <1> HIDE DEF r, given, later
  <1>6. OrderedFrom(r, later, disturbed')
    BY <1>1, <1>2, <1>3, <1>4, OrderedWeaker
  <1>7. OrderedFrom(more \o r, Recorded', disturbed')
    BY <1>1, <1>5, <1>6, OrderedConcat
  <1> QED BY <1>7 DEF InOrder, r

\* A command that is done gave what it gives.
LEMMA OrderMoves ==
  ASSUME DeployTypeOK, DeployTypeOK', InOrder, script.todo # <<>>, disturbed => disturbed',
         script'.todo = Tail(script.todo),
         \A k \in Recorded \cup Gives(This) :
           k \in Recorded' \/ (disturbed' /\ k[1] \in {"PT", "YT", "Market"})
  PROVE  InOrder'
  <1>1. Tail(script.todo) \in Seq(Commands) BY Splits DEF DeployTypeOK, Scripts
  <1>2. <<>> \o Tail(script.todo) = Tail(script.todo) BY <1>1, ConcatEmptySeq
  <1>3. <<>> \in Seq(Commands) OBVIOUS
  <1>4. OrderedFrom(<<>>, Recorded', disturbed') BY DEF OrderedFrom
  <1> QED BY <1>2, <1>3, <1>4, OrderNext

LEMMA OrderEmpty ==
  ASSUME script'.todo = <<>>
  PROVE  InOrder' /\ Shape'
  <1>1. <<>> \in Seq(PlainCommands) OBVIOUS
  <1>2. InOrder' BY DEF InOrder, OrderedFrom
  <1> QED BY <1>1, <1>2, ShapeMoves

-----------------------------------------------------------------------------
(* Steps that leave the contracts and the addresses alone *)

\* Nothing is awaited: the command under way neither records nor reads.
Settled == script.todo = <<>> \/ This.op \notin {"record", "read"}

\* An upgrade changes nothing by which the factories and .env know a contract.
SameContracts ==
  /\ DOMAIN contracts' = DOMAIN contracts
  /\ \A i \in DOMAIN contracts :
       /\ contracts'[i].kind = contracts[i].kind
       /\ contracts'[i].of = contracts[i].of
       /\ contracts'[i].expiry = contracts[i].expiry

LEMMA SameIsSame == contracts' = contracts => SameContracts
  BY DEF SameContracts

\* What is on the chain stays there.
Kept ==
  \A i \in DOMAIN contracts :
    /\ i \in DOMAIN contracts'
    /\ contracts'[i].kind = contracts[i].kind
    /\ contracts'[i].of = contracts[i].of
    /\ contracts'[i].expiry = contracts[i].expiry

LEMMA SameIsKept == SameContracts => Kept
  BY DEF SameContracts, Kept

\* The contract that a name stands for, where it is not misread, is there.
LEMMA NamedIsThere ==
  ASSUME NEW names, Complete(names), NEW p \in Pairs, NEW c \in {"PT", "YT"},
         <<c, p>> \notin misread.address, names.address[<<c, p>>] # 0
  PROVE  names.address[<<c, p>>] \in DOMAIN contracts
  <1>1. <<c, p>> \in Keys BY KeysAre
  <1> QED BY <1>1 DEF Complete

\* A step that records no address keeps what is known.
LEMMA SameNames ==
  ASSUME Kept, misread.address \subseteq misread'.address,
         NEW names, Complete(names), Paired(names), NEW new, new.address = names.address
  PROVE  /\ \A k \in Keys \ misread'.address : new.address[k] # 0 =>
              /\ new.address[k] \in DOMAIN contracts'
              /\ contracts'[new.address[k]].kind = k[1]
              /\ contracts'[new.address[k]].of = {new.address[link] : link \in LinksOf(k)}
              /\ \A link \in LinksOf(k) : new.address[link] # 0
         /\ \A p \in Pairs :
              <<"PT", p>> \notin misread'.address /\ new.address[<<"YT", p>>] # 0 =>
                /\ new.address[<<"PT", p>>] # 0
                /\ <<"YT", p>> \notin misread'.address =>
                     contracts'[new.address[<<"PT", p>>]].expiry
                       = contracts'[new.address[<<"YT", p>>]].expiry
  <1>1. ASSUME NEW k \in Keys \ misread'.address, new.address[k] # 0
        PROVE  /\ new.address[k] \in DOMAIN contracts'
               /\ contracts'[new.address[k]].kind = k[1]
               /\ contracts'[new.address[k]].of = {new.address[link] : link \in LinksOf(k)}
               /\ \A link \in LinksOf(k) : new.address[link] # 0
    <2>1. k \in Keys \ misread.address BY <1>1
    <2> QED BY <1>1, <2>1 DEF Complete, Kept
  <1>2. ASSUME NEW p \in Pairs, <<"PT", p>> \notin misread'.address,
               new.address[<<"YT", p>>] # 0
        PROVE  /\ new.address[<<"PT", p>>] # 0
               /\ <<"YT", p>> \notin misread'.address =>
                    contracts'[new.address[<<"PT", p>>]].expiry
                      = contracts'[new.address[<<"YT", p>>]].expiry
    <2>1. <<"PT", p>> \notin misread.address BY <1>2
    <2>2. names.address[<<"PT", p>>] # 0 BY <1>2, <2>1 DEF Paired
    <2>3. names.address[<<"PT", p>>] \in DOMAIN contracts BY <2>1, <2>2, NamedIsThere
    <2>4. ASSUME <<"YT", p>> \notin misread'.address
          PROVE  contracts'[new.address[<<"PT", p>>]].expiry
                   = contracts'[new.address[<<"YT", p>>]].expiry
      <3>1. <<"YT", p>> \notin misread.address BY <2>4
      <3>2. names.address[<<"YT", p>>] \in DOMAIN contracts BY <1>2, <3>1, NamedIsThere
      <3>3. contracts[names.address[<<"PT", p>>]].expiry
              = contracts[names.address[<<"YT", p>>]].expiry
        BY <1>2, <2>1, <3>1 DEF Paired
      <3> QED BY <2>3, <3>2, <3>3 DEF Kept
    <2> QED BY <2>2, <2>4
  <1> QED BY <1>1, <1>2

\* So .env does, when no contract is made either.
LEMMA SameData ==
  ASSUME DeployTypeOK, Complete(env), Paired(env), Unique, Twins, SameContracts,
         env'.address = env.address, misread.address \subseteq misread'.address
  PROVE  /\ Complete(env)' /\ Paired(env)' /\ Unique' /\ Twins'
         /\ Recorded' = Recorded /\ \A k : IsSet(k)' <=> IsSet(k)
  <1>1. Complete(env)' /\ Paired(env)'
    <2>1. PICK new : new = env' OBVIOUS
    <2> QED BY <2>1, SameNames, SameIsKept DEF Complete, Paired
  <1>2. Unique' BY DEF Unique, SameContracts
  <1>3. Twins' BY DEF Twins, SameContracts
  <1>4. Recorded' = Recorded /\ \A k : IsSet(k)' <=> IsSet(k) BY DEF Recorded, IsSet
  <1> QED BY <1>1, <1>2, <1>3, <1>4

\* And the export, when it is kept, or deleted.
LEMMA SameExport ==
  ASSUME Exported, SameContracts, disturbed => disturbed',
         \/ json' = json /\ misread.address \subseteq misread'.address
         \/ json' = Nothing
  PROVE  Exported'
  <1>1. Complete(json)' /\ Paired(json)'
    <2>1. CASE json' = json /\ misread.address \subseteq misread'.address
      <3>1. Complete(json) /\ Paired(json) BY DEF Exported
      <3>2. PICK new : new = json' OBVIOUS
      <3> QED BY <2>1, <3>1, <3>2, SameNames, SameIsKept, SMTT(30) DEF Complete, Paired
    <2>2. CASE json' = Nothing
      <3>1. \A p \in Pairs : <<"YT", p>> \in Keys BY KeysAre
      <3> QED BY <2>2, <3>1, NothingIs DEF Complete, Paired
    <2> QED BY <2>1, <2>2
  <1>2. (json # Nothing /\ ~disturbed => \A k \in Keys : json.address[k] # 0)'
    BY DEF Exported
  <1> QED BY <1>1, <1>2 DEF Exported

\* A pair is whole after a step that neither records nor reads, as it was before.
LEMMA SettledPairs ==
  ASSUME PairsWhole, Settled, disturbed => disturbed', misread'.address = misread.address,
         \A p \in Pairs : \A c \in {"PT", "YT"} : IsSet(<<c, p>>)' <=> IsSet(<<c, p>>)
  PROVE  PairsWhole'
  <1>1. script.todo = <<>> \/ \A k : Head(script.todo) # ReadOf(k)
    BY DEF Settled, This, ReadOf
  <1>2. ASSUME ~disturbed', NEW p \in Pairs
        PROVE  IsSet(<<"PT", p>>)' => IsSet(<<"YT", p>>)'
    BY <1>1, <1>2 DEF PairsWhole
  <1> QED BY <1>2 DEF PairsWhole

\* After such a step nothing is awaited that was not before.
LEMMA SettledData ==
  ASSUME PairsWhole, Accounted, Settled, SameContracts, env'.address = env.address,
         disturbed => disturbed', misread'.address = misread.address
  PROVE  PairsWhole' /\ Accounted'
  <1>1. Awaited = {} BY DEF Settled, Awaited, This
  <1>2. Accounted' BY <1>1 DEF Accounted, SameContracts
  <1>3. \A k : IsSet(k)' <=> IsSet(k) BY DEF IsSet
  <1> QED BY <1>2, <1>3, SettledPairs

\* A disturbed run is excused.
LEMMA DisturbedData ==
  ASSUME disturbed'
  PROVE  PairsWhole' /\ Accounted'
  BY DEF PairsWhole, Accounted

LEMMA SameHashes ==
  ASSUME HashesDeclared, env'.hash = env.hash, declared \subseteq declared',
         refused => refused', misread.hash \subseteq misread'.hash
  PROVE  HashesDeclared'
  BY DEF HashesDeclared

LEMMA PlainIsSettled ==
  ASSUME Shape, NEW op, Doing(op), op \notin {"record", "read"}
  PROVE  Settled
  BY DEF Doing, Settled, This

-----------------------------------------------------------------------------
(* One action at a time *)

\* A step that ends the script, and records nothing.
LEMMA StopStep ==
  ASSUME DeployInv, NEW how \in {"well", "stopped", "broken"}, Stop(how),
         UNCHANGED <<env, contracts, declared, source, runs, misread, refused>>,
         json' \in Names, Exported',
         disturbed' = TRUE \/ (disturbed' = disturbed /\ Settled)
  PROVE  DeployInv'
  <1> USE DEF DeployInv
  <1>1. script' \in Scripts /\ script'.todo = <<>> /\ script'.name = "none"
        /\ sh' \in Names /\ ended' = how
    BY Stops
  <1>2. DeployTypeOK' BY <1>1 DEF DeployTypeOK
  <1>3. ShellAgrees' BY <1>1 DEF ShellAgrees
  <1>4. InOrder' /\ Shape' BY <1>1, OrderEmpty
  <1>5. Complete(env)' /\ Paired(env)' /\ Unique' /\ Twins' BY SameData, SameIsSame
  <1>6. PairsWhole' /\ Accounted'
    <2>1. CASE disturbed' = TRUE BY <2>1, DisturbedData
    <2>2. CASE disturbed' = disturbed /\ Settled BY <2>2, SettledData, SameIsSame
    <2> QED BY <2>1, <2>2
  <1>7. HashesDeclared' BY SameHashes
  <1> QED BY <1>2, <1>3, <1>4, <1>5, <1>6, <1>7

LEMMA FailsStep == ASSUME DeployInv, Fails PROVE DeployInv'
  <1>1. PICK op \in {"declare", "deploy", "create", "create_market", "invoke", "check"} : Doing(op)
    BY DEF Fails
  <1>2. Settled BY <1>1, PlainIsSettled DEF DeployInv
  <1>3. Exported' BY SameExport, SameIsSame DEF DeployInv, Fails
  <1>4. json' \in Names BY DEF DeployInv, DeployTypeOK, Fails
  <1> QED BY <1>2, <1>3, <1>4, StopStep DEF Fails

LEMMA InterruptStep == ASSUME DeployInv, Interrupt PROVE DeployInv'
  <1>1. Exported' BY SameExport, SameIsSame DEF DeployInv, Interrupt
  <1>2. json' \in Names BY DEF DeployInv, DeployTypeOK, Interrupt
  <1> QED BY <1>1, <1>2, StopStep DEF Interrupt

LEMMA EditStep == ASSUME DeployInv, Edit PROVE DeployInv'
  <1> USE DEF DeployInv, Edit
  <1>1. script.todo = <<>> BY DEF ShellAgrees
  <1>2. Settled BY <1>1 DEF Settled
  <1>3. DeployTypeOK' BY DEF DeployTypeOK
  <1>4. ShellAgrees' BY DEF ShellAgrees
  <1>5. InOrder' /\ Shape' BY <1>1, OrderEmpty
  <1>6. Complete(env)' /\ Paired(env)' /\ Unique' /\ Twins' BY SameData, SameIsSame
  <1>7. Exported' BY SameExport, SameIsSame
  <1>8. PairsWhole' /\ Accounted' BY <1>2, SettledData, SameIsSame
  <1>9. HashesDeclared' BY SameHashes
  <1> QED BY <1>3, <1>4, <1>5, <1>6, <1>7, <1>8, <1>9

LEMMA ResetEnvStep == ASSUME DeployInv, ResetEnv PROVE DeployInv'
  <1> USE DEF DeployInv
  <1>1. script.todo = <<>> BY DEF ShellAgrees, ResetEnv
  <1>2. /\ \A k \in ResetKeys : k \in Keys /\ env'.address[k] = 0
        /\ \A k \in Keys \ ResetKeys : env'.address[k] = env.address[k]
        /\ env' \in Names
    BY DEF ResetEnv, DeployTypeOK, Names, ResetKeys
  <1>3. \A c \in Range(Classes) :
          env'.hash[c] = IF c \in ResetClasses THEN 0 ELSE env.hash[c]
    BY DEF ResetEnv, DeployTypeOK, Names
  <1>m. /\ misread'.address = misread.address \ ResetKeys
        /\ misread'.hash = misread.hash \ ResetClasses
        /\ misread.address \subseteq AskedKeys
    BY DEF ResetEnv, DeployTypeOK
  <1>4. DeployTypeOK'
    <2>1. json' \in Names BY NothingIs DEF ResetEnv
    <2>2. runs' \in Nat /\ disturbed' \in BOOLEAN BY DEF ResetEnv, DeployTypeOK
    <2>3. misread' \in [address : SUBSET AskedKeys, hash : SUBSET Range(Classes)]
      BY DEF ResetEnv, DeployTypeOK
    <2> QED BY <1>2, <2>1, <2>2, <2>3 DEF ResetEnv, DeployTypeOK
  <1>5. ShellAgrees' BY DEF ResetEnv, ShellAgrees
  <1>6. InOrder' /\ Shape' BY <1>1, OrderEmpty DEF ResetEnv
  <1>7. Complete(env)'
    <2> SUFFICES ASSUME NEW k \in Keys, env'.address[k] # 0
                 PROVE  /\ env'.address[k] \in DOMAIN contracts
                        /\ contracts[env'.address[k]].kind = k[1]
                        /\ contracts[env'.address[k]].of =
                             {env'.address[link] : link \in LinksOf(k)}
                        /\ \A link \in LinksOf(k) : env'.address[link] # 0
      BY DEF ResetEnv, Complete
    <2>1. k \notin ResetKeys /\ env'.address[k] = env.address[k] BY <1>2
    <2>2. k[1] \in {"RouterStatic", "PyLpOracle"} BY <2>1 DEF ResetKeys
    <2>3. LinksOf(k) = {} BY <2>2, LinksAre
    <2>4. k \notin misread.address BY <1>m, <2>2 DEF AskedKeys
    <2> QED BY <2>1, <2>3, <2>4 DEF Complete
  <1>8. Exported' BY SameExport, SameIsSame DEF ResetEnv
  <1>9. Unique' /\ Twins'
    <2>1. contracts' = contracts BY DEF ResetEnv
    <2> QED BY <2>1 DEF Unique, Twins
  <1>10. PairsWhole' /\ Accounted' BY DisturbedData DEF ResetEnv
  <1>11. HashesDeclared'
    <2>1. declared' = declared /\ refused' = refused BY DEF ResetEnv
    <2> QED BY <1>3, <1>m, <2>1 DEF HashesDeclared
  <1>12. Paired(env)'
    <2>1. \A p \in Pairs : <<"YT", p>> \in ResetKeys BY KeysAre DEF ResetKeys
    <2> QED BY <1>2, <2>1 DEF Paired
  <1> QED BY <1>4, <1>5, <1>6, <1>7, <1>8, <1>9, <1>10, <1>11, <1>12

\* A step that replaces its command by others of the text and records no
\* address and makes no contract.
LEMMA ContinueStep ==
  ASSUME DeployInv, NEW op \in PlainOp, Doing(op), NEW more \in Seq(Commands),
         script' \in Scripts, script'.name = script.name,
         script'.todo = more \o Tail(script.todo), ended' = ended,
         env' \in Names, sh' \in Names, env'.address = env.address, sh'.address = sh.address,
         env'.expiry = sh'.expiry, declared' \subseteq Range(Classes) \X Nat,
         contracts' \in Seq(AnyContract), SameContracts,
         misread' \in [address : SUBSET AskedKeys, hash : SUBSET Range(Classes)],
         misread'.address = misread.address,
         UNCHANGED <<source, runs, json, disturbed>>, refused' \in BOOLEAN,
         refused => refused', HashesDeclared',
         more \in Seq(PlainCommands) \/ UnderWay(more)',
         OrderedFrom(more, Recorded, disturbed),
         \A k \in Gives(This) :
           \/ k \in Recorded
           \/ disturbed /\ k[1] \in {"PT", "YT", "Market"}
           \/ \E j \in 1..Len(more) : k \in Gives(more[j])
  PROVE  DeployInv'
  <1> USE DEF DeployInv
  <1>1. script.todo # <<>> /\ This \in PlainCommands /\ Tail(script.todo) \in Seq(PlainCommands)
        /\ This.op = op
    BY PlainHead
  <1>2. Settled BY <1>1 DEF Settled, PlainOp
  <1>3. DeployTypeOK' BY DEF DeployTypeOK
  <1>4. script.name # "none" BY <1>1 DEF ShellAgrees
  <1>5. ShellAgrees' BY <1>4 DEF ShellAgrees
  <1>6. Shape' BY <1>1, ShapeNext
  <1>7. Complete(env)' /\ Paired(env)' /\ Unique' /\ Twins' /\ Recorded' = Recorded BY SameData
  <1>8. InOrder' BY <1>1, <1>3, <1>7, OrderNext
  <1>9. Exported' BY SameExport
  <1>10. PairsWhole' /\ Accounted' BY <1>2, SettledData
  <1> QED BY <1>3, <1>5, <1>6, <1>7, <1>8, <1>9, <1>10

\* The same, without other commands.
LEMMA MoveStep ==
  ASSUME DeployInv, NEW op \in PlainOp, Doing(op), Continue(<<>>),
         env' \in Names, sh' \in Names, env'.address = env.address, sh'.address = sh.address,
         env'.expiry = sh'.expiry, declared' \subseteq Range(Classes) \X Nat,
         misread' \in [address : SUBSET AskedKeys, hash : SUBSET Range(Classes)],
         misread'.address = misread.address,
         UNCHANGED <<contracts, source, runs, json, disturbed, refused>>, HashesDeclared',
         \A k \in Gives(This) :
           k \in Recorded \/ (disturbed /\ k[1] \in {"PT", "YT", "Market"})
  PROVE  DeployInv'
  <1>1. <<>> \in Seq(Commands) /\ <<>> \in Seq(PlainCommands) OBVIOUS
  <1>2. script.todo # <<>> BY PlainHead DEF DeployInv
  <1>3. /\ script' \in Scripts /\ script'.todo = <<>> \o Tail(script.todo)
        /\ script'.name = script.name /\ ended' = ended
    BY <1>1, <1>2, Continues DEF DeployInv
  <1>4. OrderedFrom(<<>>, Recorded, disturbed) BY DEF OrderedFrom
  <1>5. contracts' \in Seq(AnyContract) /\ refused' \in BOOLEAN
    BY DEF DeployInv, DeployTypeOK
  <1> QED BY <1>1, <1>3, <1>4, <1>5, ContinueStep, SameIsSame

\* A running script: its variables are those of .env, and what it needs is set.
LEMMA Running ==
  ASSUME DeployInv, script.todo # <<>>
  PROVE  /\ script.name # "none" /\ sh.address = env.address /\ sh.expiry = env.expiry
         /\ Needs(This, disturbed) \subseteq Recorded
         /\ env \in Names /\ sh \in Names /\ disturbed \in BOOLEAN
  <1>1. script.name # "none" /\ sh.address = env.address /\ sh.expiry = env.expiry
    BY DEF DeployInv, ShellAgrees
  <1>2. This \in Commands /\ Tail(script.todo) \in Seq(Commands)
        /\ script.todo = <<This>> \o Tail(script.todo)
    BY Splits DEF DeployInv, DeployTypeOK, Scripts, This
  <1>3. OrderedFrom(<<This>> \o Tail(script.todo), Recorded, disturbed)
    BY <1>2 DEF DeployInv, InOrder
  <1>4. Needs(This, disturbed) \subseteq Recorded BY <1>2, <1>3, OrderedTail
  <1> QED BY <1>1, <1>4 DEF DeployInv, DeployTypeOK

LEMMA DoingSome == ASSUME NEW op, Doing(op) PROVE script.todo # <<>> /\ This.op = op
  BY DEF Doing, This

LEMMA DeclareStep == ASSUME DeployInv, declare_class PROVE DeployInv'
  <1>1. "declare" \in PlainOp /\ Doing("declare") BY DEF PlainOp, declare_class
  <1>2. script.todo # <<>> /\ This.op = "declare" /\ This \in PlainCommands
    BY <1>1, PlainHead DEF DeployInv
  <1>3. PICK c \in Range(Classes) : c = This.class BY <1>2, PlainOps
  <1>4. Gives(This) = {} BY <1>2 DEF Gives
  <1>5. /\ source \in Nat /\ declared \subseteq Range(Classes) \X Nat
        /\ misread \in [address : SUBSET AskedKeys, hash : SUBSET Range(Classes)]
    BY DEF DeployInv, DeployTypeOK
  <1>6. PICK hash \in Nat :
          /\ Found(c, hash) /\ declared' \in {declared, declared \cup {<<c, source>>}}
          /\ \/ /\ hash = source /\ <<c, source>> \in declared'
                /\ misread' = [misread EXCEPT !.hash = @ \ {c}]
             \/ misread' = [misread EXCEPT !.hash = @ \cup {c}]
    BY <1>3, <1>5, DeployAssumption DEF declare_class
  <1>7. /\ env' \in Names /\ sh' \in Names /\ env'.address = env.address
        /\ sh'.address = sh.address /\ env'.expiry = sh'.expiry
        /\ \A x \in Range(Classes) : env'.hash[x] = IF x = c THEN hash ELSE env.hash[x]
    BY <1>2, <1>6, Running DEF Names, Found
  <1>8. declared' \subseteq Range(Classes) \X Nat /\ declared \subseteq declared'
    BY <1>5, <1>6
  <1>9. /\ misread' \in [address : SUBSET AskedKeys, hash : SUBSET Range(Classes)]
        /\ misread'.address = misread.address
        /\ \/ misread'.hash = misread.hash \ {c} /\ hash = source /\ <<c, source>> \in declared'
           \/ misread'.hash = misread.hash \cup {c}
    BY <1>5, <1>6
  <1>10. UNCHANGED <<contracts, source, runs, json, disturbed, refused>> BY DEF declare_class
  <1>11. HashesDeclared' BY <1>7, <1>8, <1>9, <1>10 DEF DeployInv, HashesDeclared
  <1>12. Continue(<<>>) BY <1>6 DEF Found
  <1> QED BY <1>1, <1>4, <1>7, <1>8, <1>9, <1>10, <1>11, <1>12, MoveStep

LEMMA ExpiryStep == ASSUME DeployInv, set_expiry PROVE DeployInv'
  <1> USE DEF set_expiry
  <1>1. "expiry" \in PlainOp BY DEF PlainOp
  <1>2. script.todo # <<>> /\ This.op = "expiry" BY DoingSome
  <1>3. Gives(This) = {} BY <1>2 DEF Gives
  <1>4. runs \in Nat BY DEF DeployInv, DeployTypeOK
  <1>5. /\ env' \in Names /\ sh' \in Names /\ env'.address = env.address
        /\ sh'.address = sh.address /\ env'.expiry = sh'.expiry /\ env'.hash = env.hash
    BY <1>2, <1>4, Running DEF Names
  <1>6. /\ declared' \subseteq Range(Classes) \X Nat
        /\ misread' \in [address : SUBSET AskedKeys, hash : SUBSET Range(Classes)]
    BY DEF DeployInv, DeployTypeOK
  <1>7. HashesDeclared' BY <1>5, SameHashes DEF DeployInv
  <1> QED BY <1>1, <1>3, <1>5, <1>6, <1>7, MoveStep

\* A step that passes on to the next command and changes nothing else.
LEMMA PassStep ==
  ASSUME DeployInv, NEW op \in PlainOp, Doing(op), Continue(<<>>),
         UNCHANGED <<env, sh, contracts, source, runs, json, disturbed, misread, refused>>,
         declared \subseteq declared', declared' \subseteq Range(Classes) \X Nat,
         \A k \in Gives(This) :
           k \in Recorded \/ (disturbed /\ k[1] \in {"PT", "YT", "Market"})
  PROVE  DeployInv'
  <1>1. script.todo # <<>> BY DoingSome
  <1>2. HashesDeclared' BY SameHashes DEF DeployInv
  <1>3. misread' \in [address : SUBSET AskedKeys, hash : SUBSET Range(Classes)]
    BY DEF DeployInv, DeployTypeOK
  <1> QED BY <1>1, <1>2, <1>3, Running, MoveStep

LEMMA InvokeStep == ASSUME DeployInv, invoke_contract PROVE DeployInv'
  <1> USE DEF invoke_contract
  <1>1. "invoke" \in PlainOp BY DEF PlainOp
  <1>2. script.todo # <<>> /\ This.op = "invoke" BY DoingSome
  <1>3. Gives(This) = {} BY <1>2 DEF Gives
  <1>4. CASE Continue(<<>>) /\ UNCHANGED sh
    <2>1. declared' = declared /\ declared \subseteq Range(Classes) \X Nat
      BY DEF DeployInv, DeployTypeOK
    <2> QED BY <1>1, <1>3, <1>4, <2>1, PassStep
  <1>5. CASE Stop("broken")
    <2>1. Settled BY <1>2 DEF Settled
    <2>2. Exported' BY SameExport, SameIsSame DEF DeployInv
    <2>3. json' \in Names BY DEF DeployInv, DeployTypeOK
    <2> QED BY <1>5, <2>1, <2>2, <2>3, StopStep
  <1> QED BY <1>4, <1>5

LEMMA ExportStep == ASSUME DeployInv, export_addresses PROVE DeployInv'
  <1> USE DEF export_addresses
  <1>1. script.todo # <<>> /\ This.op = "export" BY DoingSome
  <1>2. Settled BY <1>1 DEF Settled
  <1>3. json' \in Names /\ json'.address = env.address BY <1>1, Running
  <1>4. Exported'
    <2>1. Complete(json)' /\ Paired(json)' BY <1>3 DEF DeployInv, Complete, Paired
    <2>2. ASSUME ~disturbed PROVE \A k \in Keys : env.address[k] # 0
      <3>1. Needs(This, disturbed) = Keys BY <1>1, <2>2 DEF Needs
      <3> QED BY <1>1, <3>1, Running DEF Recorded
    <2> QED BY <1>3, <2>1, <2>2 DEF Exported
  <1> QED BY <1>2, <1>3, <1>4, StopStep

LEMMA SummaryStep == ASSUME DeployInv, summary PROVE DeployInv'
  <1> USE DEF summary
  <1>1. Settled BY DoingSome DEF Settled
  <1>2. Exported' BY SameExport, SameIsSame DEF DeployInv
  <1>3. json' \in Names BY DEF DeployInv, DeployTypeOK
  <1> QED BY <1>1, <1>2, <1>3, StopStep

\* Every pair comes up once or more in the order of the scripts.
LEMMA PairsListed ==
  /\ SetToSeq(Pairs) \in Seq(Pairs)
  /\ \A p \in Pairs : \E i \in 1..Len(SetToSeq(Pairs)) : SetToSeq(Pairs)[i] = p
  <1> DEFINE n == Cardinality(Pairs)
             ps == SetToSeq(Pairs)
  <1>1. IsFiniteSet(Pairs) BY DeployAssumption
  <1>2. n \in Nat /\ ExistsBijection(1..n, Pairs) BY <1>1, FS_CardinalityType
  <1>3. \E f \in [1..n -> Pairs] : IsInjective(f)
    BY <1>2 DEF ExistsBijection, Bijection, Injection
  <1>4. ps \in [1..n -> Pairs] /\ IsInjective(ps)
    BY <1>3 DEF SetToSeq
  <1>5. ps \in Seq(Pairs) /\ Len(ps) = n BY <1>2, <1>4
  <1>6. ps \in Injection(1..n, Pairs) BY <1>4 DEF Injection
  <1>7. Cardinality(1..n) = n BY <1>2, FS_Interval
  <1>8. ps \in Surjection(1..n, Pairs)
    <2> HIDE DEF ps
    <2>1. (Cardinality(1..n) = Cardinality(Pairs)) <=> ps \in Surjection(1..n, Pairs)
      BY <1>1, <1>6, FS_Injection
    <2> QED BY <1>7, <2>1
  <1>9. \A p \in Pairs : \E i \in 1..n : ps[i] = p BY <1>8 DEF Surjection
  <1> QED BY <1>5, <1>9

\* Commands that need nothing are in order anywhere.
LEMMA NeedNothing ==
  ASSUME NEW s, NEW given, NEW d, \A i \in DOMAIN s : Needs(s[i], d) = {}
  PROVE  OrderedFrom(s, given, d)
  BY DEF OrderedFrom

\* A step that puts other commands in its place, and may upgrade an instance.
LEMMA EffectStep ==
  ASSUME DeployInv, NEW op \in PlainOp, Doing(op), NEW more \in Seq(Commands), Continue(more),
         UNCHANGED <<env, sh, source, runs, json, disturbed, misread>>,
         contracts' \in Seq(AnyContract), SameContracts,
         declared \subseteq declared', declared' \subseteq Range(Classes) \X Nat,
         refused' \in BOOLEAN, refused => refused',
         more \in Seq(PlainCommands) \/ UnderWay(more)',
         \A i \in DOMAIN more : Needs(more[i], disturbed) = {},
         \A k \in Gives(This) :
           \/ k \in Recorded
           \/ disturbed /\ k[1] \in {"PT", "YT", "Market"}
           \/ \E j \in 1..Len(more) : k \in Gives(more[j])
  PROVE  DeployInv'
  <1>1. script.todo # <<>> BY DoingSome
  <1>2. /\ script' \in Scripts /\ script'.todo = more \o Tail(script.todo)
        /\ script'.name = script.name /\ ended' = ended
    BY <1>1, Continues DEF DeployInv
  <1>3. OrderedFrom(more, Recorded, disturbed) BY NeedNothing
  <1>4. HashesDeclared' BY SameHashes DEF DeployInv
  <1>5. misread' \in [address : SUBSET AskedKeys, hash : SUBSET Range(Classes)]
    BY DEF DeployInv, DeployTypeOK
  <1> QED BY <1>1, <1>2, <1>3, <1>4, <1>5, Running, ContinueStep

\* A step of the text that becomes others.
LEMMA ExpandStep ==
  ASSUME DeployInv, NEW op \in PlainOp, Doing(op), NEW more \in Seq(Commands), Continue(more),
         UNCHANGED <<env, sh, contracts, declared, source, runs, json, disturbed, misread>>,
         refused' \in BOOLEAN, refused => refused',
         more \in Seq(PlainCommands) \/ UnderWay(more)',
         \A i \in DOMAIN more : Needs(more[i], disturbed) = {},
         \A k \in Gives(This) :
           \/ k \in Recorded
           \/ disturbed /\ k[1] \in {"PT", "YT", "Market"}
           \/ \E j \in 1..Len(more) : k \in Gives(more[j])
  PROVE  DeployInv'
  <1>1. contracts' \in Seq(AnyContract) /\ declared' \subseteq Range(Classes) \X Nat
    BY DEF DeployInv, DeployTypeOK
  <1> QED BY <1>1, EffectStep, SameIsSame

LEMMA DeclarationsStep ==
  ASSUME DeployInv, Expand, Doing("declarations") PROVE DeployInv'
  <1>1. "declarations" \in PlainOp /\ script.todo # <<>> /\ This.op = "declarations"
    BY DoingSome DEF PlainOp
  <1>2. Gives(This) = {} BY <1>1 DEF Gives
  <1>s. PICK seeding \in BOOLEAN : Continue(Body(This, seeding)) BY DEF Expand
  <1> DEFINE more == Body(This, seeding)
  <1>3. more \in Seq(PlainCommands) /\ \A i \in DOMAIN more : Needs(more[i], disturbed) = {}
    <2>1. CASE \A c \in Range(Classes) : sh.hash[c] # 0
      BY <1>1, <2>1 DEF Body
    <2>2. CASE ~\A c \in Range(Classes) : sh.hash[c] # 0
      <3>1. more = [i \in 1..Len(Classes) |-> Declare(Classes[i])] BY <1>1, <2>2 DEF Body
      <3>2. Len(Classes) = 10 /\ \A i \in 1..10 : Classes[i] \in Range(Classes)
        BY DEF Classes, Range
      <3>3. \A i \in 1..10 : Declare(Classes[i]) \in PlainCommands BY <3>2, PlainAre
      <3>4. more \in Seq(PlainCommands) BY <3>1, <3>2, <3>3
      <3>5. \A i \in 1..10 : Needs(Declare(Classes[i]), disturbed) = {} BY DEF Needs, Declare
      <3> QED BY <3>1, <3>2, <3>4, <3>5
    <2> QED BY <2>1, <2>2
  <1>4. more \in Seq(Commands) BY <1>3, PlainLists
  <1>5. refused' = refused /\ refused \in BOOLEAN BY DEF DeployInv, DeployTypeOK, Expand
  <1> HIDE DEF more
  <1>6. Continue(more) BY <1>s DEF more
  <1> QED BY <1>1, <1>2, <1>3, <1>4, <1>5, <1>6, ExpandStep DEF Expand

LEMMA PairStep == ASSUME DeployInv, Expand, Doing("pair") PROVE DeployInv'
  <1>1. "pair" \in PlainOp /\ script.todo # <<>> /\ This.op = "pair" /\ This.pair \in Pairs
    <2>1. "pair" \in PlainOp BY DEF PlainOp
    <2> QED BY <2>1, PlainHead, PlainOps DEF DeployInv
  <1>p. PICK p \in Pairs : This.pair = p BY <1>1
  <1> DEFINE reads == <<Create(p), ReadOf(<<"PT", p>>), ReadOf(<<"YT", p>>)>>
  <1>2. Gives(This) = {<<"PT", p>>, <<"YT", p>>} BY <1>1, <1>p DEF Gives
  <1>3. {<<"Factory", NoPair>>, <<"SY", p>>} \subseteq Recorded BY <1>1, <1>p, Running DEF Needs
  <1>4. refused' = refused /\ refused \in BOOLEAN BY DEF DeployInv, DeployTypeOK, Expand
  <1>5. sh.address = env.address BY <1>1, Running
  <1>6. <<"PT", p>> \in Keys /\ <<"YT", p>> \in Keys BY KeysAre
  <1>7. CASE IsSet(<<"PT", p>>)
    <2>1. \A seeding : Body(This, seeding) = <<>> BY <1>1, <1>5, <1>7, <1>p DEF Body, Set, IsSet
    <2>2. ~disturbed => IsSet(<<"YT", p>>)
      <3>1. Head(script.todo) # ReadOf(<<"YT", p>>) BY <1>1 DEF This, ReadOf
      <3> QED BY <1>1, <1>7, <3>1 DEF DeployInv, PairsWhole
    <2>3. \A k \in Gives(This) : k \in Recorded \/ (disturbed /\ k[1] \in {"PT", "YT", "Market"})
      BY <1>2, <1>6, <1>7, <2>2 DEF Recorded, IsSet
    <2>4. Continue(<<>>) BY <2>1 DEF Expand
    <2>5. declared' = declared /\ declared \subseteq Range(Classes) \X Nat
      BY DEF DeployInv, DeployTypeOK, Expand
    <2> QED BY <1>1, <2>3, <2>4, <2>5, PassStep DEF Expand
  <1>8. CASE ~IsSet(<<"PT", p>>)
    <2>1. \A seeding : Body(This, seeding) = reads BY <1>1, <1>5, <1>8, <1>p DEF Body, Set, IsSet, Create, ReadOf
    <2>2. reads \in Seq(Commands)
      BY <1>1, <1>6, <1>p, OtherCommands
    <2>3. \A k \in Gives(This) : \E j \in 1..Len(reads) : k \in Gives(reads[j])
      <3>1. reads[2] = ReadOf(<<"PT", p>>) /\ reads[3] = ReadOf(<<"YT", p>>) /\ Len(reads) = 3
        OBVIOUS
      <3>2. \A k : k \in Gives(ReadOf(k)) BY DEF Gives, ReadOf
      <3> QED BY <1>2, <3>1, <3>2
    <2>4. \A i \in DOMAIN reads : Needs(reads[i], disturbed) = {}
      BY DEF Needs, ReadOf, Create
    <2>5. UnderWay(reads)'
      <3>1. env' = env BY DEF Expand
      <3>2. IsSet(<<"SY", p>>)' /\ IsSet(<<"Factory", NoPair>>)' /\ ~IsSet(<<"PT", p>>)'
        BY <1>3, <1>8, <3>1 DEF IsSet, Recorded
      <3> QED BY <3>2 DEF UnderWay
    <2>6. Continue(reads) BY <2>1 DEF Expand
    <2> HIDE DEF reads
    <2> QED BY <1>1, <1>4, <2>2, <2>3, <2>4, <2>5, <2>6, ExpandStep DEF Expand
  <1> QED BY <1>7, <1>8

LEMMA MarketStep == ASSUME DeployInv, Expand, Doing("market") PROVE DeployInv'
  <1>1. "market" \in PlainOp /\ script.todo # <<>> /\ This.op = "market" /\ This.pair \in Pairs
    <2>1. "market" \in PlainOp BY DEF PlainOp
    <2> QED BY <2>1, PlainHead, PlainOps DEF DeployInv
  <1>p. PICK p \in Pairs : This.pair = p BY <1>1
  <1> DEFINE reads == <<CreateMarket(p), ReadOf(<<"Market", p>>)>>
  <1>2. Gives(This) = {<<"Market", p>>} BY <1>1, <1>p DEF Gives
  <1>3. <<"MarketFactory", NoPair>> \in Recorded /\ (~disturbed => <<"PT", p>> \in Recorded)
    BY <1>1, <1>p, Running DEF Needs
  <1>4. refused' = refused /\ refused \in BOOLEAN BY DEF DeployInv, DeployTypeOK, Expand
  <1>5. sh.address = env.address BY <1>1, Running
  <1>6. <<"PT", p>> \in Keys /\ <<"Market", p>> \in Keys BY KeysAre
  <1>7. CASE IsSet(<<"Market", p>>) \/ ~IsSet(<<"PT", p>>)
    <2>1. \A seeding : Body(This, seeding) = <<>> BY <1>1, <1>5, <1>7, <1>p DEF Body, Set, IsSet
    <2>2. \A k \in Gives(This) : k \in Recorded \/ (disturbed /\ k[1] \in {"PT", "YT", "Market"})
      <3>1. disturbed \in BOOLEAN BY <1>1, Running
      <3> QED BY <1>2, <1>3, <1>6, <1>7, <3>1 DEF Recorded, IsSet
    <2>3. Continue(<<>>) BY <2>1 DEF Expand
    <2>4. declared' = declared /\ declared \subseteq Range(Classes) \X Nat
      BY DEF DeployInv, DeployTypeOK, Expand
    <2> QED BY <1>1, <2>2, <2>3, <2>4, PassStep DEF Expand
  <1>8. CASE ~IsSet(<<"Market", p>>) /\ IsSet(<<"PT", p>>)
    <2>1. \A seeding : Body(This, seeding) = reads BY <1>1, <1>5, <1>8, <1>p DEF Body, Set, IsSet, CreateMarket, ReadOf
    <2>2. reads \in Seq(Commands) BY <1>1, <1>6, <1>p, OtherCommands
    <2>3. \A k \in Gives(This) : \E j \in 1..Len(reads) : k \in Gives(reads[j])
      <3>1. reads[2] = ReadOf(<<"Market", p>>) /\ Len(reads) = 2 OBVIOUS
      <3>2. \A k : k \in Gives(ReadOf(k)) BY DEF Gives, ReadOf
      <3> QED BY <1>2, <3>1, <3>2
    <2>4. \A i \in DOMAIN reads : Needs(reads[i], disturbed) = {}
      BY DEF Needs, ReadOf, CreateMarket
    <2>5. UnderWay(reads)'
      <3>1. env' = env BY DEF Expand
      <3>2. IsSet(<<"PT", p>>)' /\ IsSet(<<"MarketFactory", NoPair>>)' /\ ~IsSet(<<"Market", p>>)'
        BY <1>3, <1>8, <3>1 DEF IsSet, Recorded
      <3> QED BY <3>2 DEF UnderWay
    <2>6. Continue(reads) BY <2>1 DEF Expand
    <2> HIDE DEF reads
    <2> QED BY <1>1, <1>4, <2>2, <2>3, <2>4, <2>5, <2>6, ExpandStep DEF Expand
  <1> QED BY <1>7, <1>8

LEMMA SeedStep == ASSUME DeployInv, Expand, Doing("seed") PROVE DeployInv'
  <1>1. "seed" \in PlainOp /\ script.todo # <<>> /\ This.op = "seed" BY DoingSome DEF PlainOp
  <1>2. Gives(This) = {} BY <1>1 DEF Gives
  <1>s. PICK seeding \in BOOLEAN : Continue(Body(This, seeding)) BY DEF Expand
  <1> DEFINE more == Body(This, seeding)
  <1>3. more \in Seq(PlainCommands) /\ \A i \in DOMAIN more : Needs(more[i], disturbed) = {}
    <2>1. more = seed_market_liquidity \/ more = <<>> BY <1>1 DEF Body
    <2>2. \A m, n \in Nat : Invoke(m, n) \in PlainCommands /\ Needs(Invoke(m, n), disturbed) = {}
      BY PlainAre DEF Invoke, Needs
    <2>3. /\ seed_market_liquidity \in Seq(PlainCommands)
          /\ \A i \in DOMAIN seed_market_liquidity :
               Needs(seed_market_liquidity[i], disturbed) = {}
      BY <2>2 DEF seed_market_liquidity
    <2>4. <<>> \in Seq(PlainCommands) /\ DOMAIN <<>> = {} OBVIOUS
    <2> HIDE DEF more
    <2>5. CASE more = <<>> BY <2>4, <2>5
    <2> QED BY <2>1, <2>3, <2>5
  <1>4. more \in Seq(Commands) BY <1>3, PlainLists
  <1>5. refused' = refused /\ refused \in BOOLEAN BY DEF DeployInv, DeployTypeOK, Expand
  <1> HIDE DEF more
  <1>6. Continue(more) BY <1>s DEF more
  <1> QED BY <1>1, <1>2, <1>3, <1>4, <1>5, <1>6, ExpandStep DEF Expand

\* The seeding of every market, which needs nothing.
LEMMA SeedsAre ==
  /\ seed_markets \in Seq(PlainCommands)
  /\ \A i \in DOMAIN seed_markets : \A d : Needs(seed_markets[i], d) = {}
  <1>1. PICK ps \in Seq(Pairs) : ps = SetToSeq(Pairs) BY PairsListed
  <1>2. seed_markets = [i \in 1..Len(ps) |-> [op |-> "seed", pair |-> ps[i]]]
    BY <1>1 DEF seed_markets, ForEach
  <1>3. \A i \in 1..Len(ps) : [op |-> "seed", pair |-> ps[i]] \in PlainCommands
    <2> TAKE i \in 1..Len(ps)
    <2>1. ps[i] \in Pairs BY <1>1
    <2> QED BY <2>1, PlainAre
  <1>4. seed_markets \in Seq(PlainCommands) BY <1>1, <1>2, <1>3
  <1>5. \A i \in DOMAIN seed_markets : seed_markets[i].op = "seed" BY <1>2
  <1> QED BY <1>4, <1>5 DEF Needs

LEMMA SeedingStep == ASSUME DeployInv, Expand, Doing("seeding") PROVE DeployInv'
  <1>1. "seeding" \in PlainOp /\ script.todo # <<>> /\ This.op = "seeding"
    BY DoingSome DEF PlainOp
  <1>2. Gives(This) = {} BY <1>1 DEF Gives
  <1>s. PICK seeding \in BOOLEAN : Continue(Body(This, seeding)) BY DEF Expand
  <1> DEFINE more == Body(This, seeding)
  <1>3. more \in Seq(PlainCommands) /\ \A i \in DOMAIN more : Needs(more[i], disturbed) = {}
    <2>1. more = seed_markets \/ more = <<>> BY <1>1 DEF Body
    <2>2. <<>> \in Seq(PlainCommands) /\ DOMAIN <<>> = {} OBVIOUS
    <2> HIDE DEF more
    <2>3. CASE more = <<>> BY <2>2, <2>3
    <2> QED BY <2>1, <2>3, SeedsAre
  <1>4. more \in Seq(Commands) BY <1>3, PlainLists
  <1>5. refused' = refused /\ refused \in BOOLEAN BY DEF DeployInv, DeployTypeOK, Expand
  <1> HIDE DEF more
  <1>6. Continue(more) BY <1>s DEF more
  <1> QED BY <1>1, <1>2, <1>3, <1>4, <1>5, <1>6, ExpandStep DEF Expand

LEMMA ExpandAnyStep == ASSUME DeployInv, Expand PROVE DeployInv'
  <1>1. PICK op \in {"declarations", "pair", "market", "seeding", "seed"} : Doing(op)
    BY DEF Expand
  <1> QED BY <1>1, DeclarationsStep, PairStep, MarketStep, SeedingStep, SeedStep

-----------------------------------------------------------------------------
(* Contracts are made *)

\* What was on the chain stays, and nothing new is known by a name.
Grown == \A i \in DOMAIN contracts : i \in DOMAIN contracts' /\ contracts'[i] = contracts[i]

\* The names keep their meaning while the chain grows.
LEMMA GrownNames ==
  ASSUME Complete(env), Paired(env), Exported, Grown, UNCHANGED <<env, json, misread>>,
         disturbed => disturbed'
  PROVE  Complete(env)' /\ Paired(env)' /\ Exported'
  <1>1. Kept BY DEF Grown, Kept
  <1>2. Complete(env)' /\ Paired(env)'
    <2>1. PICK new : new = env' OBVIOUS
    <2>2. /\ \A k \in Keys \ misread'.address : new.address[k] # 0 =>
               /\ new.address[k] \in DOMAIN contracts'
               /\ contracts'[new.address[k]].kind = k[1]
               /\ contracts'[new.address[k]].of = {new.address[link] : link \in LinksOf(k)}
               /\ \A link \in LinksOf(k) : new.address[link] # 0
          /\ \A p \in Pairs :
               <<"PT", p>> \notin misread'.address /\ new.address[<<"YT", p>>] # 0 =>
                 /\ new.address[<<"PT", p>>] # 0
                 /\ <<"YT", p>> \notin misread'.address =>
                      contracts'[new.address[<<"PT", p>>]].expiry
                        = contracts'[new.address[<<"YT", p>>]].expiry
      BY <1>1, <2>1, SameNames
    <2> QED BY <2>1, <2>2 DEF Complete, Paired
  <1>3. Complete(json)' /\ Paired(json)'
    <2>1. PICK new : new = json' OBVIOUS
    <2>2. Complete(json) /\ Paired(json) BY DEF Exported
    <2>3. /\ \A k \in Keys \ misread'.address : new.address[k] # 0 =>
               /\ new.address[k] \in DOMAIN contracts'
               /\ contracts'[new.address[k]].kind = k[1]
               /\ contracts'[new.address[k]].of = {new.address[link] : link \in LinksOf(k)}
               /\ \A link \in LinksOf(k) : new.address[link] # 0
          /\ \A p \in Pairs :
               <<"PT", p>> \notin misread'.address /\ new.address[<<"YT", p>>] # 0 =>
                 /\ new.address[<<"PT", p>>] # 0
                 /\ <<"YT", p>> \notin misread'.address =>
                      contracts'[new.address[<<"PT", p>>]].expiry
                        = contracts'[new.address[<<"YT", p>>]].expiry
      BY <1>1, <2>1, <2>2, SameNames
    <2> QED BY <2>1, <2>3 DEF Complete, Paired
  <1> QED BY <1>2, <1>3 DEF Exported

\* A transaction was executed, and the script ends as if it had failed.
LEMMA UnheardStep ==
  ASSUME DeployInv, Stop("stopped"), disturbed' = TRUE,
         contracts' \in Seq(AnyContract), Grown, Unique', Twins',
         UNCHANGED <<env, declared, source, runs, json, misread, refused>>
  PROVE  DeployInv'
  <1> USE DEF DeployInv
  <1>1. script' \in Scripts /\ script'.todo = <<>> /\ script'.name = "none"
        /\ sh' \in Names /\ ended' = "stopped"
    BY Stops
  <1>2. DeployTypeOK' BY <1>1 DEF DeployTypeOK
  <1>3. ShellAgrees' BY <1>1 DEF ShellAgrees
  <1>4. InOrder' /\ Shape' BY <1>1, OrderEmpty
  <1>5. Complete(env)' /\ Paired(env)' /\ Exported' BY GrownNames
  <1>6. PairsWhole' /\ Accounted' BY DisturbedData
  <1>7. HashesDeclared' BY SameHashes
  <1> QED BY <1>2, <1>3, <1>4, <1>5, <1>6, <1>7

\* A contract is what it is constructed to be.
LEMMA NewContract ==
  ASSUME NEW kind \in Range(Classes), NEW of \in SUBSET Nat, NEW expiry \in Nat, NEW version \in Nat,
         sh \in Names
  PROVE  /\ Contract(kind, of, expiry, version) \in AnyContract
         /\ Contract(kind, of, expiry, version).kind = kind
         /\ Contract(kind, of, expiry, version).of = of
         /\ Contract(kind, of, expiry, version).expiry = expiry
  <1>1. Makes(kind) \subseteq Range(Classes) BY ClassNames DEF Makes
  <1>2. [c \in Makes(kind) |-> sh.hash[c]] \in [Makes(kind) -> Nat] BY <1>1 DEF Names
  <1>3. Contract(kind, of, expiry, version) \in ContractsOf(kind)
    BY <1>2 DEF Contract, ContractsOf
  <1> QED BY <1>3 DEF Contract, AnyContract

\* deploy_contract: a contract that nothing names yet is the one about to be recorded.
LEMMA Deployment ==
  ASSUME DeployInv, Doing("deploy"), sh.address[This.key] = 0,
         contracts' = Append(contracts, Deployed),
         Submitted(<<Record(This.key, Len(contracts) + 1)>>),
         UNCHANGED <<env, declared, source, runs, json, misread, refused>>
  PROVE  DeployInv'
  <1> USE DEF DeployInv
  <1>1. "deploy" \in PlainOp BY DEF PlainOp
  <1>2. /\ script.todo # <<>> /\ This.op = "deploy" /\ This \in PlainCommands
        /\ Tail(script.todo) \in Seq(PlainCommands)
    BY <1>1, PlainHead
  <1>3. PICK k \in Keys : This.key = k /\ This.of = LinksOf(k) /\ k[1] \in DeployedKinds
    BY <1>2, PlainOps
  <1>4. /\ script.name # "none" /\ sh.address = env.address /\ env \in Names /\ sh \in Names
        /\ LinksOf(k) \subseteq Recorded
    BY <1>2, <1>3, Running DEF Needs
  <1>5. PICK n : n = Len(contracts) + 1 OBVIOUS
  <1>6. contracts \in Seq(AnyContract) /\ Len(contracts) \in Nat BY DEF DeployTypeOK
  <1> DEFINE of == {env.address[link] : link \in LinksOf(k)}
             more == <<Record(k, n)>>
  <1>7. k[1] \in Range(Classes) /\ k[1] \notin {"PT", "YT", "Market"}
    BY <1>3, CoreNames, ClassNames DEF DeployedKinds
  <1>8. /\ Deployed \in AnyContract /\ Deployed.kind = k[1] /\ Deployed.of = of
    <2>1. {sh.address[link] : link \in This.of} = of BY <1>3, <1>4
    <2>2. of \in SUBSET Nat BY <1>4, LinksAre DEF Names
    <2>3. sh.hash[k[1]] \in Nat BY <1>4, <1>7 DEF Names
    <2>4. Deployed = Contract(k[1], of, 0, sh.hash[k[1]]) BY <1>3, <2>1 DEF Deployed
    <2> HIDE DEF of
    <2> QED BY <1>4, <1>7, <2>2, <2>3, <2>4, NewContract
  <1>9. /\ contracts' \in Seq(AnyContract) /\ DOMAIN contracts' = DOMAIN contracts \cup {n}
        /\ n \notin DOMAIN contracts /\ n \in Nat
        /\ Grown /\ contracts'[n] = Deployed
    BY <1>5, <1>6, <1>8, AppendProperties DEF Grown
  <1> HIDE DEF of
  <1>10. Unique'
    <2> SUFFICES ASSUME NEW i \in DOMAIN contracts', NEW j \in DOMAIN contracts',
                        contracts'[i].kind \in {"PT", "YT", "Market"},
                        contracts'[i].kind = contracts'[j].kind,
                        contracts'[i].of = contracts'[j].of,
                        contracts'[i].expiry = contracts'[j].expiry
                 PROVE  i = j
      BY DEF Unique
    <2>1. i # n /\ j # n BY <1>7, <1>8, <1>9
    <2> QED BY <1>9, <2>1 DEF Unique, Grown
  <1>11. Twins'
    <2> SUFFICES ASSUME NEW i \in DOMAIN contracts', contracts'[i].kind = "YT"
                 PROVE  \E j \in DOMAIN contracts' :
                          /\ contracts'[j].kind = "PT"
                          /\ contracts'[j].of = contracts'[i].of
                          /\ contracts'[j].expiry = contracts'[i].expiry
      BY DEF Twins
    <2>1. i \in DOMAIN contracts /\ contracts'[i] = contracts[i]
      BY <1>7, <1>8, <1>9 DEF Grown
    <2>2. PICK j \in DOMAIN contracts :
            /\ contracts[j].kind = "PT"
            /\ contracts[j].of = contracts[i].of /\ contracts[j].expiry = contracts[i].expiry
      BY <2>1 DEF Twins
    <2> QED BY <2>1, <2>2, <1>9 DEF Grown
  <1>12. CASE Continue(<<Record(This.key, Len(contracts) + 1)>>) /\ UNCHANGED <<sh, disturbed>>
    <2> USE <1>12
    <2>1. more \in Seq(Commands)
      BY <1>9, OtherCommands
    <2>2. Continue(more) BY <1>3, <1>5, <1>12
    <2>3. /\ script' \in Scripts /\ script'.todo = more \o Tail(script.todo)
           /\ script'.name = script.name /\ ended' = ended
      BY <1>2, <2>1, <2>2, Continues
    <2>4. DeployTypeOK' BY <1>9, <2>3 DEF DeployTypeOK
    <2>5. ShellAgrees' BY <1>4, <2>3 DEF ShellAgrees
    <2>6. UnderWay(more)'
      <3>1. ~IsSet(k)' BY <1>3, <1>4 DEF IsSet
      <3>2. \A link \in LinksOf(k) : IsSet(link)' BY <1>4 DEF Recorded, IsSet
      <3>3. of = {env'.address[link] : link \in LinksOf(k)} BY DEF of
      <3> QED BY <1>3, <1>8, <1>9, <3>1, <3>2, <3>3 DEF UnderWay
    <2>7. Shape' BY <1>2, <2>1, <2>3, <2>6, ShapeNext
    <2>8. InOrder'
      <3>1. more[1] = Record(k, n) /\ DOMAIN more = {1} /\ Len(more) = 1 OBVIOUS
      <3>2. Needs(Record(k, n), disturbed') = {} /\ Gives(Record(k, n)) = {k}
        BY DEF Needs, Gives, Record
      <3>3. Gives(This) = {k} BY <1>2, <1>3 DEF Gives
      <3>4. OrderedFrom(more, Recorded', disturbed') BY <3>1, <3>2, NeedNothing
      <3>5. Recorded' = Recorded BY DEF Recorded
      <3>6. \A l \in Recorded \cup Gives(This) :
              l \in Recorded' \/ \E j \in 1..Len(more) : l \in Gives(more[j])
        BY <3>1, <3>2, <3>3, <3>5
      <3> HIDE DEF more
      <3> QED BY <1>2, <2>1, <2>3, <2>4, <3>1, <3>2, <3>4, <3>6, OrderNext
    <2>9. Complete(env)' /\ Paired(env)' /\ Exported' BY <1>9, GrownNames
    <2>10. Settled BY <1>2 DEF Settled
    <2>11. PairsWhole'
      <3>1. \A l : IsSet(l)' <=> IsSet(l) BY DEF IsSet
      <3> QED BY <2>10, <3>1, SettledPairs
    <2>12. Accounted'
      <3>1. Awaited = {} BY <2>10 DEF Settled, Awaited, This
      <3>2. Record(k, n) \in Commands /\ Tail(script.todo) \in Seq(Commands)
        BY <1>2, <1>9, OtherCommands, PlainLists
      <3>3. Head(script'.todo) = Record(k, n) /\ script'.todo # <<>>
        BY <2>3, <3>2, Begins
      <3>4. Awaited' = {n} BY <3>3 DEF Awaited, Record
      <3> QED BY <1>9, <3>1, <3>4 DEF Accounted
    <2>13. HashesDeclared' BY SameHashes
    <2> QED BY <2>4, <2>5, <2>7, <2>8, <2>9, <2>11, <2>12, <2>13, <1>10, <1>11
  <1>13. CASE Stop("stopped") /\ disturbed' = TRUE
    BY <1>9, <1>10, <1>11, <1>13, UnheardStep
  <1> QED BY <1>12, <1>13 DEF Submitted

LEMMA DeployStep == ASSUME DeployInv, deploy_contract PROVE DeployInv'
  <1>1. "deploy" \in PlainOp /\ script.todo # <<>> /\ This.op = "deploy" /\ This.key \in Keys
    <2>1. "deploy" \in PlainOp BY DEF PlainOp
    <2> QED BY <2>1, PlainHead, PlainOps DEF DeployInv, deploy_contract
  <1>2. CASE sh.address[This.key] # 0
    <2>1. Gives(This) = {This.key} BY <1>1 DEF Gives
    <2>2. Gives(This) \subseteq Recorded BY <1>1, <1>2, <2>1, Running DEF Recorded
    <2>3. declared' = declared /\ declared \subseteq Range(Classes) \X Nat
      BY DEF DeployInv, DeployTypeOK, deploy_contract
    <2>4. Continue(<<>>) /\ UNCHANGED <<sh, contracts, disturbed>> BY <1>2 DEF deploy_contract
    <2> QED BY <1>1, <2>2, <2>3, <2>4, PassStep DEF deploy_contract
  <1>3. CASE sh.address[This.key] = 0
    <2>1. Submitted(<<Record(This.key, Len(contracts) + 1)>>)
          /\ contracts' = Append(contracts, Deployed)
      BY <1>3 DEF deploy_contract, Record
    <2> QED BY <1>3, <2>1, Deployment DEF deploy_contract
  <1> QED BY <1>2, <1>3

-----------------------------------------------------------------------------
(* Addresses are recorded *)

\* A name that nothing refers to yet is set to a contract of its kind.
LEMMA Assign ==
  ASSUME Complete(env), env \in Names, NEW k \in Keys, NEW v \in DOMAIN contracts,
         contracts' = contracts, misread' = misread, env' = [env EXCEPT !.address[k] = v],
         contracts[v].kind = k[1],
         contracts[v].of = {env.address[link] : link \in LinksOf(k)},
         \A link \in LinksOf(k) : IsSet(link),
         ~IsSet(k) \/ k[1] = "YT"
  PROVE  Complete(env)'
  <1>1. \A j \in Keys : env'.address[j] = IF j = k THEN v ELSE env.address[j]
    BY DEF Names
  <1>2. \A j \in Keys : \A link \in LinksOf(j) : IsSet(link) => link # k
    BY LinksAre
  <1>3. \A j \in Keys : LinksOf(j) \subseteq Keys BY LinksAre
  <1>4. ASSUME NEW j \in Keys, \A link \in LinksOf(j) : IsSet(link)
        PROVE  /\ \A link \in LinksOf(j) : env'.address[link] = env.address[link]
               /\ {env'.address[link] : link \in LinksOf(j)} =
                    {env.address[link] : link \in LinksOf(j)}
    <2>1. \A link \in LinksOf(j) : env'.address[link] = env.address[link]
      BY <1>1, <1>2, <1>3, <1>4
    <2> QED BY <2>1
  <1> SUFFICES ASSUME NEW j \in Keys \ misread.address, env'.address[j] # 0
               PROVE  /\ env'.address[j] \in DOMAIN contracts
                      /\ contracts[env'.address[j]].kind = j[1]
                      /\ contracts[env'.address[j]].of =
                           {env'.address[link] : link \in LinksOf(j)}
                      /\ \A link \in LinksOf(j) : env'.address[link] # 0
    BY DEF Complete
  <1>5. CASE j = k BY <1>1, <1>4, <1>5 DEF IsSet
  <1>6. CASE j # k
    <2>1. env'.address[j] = env.address[j] BY <1>1, <1>6
    <2>2. \A link \in LinksOf(j) : IsSet(link) BY <2>1 DEF Complete, IsSet
    <2> QED BY <1>4, <2>1, <2>2 DEF Complete, IsSet
  <1> QED BY <1>5, <1>6

\* update_env assigns, to .env and to the shell alike.
LEMMA Updates ==
  ASSUME DeployInv, script.todo # <<>>, NEW k \in Keys, NEW v \in Nat, update_env(k, v)
  PROVE  /\ env' \in Names /\ sh' \in Names
         /\ \A j \in Keys : env'.address[j] = IF j = k THEN v ELSE env.address[j]
         /\ env'.address = sh'.address /\ env'.expiry = env.expiry /\ sh'.expiry = sh.expiry
         /\ env'.hash = env.hash
  <1>1. env \in Names /\ sh \in Names /\ sh.address = env.address BY Running
  <1> QED BY <1>1 DEF update_env, Names

\* The step of an assignment that leaves the contracts alone: what is left is
\* what it leaves to be recorded.
LEMMA AssignStep ==
  ASSUME DeployInv, script.todo # <<>>, NEW k \in Keys, NEW v \in Nat, update_env(k, v),
         Continue(<<>>), UNCHANGED <<contracts, declared, source, runs, json, refused>>,
         disturbed' \in BOOLEAN, disturbed => disturbed',
         misread' \in [address : SUBSET AskedKeys, hash : SUBSET Range(Classes)],
         misread.address \subseteq misread'.address, misread'.hash = misread.hash,
         Complete(env)', Paired(env)', Shape', PairsWhole', Accounted',
         Gives(This) = {k},
         v # 0 \/ (disturbed' /\ k[1] \in {"PT", "YT", "Market"})
  PROVE  DeployInv'
  <1> USE DEF DeployInv
  <1>1. /\ script' \in Scripts /\ script'.todo = Tail(script.todo)
        /\ script'.name = script.name /\ ended' = ended
    BY Moves
  <1>2. /\ env' \in Names /\ sh' \in Names
        /\ \A j \in Keys : env'.address[j] = IF j = k THEN v ELSE env.address[j]
        /\ env'.address = sh'.address /\ env'.expiry = env.expiry /\ sh'.expiry = sh.expiry
        /\ env'.hash = env.hash
    BY Updates
  <1>3. DeployTypeOK' BY <1>1, <1>2 DEF DeployTypeOK
  <1>4. ShellAgrees' BY <1>1, <1>2, Running DEF ShellAgrees
  <1>5. InOrder'
    <2>1. \A l \in Recorded \cup Gives(This) :
            l \in Recorded' \/ (disturbed' /\ l[1] \in {"PT", "YT", "Market"})
      BY <1>2 DEF Recorded
    <2> QED BY <1>1, <1>3, <2>1, OrderMoves
  <1>6. Unique' /\ Twins' BY DEF Unique, Twins
  <1>7. Exported' BY SameExport, SameIsSame
  <1>8. HashesDeclared' BY <1>2, SameHashes
  <1> QED BY <1>3, <1>4, <1>5, <1>6, <1>7, <1>8

LEMMA RecordStep == ASSUME DeployInv, record_address PROVE DeployInv'
  <1> USE DEF DeployInv, record_address
  <1>1. script.todo # <<>> /\ IsRecording(This, Tail(script.todo)) BY OtherHead
  <1>2. PICK k \in Keys, v \in DOMAIN contracts :
          /\ This = Record(k, v) /\ ~IsSet(k) /\ k[1] \in DeployedKinds
          /\ contracts[v].kind = k[1]
          /\ contracts[v].of = {env.address[link] : link \in LinksOf(k)}
          /\ \A link \in LinksOf(k) : IsSet(link)
          /\ Tail(script.todo) \in Seq(PlainCommands)
    BY <1>1 DEF IsRecording
  <1>3. This.key = k /\ This.value = v /\ Gives(This) = {k} BY <1>2 DEF Record, Gives
  <1>4. v \in Nat /\ v # 0 BY <1>2 DEF DeployTypeOK
  <1>5. update_env(k, v) BY <1>3
  <1>6. script'.todo = Tail(script.todo) BY <1>1, Moves
  <1>7. Shape' BY <1>2, <1>6, ShapeMoves
  <1>8. env' = [env EXCEPT !.address[k] = v] BY <1>5 DEF update_env
  <1>9. env \in Names BY <1>1, Running
  <1>10. Complete(env)' BY <1>2, <1>8, <1>9, Assign
  <1>11. \A j \in Keys : env'.address[j] = IF j = k THEN v ELSE env.address[j]
    BY <1>1, <1>4, <1>5, Updates
  <1>p. \A p \in Pairs : \A c \in {"PT", "YT"} : env'.address[<<c, p>>] = env.address[<<c, p>>]
    <2>1. k[1] \notin {"PT", "YT"} BY <1>2, CoreNames DEF DeployedKinds
    <2> TAKE p \in Pairs, c \in {"PT", "YT"}
    <2>2. <<c, p>> \in Keys /\ <<c, p>>[1] = c BY KeysAre
    <2>3. <<c, p>> # k BY <2>1, <2>2
    <2> QED BY <1>11, <2>2, <2>3
  <1>12. PairsWhole'
    <2>1. \A l : Head(script.todo) # ReadOf(l) BY <1>2 DEF This, Record, ReadOf
    <2>2. ASSUME ~disturbed', NEW p \in Pairs
          PROVE  IsSet(<<"PT", p>>)' => IsSet(<<"YT", p>>)'
      BY <1>p, <2>1, <2>2 DEF PairsWhole, IsSet
    <2>3. ~disturbed' => misread'.address = {} BY DEF PairsWhole
    <2> QED BY <2>2, <2>3 DEF PairsWhole
  <1>13. Accounted'
    <2>1. Awaited = {v} BY <1>1, <1>2 DEF Awaited, This, Record
    <2> SUFFICES ASSUME ~disturbed, NEW i \in DOMAIN contracts
                 PROVE  \E j \in Keys : env'.address[j] = i
      BY DEF Accounted
    <2>2. CASE i = v BY <1>11, <2>2
    <2>3. CASE i # v
      <3>1. PICK j \in Keys : env.address[j] = i BY <2>1, <2>3 DEF Accounted
      <3>2. i # 0 BY DEF DeployTypeOK
      <3>3. j # k BY <1>2, <3>1, <3>2 DEF IsSet
      <3> QED BY <1>11, <3>1, <3>3
    <2> QED BY <2>2, <2>3
  <1>14. /\ disturbed' = disturbed /\ disturbed \in BOOLEAN
         /\ misread \in [address : SUBSET AskedKeys, hash : SUBSET Range(Classes)]
    BY DEF DeployTypeOK
  <1>15. Paired(env)'
    <2>1. misread' = misread /\ contracts' = contracts OBVIOUS
    <2> QED BY <1>p, <2>1 DEF Paired
  <1>16. misread' = misread OBVIOUS
  <1> QED
    BY <1>1, <1>3, <1>4, <1>5, <1>7, <1>10, <1>12, <1>13, <1>14, <1>15, <1>16, AssignStep

-----------------------------------------------------------------------------
(* The reads after an invoke *)

\* A factory has one answer, and it is of the pair that was asked for.
LEMMA RegisteredAre ==
  ASSUME DeployInv, script.todo # <<>>, NEW k \in Keys, k[1] \in {"PT", "YT", "Market"},
         NEW v \in Registered(k)
  PROVE  /\ v \in DOMAIN contracts /\ v \in Nat /\ v # 0 /\ contracts[v].kind = k[1]
         /\ contracts[v].of = {env.address[link] : link \in LinksOf(k)}
         /\ k[1] # "Market" => contracts[v].expiry = env.expiry
         /\ \A w \in Registered(k) : w = v
  <1>1. contracts \in Seq(AnyContract) BY DEF DeployInv, DeployTypeOK
  <1>2. sh.address = env.address /\ sh.expiry = env.expiry BY Running
  <1>3. \A w \in Registered(k) : w \in DOMAIN contracts /\ contracts[w].kind = k[1]
          /\ contracts[w].of = contracts[v].of /\ contracts[w].expiry = contracts[v].expiry
    <2>1. CASE k[1] = "Market" BY <2>1 DEF Registered, Existing
    <2>2. CASE k[1] # "Market" BY <2>2 DEF Registered, Existing
    <2> QED BY <2>1, <2>2
  <1>6. v \in Nat /\ v # 0
    <2>1. DOMAIN contracts = 1..Len(contracts) /\ Len(contracts) \in Nat BY <1>1
    <2> QED BY <1>3, <2>1
  <1>4. contracts[v].of = {env.address[link] : link \in LinksOf(k)}
    <2>1. CASE k[1] = "Market"
      <3>1. LinksOf(k) = {<<"PT", k[2]>>} BY <2>1, LinksAre
      <3>2. contracts[v].of = {env.address[<<"PT", k[2]>>]}
        BY <1>2, <2>1 DEF Registered, Existing
      <3> QED BY <3>1, <3>2
    <2>2. CASE k[1] \in {"PT", "YT"}
      <3>1. LinksOf(k) = {<<"SY", k[2]>>} BY <2>2, LinksAre
      <3>2. contracts[v].of = {env.address[<<"SY", k[2]>>]}
        BY <1>2, <2>2 DEF Registered, Existing
      <3> QED BY <3>1, <3>2
    <2> QED BY <2>1, <2>2
  <1>5. \A w \in Registered(k) : w = v
    BY <1>3 DEF DeployInv, Unique
  <1>7. k[1] # "Market" => contracts[v].expiry = env.expiry
    BY <1>2 DEF Registered, Existing
  <1> QED BY <1>3, <1>4, <1>5, <1>6, <1>7

\* An answer is recorded.
LEMMA AnswerStep ==
  ASSUME DeployInv, script.todo # <<>>, NEW k \in Keys, This = ReadOf(k),
         k[1] \in {"PT", "YT", "Market"}, \A link \in LinksOf(k) : IsSet(link),
         ~IsSet(k) \/ (k[1] = "YT" /\ disturbed),
         NEW v \in Registered(k), update_env(k, v), Continue(<<>>),
         UNCHANGED <<contracts, declared, source, runs, json, disturbed, misread, refused>>,
         Shape', PairsWhole', Paired(env)',
         ~disturbed /\ k[1] = "PT" => Head(script'.todo) = ReadOf(<<"YT", k[2]>>)
                                      /\ script'.todo # <<>>
  PROVE  DeployInv'
  <1> USE DEF DeployInv
  <1>1. /\ v \in DOMAIN contracts /\ v \in Nat /\ v # 0 /\ contracts[v].kind = k[1]
        /\ contracts[v].of = {env.address[link] : link \in LinksOf(k)}
        /\ \A w \in Registered(k) : w = v
    BY RegisteredAre
  <1>2. env' = [env EXCEPT !.address[k] = v] BY DEF update_env
  <1>3. env \in Names /\ sh.address = env.address /\ sh.expiry = env.expiry BY Running
  <1>4. Complete(env)' BY <1>1, <1>2, <1>3, Assign
  <1>5. /\ \A j \in Keys : env'.address[j] = IF j = k THEN v ELSE env.address[j]
        /\ env'.address = sh'.address /\ sh'.expiry = sh.expiry
    BY <1>1, Updates
  <1>6. Gives(This) = {k} /\ This.op = "read" /\ This.key = k BY DEF Gives, ReadOf
  <1>7. Accounted'
    <2> SUFFICES ASSUME ~disturbed, NEW i \in DOMAIN contracts
                 PROVE  i \in Awaited' \/ \E j \in Keys : env'.address[j] = i
      BY DEF Accounted
    <2>1. Awaited = Registered(k) \cup
            IF k[1] = "PT" THEN Registered(<<"YT", k[2]>>) ELSE {}
      BY <1>6 DEF Awaited, This
    <2>2. CASE i \in Registered(k) BY <1>1, <1>5, <2>2
    <2>3. CASE k[1] = "PT" /\ i \in Registered(<<"YT", k[2]>>)
      <3>1. <<"SY", k[2]>> \in Keys /\ <<"SY", k[2]>> # k BY <2>3, KeysAre, CoreNames
      <3>2. sh'.address[<<"SY", k[2]>>] = sh.address[<<"SY", k[2]>>] BY <1>3, <1>5, <3>1
      <3>3. i \in Registered(<<"YT", k[2]>>)'
        BY <1>5, <2>3, <3>2 DEF Registered, Existing
      <3>4. Head(script'.todo) = ReadOf(<<"YT", k[2]>>) /\ script'.todo # <<>> BY <2>3
      <3>5. Registered(<<"YT", k[2]>>)' \subseteq Awaited'
        BY <3>4 DEF Awaited, ReadOf
      <3> QED BY <3>3, <3>5
    <2>4. CASE i \notin Awaited
      <3>1. PICK j \in Keys : env.address[j] = i BY <2>4 DEF Accounted
      <3>2. i # 0 BY DEF DeployTypeOK
      <3>3. j # k BY <3>1, <3>2 DEF IsSet
      <3> QED BY <1>5, <3>1, <3>3
    <2> QED BY <2>1, <2>2, <2>3, <2>4
  <1>8. /\ disturbed' = disturbed /\ disturbed \in BOOLEAN
        /\ misread' = misread
        /\ misread \in [address : SUBSET AskedKeys, hash : SUBSET Range(Classes)]
    BY DEF DeployTypeOK
  <1> QED BY <1>1, <1>4, <1>6, <1>7, <1>8, AssignStep

\* A misread name is excused: it was not set, or is a YT, which nothing refers to.
LEMMA MisreadStep ==
  ASSUME DeployInv, script.todo # <<>>, NEW k \in AskedKeys, This = ReadOf(k),
         ~IsSet(k) \/ k[1] = "YT",
         k[1] = "YT" => <<"PT", k[2]>> \in misread.address \/ IsSet(<<"PT", k[2]>>),
         NEW v \in Nat, update_env(k, v), Continue(<<>>), disturbed' = TRUE,
         misread' = [misread EXCEPT !.address = @ \cup {k}],
         UNCHANGED <<contracts, declared, source, runs, json, refused>>, Shape'
  PROVE  DeployInv'
  <1> USE DEF DeployInv
  <1>0. k \in Keys /\ k[1] \in {"PT", "YT", "Market"} BY DEF AskedKeys
  <1>m. /\ misread'.address = misread.address \cup {k} /\ misread'.hash = misread.hash
        /\ misread' \in [address : SUBSET AskedKeys, hash : SUBSET Range(Classes)]
    BY DEF DeployTypeOK
  <1>1. \A j \in Keys : env'.address[j] = IF j = k THEN v ELSE env.address[j]
    BY <1>0, Updates
  <1>2. \A j \in Keys : \A link \in LinksOf(j) : link \in Keys /\ link[1] # "YT" BY LinksAre
  <1>4. Complete(env)'
    <2> SUFFICES ASSUME NEW j \in Keys \ misread'.address, env'.address[j] # 0
                 PROVE  /\ env'.address[j] \in DOMAIN contracts
                        /\ contracts[env'.address[j]].kind = j[1]
                        /\ contracts[env'.address[j]].of =
                             {env'.address[link] : link \in LinksOf(j)}
                        /\ \A link \in LinksOf(j) : env'.address[link] # 0
      BY DEF Complete
    <2>1. env'.address[j] = env.address[j] /\ j \notin misread.address BY <1>1, <1>m
    <2>2. \A link \in LinksOf(j) : IsSet(link) BY <2>1 DEF Complete, IsSet
    <2>3. \A link \in LinksOf(j) : link # k BY <1>2, <2>2
    <2>4. \A link \in LinksOf(j) : env'.address[link] = env.address[link] BY <1>1, <1>2, <2>3
    <2>5. {env'.address[link] : link \in LinksOf(j)} = {env.address[link] : link \in LinksOf(j)}
      BY <2>4
    <2> QED BY <2>1, <2>4, <2>5 DEF Complete
  <1>5. Paired(env)'
    <2> SUFFICES ASSUME NEW p \in Pairs, <<"PT", p>> \notin misread'.address,
                        env'.address[<<"YT", p>>] # 0
                 PROVE  /\ env'.address[<<"PT", p>>] # 0
                        /\ <<"YT", p>> \notin misread'.address =>
                             contracts[env'.address[<<"PT", p>>]].expiry
                               = contracts[env'.address[<<"YT", p>>]].expiry
      BY DEF Paired
    <2>1. <<"PT", p>> \in Keys /\ <<"YT", p>> \in Keys BY KeysAre
    <2>2. <<"PT", p>> # k /\ env'.address[<<"PT", p>>] = env.address[<<"PT", p>>]
          /\ <<"PT", p>> \notin misread.address
      BY <1>1, <1>m, <2>1
    <2>3. CASE k = <<"YT", p>>
      <3>1. <<"YT", p>> \in misread'.address BY <1>m, <2>3
      <3>2. k[1] = "YT" /\ k[2] = p BY <2>3
      <3>3. IsSet(<<"PT", p>>) BY <2>2, <3>2
      <3> QED BY <2>2, <3>1, <3>3 DEF IsSet
    <2>4. CASE k # <<"YT", p>>
      <3>1. env'.address[<<"YT", p>>] = env.address[<<"YT", p>>] BY <1>1, <2>1, <2>4
      <3>2. <<"YT", p>> \in misread'.address <=> <<"YT", p>> \in misread.address
        BY <1>m, <2>4
      <3> QED BY <2>2, <3>1, <3>2 DEF Paired
    <2> QED BY <2>3, <2>4
  <1>6. PairsWhole' /\ Accounted' BY DisturbedData
  <1>7. Gives(This) = {k} BY DEF Gives, ReadOf
  <1> QED BY <1>0, <1>m, <1>4, <1>5, <1>6, <1>7, AssignStep

\* What a read may have led to.
LEMMA ReadOutcomes ==
  ASSUME DeployInv, call_contract, NEW k \in Keys, This = ReadOf(k)
  PROVE  \/ /\ \E v \in Registered(k) : update_env(k, v)
            /\ UNCHANGED <<disturbed, misread>>
         \/ /\ disturbed' = TRUE /\ misread' = [misread EXCEPT !.address = @ \cup {k}]
            /\ \/ \E v \in Nat : update_env(k, v)
               \/ k[1] = "Market" /\ UNCHANGED <<env, sh>>
  <1>1. This.key = k BY DEF ReadOf
  <1>2. \A v \in Hexes \cup {0} : v \in Nat BY DeployAssumption
  <1> QED BY <1>1, <1>2 DEF call_contract

LEMMA ReadPTStep ==
  ASSUME DeployInv, call_contract, IsReadingPT(This, Tail(script.todo)) PROVE DeployInv'
  <1> USE DEF DeployInv
  <1>1. PICK p \in Pairs, rest \in Seq(PlainCommands) :
          /\ IsSet(<<"SY", p>>) /\ ~IsSet(<<"PT", p>>)
          /\ This = ReadOf(<<"PT", p>>)
          /\ Tail(script.todo) = <<ReadOf(<<"YT", p>>)>> \o rest
    BY DEF IsReadingPT
  <1> DEFINE k == <<"PT", p>>
             more == <<ReadOf(<<"YT", p>>)>>
  <1>2. script.todo # <<>> /\ Continue(<<>>) BY DoingSome DEF call_contract
  <1>3. script'.todo = more \o rest BY <1>1, <1>2, Moves
  <1>4. /\ k \in Keys /\ <<"YT", p>> \in Keys /\ k[1] = "PT" /\ k[2] = p
        /\ k \in AskedKeys
    BY KeysAre DEF AskedKeys
  <1>6. rest \in Seq(Commands) /\ ReadOf(<<"YT", p>>) \in Commands /\ more \in Seq(Commands)
    BY <1>4, PlainLists, OtherCommands
  <1>7. script'.todo # <<>> /\ Head(script'.todo) = ReadOf(<<"YT", p>>)
    BY <1>3, <1>6, Begins
  <1>8. \A link \in LinksOf(k) : IsSet(link) BY <1>1, <1>4, LinksAre, ZenonT(40)
  <1>u. UNCHANGED <<contracts, declared, source, runs, json, refused>> BY DEF call_contract
  <1>9. ASSUME NEW v \in Registered(k), update_env(k, v), UNCHANGED <<disturbed, misread>>
        PROVE  DeployInv'
    <2>1. /\ v \in Nat /\ v # 0 /\ contracts[v].expiry = env.expiry
      BY <1>2, <1>4, RegisteredAre
    <2>2. /\ \A j \in Keys : env'.address[j] = IF j = k THEN v ELSE env.address[j]
          /\ env'.expiry = env.expiry
      BY <1>2, <1>4, <1>9, <2>1, Updates
    <2>3. k \notin misread.address => ~IsSet(<<"YT", p>>) BY <1>1 DEF Paired, IsSet
    <2>p. env'.address[k] = v /\ env'.address[<<"YT", p>>] = env.address[<<"YT", p>>]
          /\ env'.address[<<"SY", p>>] = env.address[<<"SY", p>>]
      <3>1. <<"SY", p>> \in Keys BY KeysAre
      <3> QED BY <1>4, <2>2, <3>1
    <2>4. UnderWay(more)'
      <3>1. IsSet(<<"SY", p>>)' BY <1>1, <2>p DEF IsSet
      <3>2. HasPT(p)' BY <1>9, <1>u, <2>1, <2>2, <2>3, <2>p DEF IsSet, HasPT
      <3> QED BY <3>1, <3>2 DEF UnderWay
    <2>5. Shape' BY <1>3, <1>6, <2>4, ShapeNext
    <2>6. PairsWhole'
      <3> SUFFICES ASSUME ~disturbed, NEW q \in Pairs
                   PROVE  IsSet(<<"PT", q>>)' =>
                            IsSet(<<"YT", q>>)' \/ Head(script'.todo) = ReadOf(<<"YT", q>>)
        BY <1>7, <1>9 DEF PairsWhole
      <3>1. <<"PT", q>> \in Keys /\ <<"YT", q>> \in Keys BY KeysAre
      <3>2. CASE q = p BY <1>7, <3>2
      <3>3. CASE q # p
        <4>1. IsSet(<<"PT", q>>)' = IsSet(<<"PT", q>>) /\ IsSet(<<"YT", q>>)' = IsSet(<<"YT", q>>)
          BY <2>2, <3>1, <3>3 DEF IsSet
        <4>2. Head(script.todo) # ReadOf(<<"YT", q>>) BY <1>1 DEF This, ReadOf
        <4> QED BY <4>1, <4>2 DEF PairsWhole
      <3> QED BY <3>2, <3>3
    <2>7. Paired(env)'
      <3> SUFFICES ASSUME NEW q \in Pairs, <<"PT", q>> \notin misread.address,
                          env'.address[<<"YT", q>>] # 0
                   PROVE  /\ env'.address[<<"PT", q>>] # 0
                          /\ <<"YT", q>> \notin misread.address =>
                               contracts[env'.address[<<"PT", q>>]].expiry
                                 = contracts[env'.address[<<"YT", q>>]].expiry
        BY <1>9, <1>u DEF Paired
      <3>1. <<"PT", q>> \in Keys /\ <<"YT", q>> \in Keys BY KeysAre
      <3>2. q # p BY <2>3, <2>p DEF IsSet
      <3>3. env'.address[<<"PT", q>>] = env.address[<<"PT", q>>]
            /\ env'.address[<<"YT", q>>] = env.address[<<"YT", q>>]
        BY <2>2, <3>1, <3>2
      <3> QED BY <3>3 DEF Paired
    <2> HIDE DEF k, more
    <2> QED
      BY <1>1, <1>2, <1>4, <1>7, <1>8, <1>9, <1>u, <2>5, <2>6, <2>7, AnswerStep DEF k
  <1>10. ASSUME NEW v \in Nat, update_env(k, v), disturbed' = TRUE,
                misread' = [misread EXCEPT !.address = @ \cup {k}]
         PROVE  DeployInv'
    <2>1. \A j \in Keys : env'.address[j] = IF j = k THEN v ELSE env.address[j]
      BY <1>2, <1>4, <1>10, Updates
    <2>2. UnderWay(more)'
      <3>1. IsSet(<<"SY", p>>)' BY <1>1, <2>1, KeysAre DEF IsSet
      <3>2. <<"PT", p>> \in misread'.address BY <1>10 DEF DeployTypeOK
      <3>3. HasPT(p)' BY <3>2 DEF HasPT
      <3> QED BY <3>1, <3>3 DEF UnderWay
    <2>3. Shape' BY <1>3, <1>6, <2>2, ShapeNext
    <2> HIDE DEF k, more
    <2> QED BY <1>1, <1>2, <1>4, <1>10, <1>u, <2>3, MisreadStep DEF k
  <1> QED BY <1>1, <1>4, <1>9, <1>10, ReadOutcomes

LEMMA ReadYTStep ==
  ASSUME DeployInv, call_contract, IsReadingYT(This, Tail(script.todo)) PROVE DeployInv'
  <1> USE DEF DeployInv
  <1>1. PICK p \in Pairs :
          /\ IsSet(<<"SY", p>>) /\ HasPT(p)
          /\ This = ReadOf(<<"YT", p>>) /\ Tail(script.todo) \in Seq(PlainCommands)
    BY DEF IsReadingYT
  <1> DEFINE k == <<"YT", p>>
  <1>2. script.todo # <<>> /\ Continue(<<>>) BY DoingSome DEF call_contract
  <1>3. script'.todo \in Seq(PlainCommands) BY <1>1, <1>2, Moves
  <1>4. Shape' BY <1>3, ShapeMoves
  <1>5. k \in Keys /\ k[1] = "YT" /\ k[2] = p /\ k \in AskedKeys BY KeysAre DEF AskedKeys
  <1>7. \A link \in LinksOf(k) : IsSet(link) BY <1>1, <1>5, LinksAre
  <1>u. UNCHANGED <<contracts, declared, source, runs, json, refused>> BY DEF call_contract
  <1>8. ASSUME NEW v \in Registered(k), update_env(k, v), UNCHANGED <<disturbed, misread>>
        PROVE  DeployInv'
    <2>1. v \in Nat /\ v # 0 /\ contracts[v].expiry = env.expiry
      BY <1>2, <1>5, RegisteredAre
    <2>2. \A j \in Keys : env'.address[j] = IF j = k THEN v ELSE env.address[j]
      BY <1>2, <1>5, <1>8, <2>1, Updates
    <2>3. disturbed \in BOOLEAN BY DEF DeployTypeOK
    <2>4. PairsWhole'
      <3> SUFFICES ASSUME ~disturbed, NEW q \in Pairs
                   PROVE  IsSet(<<"PT", q>>)' => IsSet(<<"YT", q>>)'
        BY <1>8 DEF PairsWhole
      <3>1. <<"PT", q>> \in Keys /\ <<"YT", q>> \in Keys BY KeysAre
      <3>2. CASE q = p BY <2>1, <2>2, <3>1, <3>2 DEF IsSet
      <3>3. CASE q # p
        <4>1. IsSet(<<"PT", q>>)' = IsSet(<<"PT", q>>) /\ IsSet(<<"YT", q>>)' = IsSet(<<"YT", q>>)
          BY <2>2, <3>1, <3>3 DEF IsSet
        <4>2. Head(script.todo) # ReadOf(<<"YT", q>>) BY <1>1, <3>3 DEF This, ReadOf
        <4> QED BY <4>1, <4>2 DEF PairsWhole
      <3> QED BY <3>2, <3>3
    <2>5. ~IsSet(k) \/ (k[1] = "YT" /\ disturbed)
      <3>1. ~disturbed => misread.address = {} BY DEF PairsWhole
      <3> QED BY <1>1, <1>5, <2>3, <3>1 DEF HasPT
    <2>6. Paired(env)'
      <3> SUFFICES ASSUME NEW q \in Pairs, <<"PT", q>> \notin misread.address,
                          env'.address[<<"YT", q>>] # 0
                   PROVE  /\ env'.address[<<"PT", q>>] # 0
                          /\ <<"YT", q>> \notin misread.address =>
                               contracts[env'.address[<<"PT", q>>]].expiry
                                 = contracts[env'.address[<<"YT", q>>]].expiry
        BY <1>8, <1>u DEF Paired
      <3>1. <<"PT", q>> \in Keys /\ <<"YT", q>> \in Keys /\ <<"PT", q>> # k BY KeysAre
      <3>2. env'.address[<<"PT", q>>] = env.address[<<"PT", q>>] BY <2>2, <3>1
      <3>3. CASE q = p
        <4>1. env'.address[<<"YT", q>>] = v BY <2>2, <3>1, <3>3
        <4> QED BY <1>1, <2>1, <3>2, <3>3, <4>1 DEF HasPT, IsSet
      <3>4. CASE q # p
        <4>1. env'.address[<<"YT", q>>] = env.address[<<"YT", q>>] BY <2>2, <3>1, <3>4
        <4> QED BY <3>2, <4>1 DEF Paired
      <3> QED BY <3>3, <3>4
    <2> HIDE DEF k
    <2> QED
      BY <1>1, <1>2, <1>4, <1>5, <1>7, <1>8, <1>u, <2>4, <2>5, <2>6, AnswerStep DEF k
  <1>9. ASSUME NEW v \in Nat, update_env(k, v), disturbed' = TRUE,
               misread' = [misread EXCEPT !.address = @ \cup {k}]
        PROVE  DeployInv'
    <2>1. <<"PT", k[2]>> \in misread.address \/ IsSet(<<"PT", k[2]>>) BY <1>1 DEF HasPT
    <2> HIDE DEF k
    <2> QED BY <1>1, <1>2, <1>4, <1>5, <1>9, <1>u, <2>1, MisreadStep DEF k
  <1> QED BY <1>1, <1>5, <1>8, <1>9, ReadOutcomes

LEMMA ReadMarketStep ==
  ASSUME DeployInv, call_contract, IsReadingMarket(This, Tail(script.todo)) PROVE DeployInv'
  <1> USE DEF DeployInv
  <1>1. PICK p \in Pairs :
          /\ IsSet(<<"PT", p>>) /\ ~IsSet(<<"Market", p>>)
          /\ This = ReadOf(<<"Market", p>>) /\ Tail(script.todo) \in Seq(PlainCommands)
    BY DEF IsReadingMarket
  <1> DEFINE k == <<"Market", p>>
  <1>2. script.todo # <<>> /\ Continue(<<>>) BY DoingSome DEF call_contract
  <1>3. /\ script' \in Scripts /\ script'.todo = Tail(script.todo)
        /\ script'.name = script.name /\ ended' = ended
    BY <1>2, Moves
  <1>4. Shape' BY <1>1, <1>3, ShapeMoves
  <1>5. k \in Keys /\ k[1] = "Market" /\ k[2] = p /\ k \in AskedKeys BY KeysAre DEF AskedKeys
  <1>7. \A link \in LinksOf(k) : IsSet(link) BY <1>1, <1>5, LinksAre
  <1>u. UNCHANGED <<contracts, declared, source, runs, json, refused>> BY DEF call_contract
  <1>8. ASSUME NEW v \in Registered(k), update_env(k, v), UNCHANGED <<disturbed, misread>>
        PROVE  DeployInv'
    <2>1. v \in Nat /\ v # 0 BY <1>2, <1>5, RegisteredAre
    <2>2. \A j \in Keys : env'.address[j] = IF j = k THEN v ELSE env.address[j]
      BY <1>2, <1>5, <1>8, <2>1, Updates
    <2>p. \A q \in Pairs : \A c \in {"PT", "YT"} :
            env'.address[<<c, q>>] = env.address[<<c, q>>]
      BY <2>2, KeysAre
    <2>3. PairsWhole'
      <3>1. \A q \in Pairs : Head(script.todo) # ReadOf(<<"YT", q>>)
        BY <1>1 DEF This, ReadOf
      <3>2. ASSUME ~disturbed', NEW q \in Pairs
            PROVE  IsSet(<<"PT", q>>)' => IsSet(<<"YT", q>>)'
        BY <1>8, <2>p, <3>1, <3>2 DEF PairsWhole, IsSet
      <3>3. ~disturbed' => misread'.address = {} BY <1>8 DEF PairsWhole
      <3> QED BY <3>2, <3>3 DEF PairsWhole
    <2>4. Paired(env)' BY <1>8, <1>u, <2>p DEF Paired
    <2> HIDE DEF k
    <2> QED BY <1>1, <1>2, <1>4, <1>5, <1>7, <1>8, <1>u, <2>3, <2>4, AnswerStep DEF k
  <1>9. ASSUME NEW v \in Nat, update_env(k, v), disturbed' = TRUE,
               misread' = [misread EXCEPT !.address = @ \cup {k}]
        PROVE  DeployInv'
    <2> HIDE DEF k
    <2> QED BY <1>1, <1>2, <1>4, <1>5, <1>9, <1>u, MisreadStep DEF k
  <1>10. ASSUME UNCHANGED <<env, sh>>, disturbed' = TRUE,
                misread' = [misread EXCEPT !.address = @ \cup {k}]
         PROVE  DeployInv'
    <2>0. /\ misread'.address = misread.address \cup {k} /\ misread'.hash = misread.hash
          /\ misread' \in [address : SUBSET AskedKeys, hash : SUBSET Range(Classes)]
      BY <1>5, <1>10 DEF DeployTypeOK
    <2>2. DeployTypeOK' BY <1>3, <1>10, <1>u, <2>0 DEF DeployTypeOK
    <2>3. ShellAgrees' BY <1>2, <1>3, <1>10, Running DEF ShellAgrees
    <2>4. Complete(env)' /\ Paired(env)' /\ Unique' /\ Twins' /\ Recorded' = Recorded
      BY <1>10, <1>u, <2>0, SameData, SameIsSame
    <2>5. InOrder'
      <3>1. Gives(This) = {k} BY <1>1 DEF Gives, ReadOf
      <3>2. \A l \in Recorded \cup Gives(This) :
              l \in Recorded' \/ (disturbed' /\ l[1] \in {"PT", "YT", "Market"})
        BY <1>10, <2>4, <3>1
      <3> QED BY <1>2, <1>3, <1>10, <2>2, <3>2, OrderMoves
    <2>6. Exported' BY <1>10, <1>u, <2>0, SameExport, SameIsSame
    <2>7. PairsWhole' /\ Accounted' BY <1>10, DisturbedData
    <2>8. HashesDeclared' BY <1>10, <1>u, <2>0, SameHashes
    <2> QED BY <1>4, <2>2, <2>3, <2>4, <2>5, <2>6, <2>7, <2>8
  <1> QED BY <1>1, <1>5, <1>8, <1>9, <1>10, ReadOutcomes

LEMMA ReadStep == ASSUME DeployInv, call_contract PROVE DeployInv'
  <1>1. \/ IsReadingPT(This, Tail(script.todo)) \/ IsReadingYT(This, Tail(script.todo))
        \/ IsReadingMarket(This, Tail(script.todo))
    BY OtherHead DEF DeployInv, call_contract
  <1> QED BY <1>1, ReadPTStep, ReadYTStep, ReadMarketStep

-----------------------------------------------------------------------------
(* The factories make contracts *)

\* What a factory makes has the class it was constructed with.
LEMMA NewInstance ==
  ASSUME DeployInv, script.todo # <<>>, NEW maker \in {"Factory", "MarketFactory"},
         NEW kind \in Makes(maker), IsSet(<<maker, NoPair>>),
         NEW of \in SUBSET Nat, NEW expiry \in Nat
  PROVE  /\ Made(maker, kind, of, expiry) \in AnyContract
         /\ Made(maker, kind, of, expiry).kind = kind
         /\ Made(maker, kind, of, expiry).of = of
         /\ Made(maker, kind, of, expiry).expiry = expiry
  <1>1. /\ sh.address = env.address /\ sh \in Names /\ contracts \in Seq(AnyContract)
    BY Running DEF DeployInv, DeployTypeOK
  <1>2. PICK i : i = env.address[<<maker, NoPair>>] OBVIOUS
  <1>3. i \in DOMAIN contracts /\ contracts[i].kind = maker
    <2>1. <<maker, NoPair>> \in Keys /\ <<maker, NoPair>>[1] = maker BY KeysAre, CoreNames
    <2>2. <<maker, NoPair>> \notin misread.address
      BY <2>1 DEF DeployInv, DeployTypeOK, AskedKeys
    <2> QED BY <1>2, <2>1, <2>2 DEF DeployInv, Complete, IsSet
  <1>4. contracts[i] \in ContractsOf(maker)
    <2>1. contracts[i] \in AnyContract BY <1>1, <1>3
    <2>2. PICK k \in Range(Classes) : contracts[i] \in ContractsOf(k) BY <2>1 DEF AnyContract
    <2>3. k = maker BY <1>3, <2>2 DEF ContractsOf
    <2> QED BY <2>2, <2>3
  <1>5. contracts[i].makes[kind] \in Nat BY <1>4 DEF ContractsOf
  <1>6. kind \in Range(Classes) BY ClassNames DEF Makes
  <1>7. Made(maker, kind, of, expiry) = Contract(kind, of, expiry, contracts[i].makes[kind])
    BY <1>1, <1>2 DEF Made, Address
  <1> QED BY <1>1, <1>5, <1>6, <1>7, NewContract

\* A step in which a factory makes contracts.
LEMMA CreatedStep ==
  ASSUME DeployInv, NEW op \in {"create", "create_market"}, Doing(op), Continue(<<>>),
         contracts' \in Seq(AnyContract), Grown,
         UNCHANGED <<env, sh, declared, source, runs, json, disturbed, misread, refused>>,
         Shape', Unique', Twins', Accounted'
  PROVE  DeployInv'
  <1> USE DEF DeployInv
  <1>1. script.todo # <<>> /\ This.op = op BY DoingSome
  <1>2. /\ script' \in Scripts /\ script'.todo = Tail(script.todo)
        /\ script'.name = script.name /\ ended' = ended
    BY <1>1, Moves
  <1>3. DeployTypeOK' BY <1>2 DEF DeployTypeOK
  <1>4. ShellAgrees' BY <1>1, <1>2, Running DEF ShellAgrees
  <1>5. Complete(env)' /\ Paired(env)' /\ Exported' BY GrownNames
  <1>6. InOrder'
    <2>1. Gives(This) = {} BY <1>1 DEF Gives
    <2>2. Recorded' = Recorded BY DEF Recorded
    <2> QED BY <1>1, <1>2, <1>3, <2>1, <2>2, OrderMoves
  <1>7. PairsWhole'
    <2>1. Settled BY <1>1 DEF Settled
    <2>2. \A l : IsSet(l)' <=> IsSet(l) BY DEF IsSet
    <2> QED BY <2>1, <2>2, SettledPairs
  <1>8. HashesDeclared' BY SameHashes
  <1> QED BY <1>3, <1>4, <1>5, <1>6, <1>7, <1>8

LEMMA CreateStep == ASSUME DeployInv, create_yield_contracts PROVE DeployInv'
  <1> USE DEF DeployInv
  <1>1. /\ script.todo # <<>> /\ Doing("create") /\ Submitted(<<>>)
        /\ IsCreating(This, Tail(script.todo))
    BY OtherHead DEF create_yield_contracts
  <1>2. PICK p \in Pairs, rest \in Seq(PlainCommands) :
          /\ IsSet(<<"SY", p>>) /\ IsSet(<<"Factory", NoPair>>) /\ ~IsSet(<<"PT", p>>)
          /\ This = Create(p)
          /\ Tail(script.todo) = <<ReadOf(<<"PT", p>>), ReadOf(<<"YT", p>>)>> \o rest
    BY <1>1 DEF IsCreating
  <1>3. This.pair = p BY <1>2 DEF Create
  <1>4. PICK of : of = {sh.address[<<"SY", p>>]} OBVIOUS
  <1>5. PICK expiry : expiry = sh.expiry OBVIOUS
  <1>6. PICK pt : pt = Made("Factory", "PT", of, expiry) OBVIOUS
  <1>7. PICK yt : yt = Made("Factory", "YT", of, expiry) OBVIOUS
  <1>8. of \in SUBSET Nat /\ expiry \in Nat
    <2>1. <<"SY", p>> \in Keys /\ sh \in Names BY <1>1, KeysAre, Running
    <2> QED BY <1>4, <1>5, <2>1 DEF Names
  <1>9. /\ pt \in AnyContract /\ pt.kind = "PT" /\ pt.of = of /\ pt.expiry = expiry
        /\ yt \in AnyContract /\ yt.kind = "YT" /\ yt.of = of /\ yt.expiry = expiry
    <2> HIDE DEF DeployInv
    <2>1. "PT" \in Makes("Factory") /\ "YT" \in Makes("Factory") BY DEF Makes
    <2>2. /\ Made("Factory", "PT", of, expiry) \in AnyContract
          /\ Made("Factory", "PT", of, expiry).kind = "PT"
          /\ Made("Factory", "PT", of, expiry).of = of
          /\ Made("Factory", "PT", of, expiry).expiry = expiry
      BY <1>1, <1>2, <1>8, <2>1, NewInstance
    <2>3. /\ Made("Factory", "YT", of, expiry) \in AnyContract
          /\ Made("Factory", "YT", of, expiry).kind = "YT"
          /\ Made("Factory", "YT", of, expiry).of = of
          /\ Made("Factory", "YT", of, expiry).expiry = expiry
      BY <1>1, <1>2, <1>8, <2>1, NewInstance
    <2> QED BY <1>6, <1>7, <2>2, <2>3
  <1>10. PICK n : n = Len(contracts) OBVIOUS
  <1>11. contracts \in Seq(AnyContract) BY DEF DeployTypeOK
  <1>12. /\ contracts' = contracts \o <<pt, yt>>
         /\ UNCHANGED <<env, declared, source, runs, json, misread, refused>>
    BY <1>3, <1>4, <1>5, <1>6, <1>7 DEF create_yield_contracts
  <1>13. /\ contracts' \in Seq(AnyContract) /\ DOMAIN contracts' = DOMAIN contracts \cup {n + 1, n + 2}
         /\ n + 1 \notin DOMAIN contracts /\ n + 2 \notin DOMAIN contracts /\ n + 1 # n + 2
         /\ contracts'[n + 1] = pt /\ contracts'[n + 2] = yt
         /\ \A i \in DOMAIN contracts : contracts'[i] = contracts[i]
    <2>1. <<pt, yt>> \in Seq(AnyContract) /\ Len(<<pt, yt>>) = 2
          /\ <<pt, yt>>[1] = pt /\ <<pt, yt>>[2] = yt
      BY <1>9
    <2>2. n \in Nat /\ DOMAIN contracts = 1..n BY <1>10, <1>11
    <2>3. /\ contracts' \in Seq(AnyContract) /\ Len(contracts') = n + 2
          /\ \A i \in 1..n : contracts'[i] = contracts[i]
          /\ \A i \in 1..2 : contracts'[n + i] = <<pt, yt>>[i]
      BY <1>10, <1>11, <1>12, <2>1, ConcatProperties
    <2>4. DOMAIN contracts' = 1..(n + 2) BY <2>2, <2>3
    <2> QED BY <2>1, <2>2, <2>3, <2>4
  <1>14. Grown BY <1>13 DEF Grown
  <1>15. \A i \in DOMAIN contracts :
           ~(contracts[i].kind \in {"PT", "YT"} /\ contracts[i].of = of
             /\ contracts[i].expiry = expiry)
    <2>1. Existing("PT", of, expiry) = {}
      BY <1>3, <1>4, <1>5 DEF create_yield_contracts
    <2>2. \A i \in DOMAIN contracts :
            ~(contracts[i].kind = "PT" /\ contracts[i].of = of /\ contracts[i].expiry = expiry)
      BY <2>1 DEF Existing
    <2> QED BY <2>2 DEF Twins
  <1>16. Unique'
    <2> SUFFICES ASSUME NEW i \in DOMAIN contracts', NEW j \in DOMAIN contracts',
                        contracts'[i].kind \in {"PT", "YT", "Market"},
                        contracts'[i].kind = contracts'[j].kind,
                        contracts'[i].of = contracts'[j].of,
                        contracts'[i].expiry = contracts'[j].expiry
                 PROVE  i = j
      BY DEF Unique
    <2>1. CASE i \in DOMAIN contracts /\ j \in DOMAIN contracts
      BY <1>13, <2>1 DEF Unique
    <2>2. CASE i \notin DOMAIN contracts /\ j \in DOMAIN contracts
      BY <1>9, <1>13, <1>15, <2>2
    <2>3. CASE i \in DOMAIN contracts /\ j \notin DOMAIN contracts
      BY <1>9, <1>13, <1>15, <2>3
    <2>4. CASE i \notin DOMAIN contracts /\ j \notin DOMAIN contracts
      BY <1>9, <1>13, <2>4
    <2> QED BY <2>1, <2>2, <2>3, <2>4
  <1>17. Twins'
    <2> SUFFICES ASSUME NEW i \in DOMAIN contracts', contracts'[i].kind = "YT"
                 PROVE  \E j \in DOMAIN contracts' :
                          /\ contracts'[j].kind = "PT"
                          /\ contracts'[j].of = contracts'[i].of
                          /\ contracts'[j].expiry = contracts'[i].expiry
      BY DEF Twins
    <2>1. CASE i \in DOMAIN contracts
      <3>1. PICK j \in DOMAIN contracts :
              /\ contracts[j].kind = "PT"
              /\ contracts[j].of = contracts[i].of /\ contracts[j].expiry = contracts[i].expiry
        BY <1>13, <2>1 DEF Twins
      <3> QED BY <1>13, <2>1, <3>1
    <2>2. CASE i \notin DOMAIN contracts
      <3>1. i = n + 2 BY <1>9, <1>13, <2>2
      <3> QED BY <1>9, <1>13, <3>1
    <2> QED BY <2>1, <2>2
  <1>18. CASE Continue(<<>>) /\ UNCHANGED <<sh, disturbed>>
    <2>1. ReadOf(<<"PT", p>>) \in Commands /\ ReadOf(<<"YT", p>>) \in Commands
      BY KeysAre, OtherCommands
    <2>2. rest \in Seq(Commands) BY PlainLists
    <2> DEFINE more == <<ReadOf(<<"PT", p>>), ReadOf(<<"YT", p>>)>>
    <2>3. script'.todo = more \o rest BY <1>1, <1>2, <1>18, Moves
    <2>4. Shape'
      <3>1. IsSet(<<"SY", p>>)' /\ ~IsSet(<<"PT", p>>)' BY <1>2, <1>12 DEF IsSet
      <3>2. UnderWay(more)' BY <3>1 DEF UnderWay
      <3>3. more \in Seq(Commands) BY <2>1
      <3> HIDE DEF more
      <3> QED BY <2>3, <3>2, <3>3, ShapeNext
    <2>5. Accounted'
      <3>1. Awaited = {} BY <1>1, DoingSome DEF Awaited, This
      <3>2. Head(script'.todo) = ReadOf(<<"PT", p>>) BY <2>1, <2>2, <2>3, Ahead2
      <3>3. script'.todo # <<>>
        <4>1. more \in Seq(Commands) /\ Len(more) = 2 BY <2>1
        <4>2. script'.todo \in Seq(Commands) /\ Len(script'.todo) = 2 + Len(rest)
          BY <2>2, <2>3, <4>1, ConcatProperties
        <4>3. Len(rest) \in Nat BY <2>2
        <4>4. Len(<<>>) = 0 OBVIOUS
        <4> QED BY <4>2, <4>3, <4>4
      <3>4. Awaited' = Registered(<<"PT", p>>)' \cup Registered(<<"YT", p>>)'
        <4>1. Head(script'.todo).op = "read" /\ Head(script'.todo).key = <<"PT", p>>
          BY <3>2 DEF ReadOf
        <4>2. <<"PT", p>>[1] = "PT" /\ <<"PT", p>>[2] = p OBVIOUS
        <4> QED BY <3>3, <4>1, <4>2 DEF Awaited
      <3>5. n + 1 \in Registered(<<"PT", p>>)' /\ n + 2 \in Registered(<<"YT", p>>)'
        BY <1>4, <1>5, <1>9, <1>12, <1>13, <1>18 DEF Registered, Existing
      <3> QED BY <1>12, <1>13, <1>18, <3>1, <3>4, <3>5 DEF Accounted
    <2> QED BY <1>1, <1>12, <1>13, <1>14, <1>16, <1>17, <1>18, <2>4, <2>5, CreatedStep
  <1>19. CASE Stop("stopped") /\ disturbed' = TRUE
    BY <1>12, <1>13, <1>14, <1>16, <1>17, <1>19, UnheardStep
  <1> QED BY <1>1, <1>18, <1>19 DEF Submitted

LEMMA CreateMarketStep == ASSUME DeployInv, create_market PROVE DeployInv'
  <1> USE DEF DeployInv
  <1>1. script.todo # <<>> /\ Doing("create_market") /\ IsCreatingMarket(This, Tail(script.todo))
    BY OtherHead DEF create_market
  <1>2. PICK p \in Pairs, rest \in Seq(PlainCommands) :
          /\ IsSet(<<"PT", p>>) /\ IsSet(<<"MarketFactory", NoPair>>) /\ ~IsSet(<<"Market", p>>)
          /\ This = CreateMarket(p) /\ Tail(script.todo) = <<ReadOf(<<"Market", p>>)>> \o rest
    BY <1>1 DEF IsCreatingMarket
  <1>3. This.pair = p BY <1>2 DEF CreateMarket
  <1>4. PICK of : of = {sh.address[<<"PT", p>>]} OBVIOUS
  <1>5. Existing("Market", of, 0) = {} BY <1>3, <1>4 DEF create_market
  <1>6. PICK market : market = Made("MarketFactory", "Market", of, 0) OBVIOUS
  <1>7. of \in SUBSET Nat
    <2>1. <<"PT", p>> \in Keys /\ sh \in Names BY <1>1, KeysAre, Running
    <2> QED BY <1>4, <2>1 DEF Names
  <1>8. /\ market \in AnyContract /\ market.kind = "Market" /\ market.of = of
        /\ market.expiry = 0
    <2>1. "Market" \in Makes("MarketFactory") BY DEF Makes
    <2>2. /\ Made("MarketFactory", "Market", of, 0) \in AnyContract
          /\ Made("MarketFactory", "Market", of, 0).kind = "Market"
          /\ Made("MarketFactory", "Market", of, 0).of = of
          /\ Made("MarketFactory", "Market", of, 0).expiry = 0
      <3>1. DeployInv /\ script.todo # <<>> /\ IsSet(<<"MarketFactory", NoPair>>)
        BY <1>1, <1>2
      <3>2. PICK expiry \in Nat : expiry = 0 OBVIOUS
      <3>3. "MarketFactory" \in {"Factory", "MarketFactory"} OBVIOUS
      <3> HIDE DEF DeployInv
      <3>4. /\ Made("MarketFactory", "Market", of, expiry) \in AnyContract
            /\ Made("MarketFactory", "Market", of, expiry).kind = "Market"
            /\ Made("MarketFactory", "Market", of, expiry).of = of
            /\ Made("MarketFactory", "Market", of, expiry).expiry = expiry
        BY <1>7, <2>1, <3>1, <3>2, <3>3, NewInstance
      <3> QED BY <3>2, <3>4
    <2> QED BY <1>6, <2>2
  <1>9. PICK n : n = Len(contracts) + 1 OBVIOUS
  <1>10. contracts \in Seq(AnyContract) BY DEF DeployTypeOK
  <1>11. /\ contracts' = Append(contracts, market) /\ Submitted(<<>>)
         /\ UNCHANGED <<env, declared, source, runs, json, misread, refused>>
    BY <1>3, <1>4, <1>5, <1>6 DEF create_market
  <1>12. /\ contracts' \in Seq(AnyContract) /\ DOMAIN contracts' = DOMAIN contracts \cup {n}
         /\ n \notin DOMAIN contracts /\ contracts'[n] = market
         /\ \A i \in DOMAIN contracts : contracts'[i] = contracts[i]
    BY <1>8, <1>9, <1>10, <1>11, AppendProperties
  <1>13. Grown BY <1>12 DEF Grown
  <1>14. \A i \in DOMAIN contracts :
           ~(contracts[i].kind = "Market" /\ contracts[i].of = of /\ contracts[i].expiry = 0)
    BY <1>5 DEF Existing
  <1>15. Unique'
    <2> SUFFICES ASSUME NEW i \in DOMAIN contracts', NEW j \in DOMAIN contracts',
                        contracts'[i].kind \in {"PT", "YT", "Market"},
                        contracts'[i].kind = contracts'[j].kind,
                        contracts'[i].of = contracts'[j].of,
                        contracts'[i].expiry = contracts'[j].expiry
                 PROVE  i = j
      BY DEF Unique
    <2>1. CASE i \in DOMAIN contracts /\ j \in DOMAIN contracts
      BY <1>12, <2>1 DEF Unique
    <2>2. CASE i \notin DOMAIN contracts /\ j \in DOMAIN contracts
      BY <1>8, <1>12, <1>14, <2>2
    <2>3. CASE i \in DOMAIN contracts /\ j \notin DOMAIN contracts
      BY <1>8, <1>12, <1>14, <2>3
    <2> QED BY <1>12, <2>1, <2>2, <2>3
  <1>16. Twins'
    <2> SUFFICES ASSUME NEW i \in DOMAIN contracts', contracts'[i].kind = "YT"
                 PROVE  \E j \in DOMAIN contracts' :
                          /\ contracts'[j].kind = "PT"
                          /\ contracts'[j].of = contracts'[i].of
                          /\ contracts'[j].expiry = contracts'[i].expiry
      BY DEF Twins
    <2>1. i \in DOMAIN contracts BY <1>8, <1>12
    <2>2. PICK j \in DOMAIN contracts :
            /\ contracts[j].kind = "PT"
            /\ contracts[j].of = contracts[i].of /\ contracts[j].expiry = contracts[i].expiry
      BY <1>12, <2>1 DEF Twins
    <2> QED BY <1>12, <2>1, <2>2
  <1>17. CASE Continue(<<>>) /\ UNCHANGED <<sh, disturbed>>
    <2>1. ReadOf(<<"Market", p>>) \in Commands BY KeysAre, OtherCommands
    <2>2. rest \in Seq(Commands) BY PlainLists
    <2> DEFINE more == <<ReadOf(<<"Market", p>>)>>
    <2>3. script'.todo = more \o rest BY <1>1, <1>2, <1>17, Moves
    <2>4. Shape'
      <3>1. IsSet(<<"PT", p>>)' /\ ~IsSet(<<"Market", p>>)' BY <1>2, <1>11 DEF IsSet
      <3>2. UnderWay(more)' BY <3>1 DEF UnderWay
      <3>3. more \in Seq(Commands) BY <2>1
      <3> HIDE DEF more
      <3> QED BY <2>3, <3>2, <3>3, ShapeNext
    <2>5. Accounted'
      <3>1. Awaited = {} BY <1>1, DoingSome DEF Awaited, This
      <3>2. Head(script'.todo) = ReadOf(<<"Market", p>>) /\ script'.todo # <<>>
        BY <2>1, <2>2, <2>3, Begins
      <3>3. Registered(<<"Market", p>>)' \subseteq Awaited'
        BY <3>2 DEF Awaited, ReadOf
      <3>4. n \in Registered(<<"Market", p>>)'
        BY <1>4, <1>8, <1>11, <1>12, <1>17 DEF Registered, Existing
      <3> QED BY <1>11, <1>12, <1>17, <3>1, <3>3, <3>4 DEF Accounted
    <2> QED BY <1>1, <1>11, <1>12, <1>13, <1>15, <1>16, <1>17, <2>4, <2>5, CreatedStep
  <1>18. CASE Stop("stopped") /\ disturbed' = TRUE
    BY <1>11, <1>12, <1>13, <1>15, <1>16, <1>18, UnheardStep
  <1> QED BY <1>11, <1>17, <1>18 DEF Submitted

-----------------------------------------------------------------------------
(* upgrade.sh *)

\* The instances of a class are upgraded one by one, and need nothing.
LEMMA InstancesAre ==
  ASSUME NEW c \in Range(Classes), NEW v \in Nat
  PROVE  /\ instance_addresses(c, v) \in Seq(PlainCommands)
         /\ \A i \in DOMAIN instance_addresses(c, v) : instance_addresses(c, v)[i].op = "upgrade"
  <1>1. CASE c \in Range(Core)
    <2>1. instance_addresses(c, v) = <<[op |-> "upgrade", key |-> <<c, NoPair>>, new |-> v]>>
      BY <1>1 DEF instance_addresses
    <2>2. [op |-> "upgrade", key |-> <<c, NoPair>>, new |-> v] \in PlainCommands BY <1>1, KeysAre, PlainAre
    <2> QED BY <2>1, <2>2
  <1>2. CASE c \notin Range(Core)
    <2>1. PICK ps \in Seq(Pairs) : ps = SetToSeq(Pairs) BY PairsListed
    <2>2. instance_addresses(c, v) =
            [i \in 1..Len(ps) |-> [op |-> "upgrade", key |-> <<c, ps[i]>>, new |-> v]]
      BY <1>2, <2>1 DEF instance_addresses, ForEach
    <2>3. c \in {"MockYieldToken", "SY", "PT", "YT", "Market"}
      BY <1>2, ClassNames, CoreNames
    <2>4. \A i \in 1..Len(ps) : [op |-> "upgrade", key |-> <<c, ps[i]>>, new |-> v] \in PlainCommands
      <3> TAKE i \in 1..Len(ps)
      <3>1. ps[i] \in Pairs BY <2>1
      <3>2. <<c, ps[i]>> \in Keys BY <2>3, <3>1, KeysAre
      <3> QED BY <3>2, PlainAre
    <2> QED BY <2>1, <2>2, <2>4
  <1> QED BY <1>1, <1>2

\* A counter of upgrade.sh is counted up, or ends the script.
LEMMA CountStep ==
  ASSUME DeployInv, Doing("check"), NEW counter \in {"skipped", "needed"},
         NEW more \in Seq(PlainCommands), Count(counter, more),
         \A i \in DOMAIN more : Needs(more[i], disturbed) = {},
         UNCHANGED <<env, contracts, declared, source, runs, json, disturbed, misread, refused>>
  PROVE  DeployInv'
  <1>1. "check" \in PlainOp /\ script.todo # <<>> /\ This.op = "check"
    BY DoingSome DEF PlainOp
  <1>2. Gives(This) = {} BY <1>1 DEF Gives
  <1>3. more \in Seq(Commands) BY PlainLists
  <1>4. CASE counter \in script.counted \/ script.legacy
    <2>1. script \in Scripts /\ Tail(script.todo) \in Seq(Commands)
      BY <1>1, Splits DEF DeployInv, DeployTypeOK, Scripts
    <2>2. PICK t : t = more \o Tail(script.todo) OBVIOUS
    <2>3. t \in Seq(Commands) BY <1>3, <2>1, <2>2, ConcatProperties
    <2>4. script' = [script EXCEPT !.todo = t, !.counted = @ \cup {counter}, !.recorded = FALSE]
          /\ UNCHANGED <<sh, ended>>
      BY <1>4, <2>2 DEF Count
    <2>5. script' \in Scripts /\ script'.name = script.name /\ script'.todo = t
      BY <2>1, <2>3, <2>4 DEF Scripts
    <2>6. OrderedFrom(more, Recorded, disturbed) BY NeedNothing
    <2>7. HashesDeclared' BY SameHashes DEF DeployInv
    <2>8. /\ contracts' \in Seq(AnyContract) /\ declared' \subseteq Range(Classes) \X Nat
          /\ refused' \in BOOLEAN
          /\ misread' \in [address : SUBSET AskedKeys, hash : SUBSET Range(Classes)]
      BY DEF DeployInv, DeployTypeOK
    <2>9. script'.todo = more \o Tail(script.todo) BY <2>2, <2>5
    <2> QED
      BY <1>1, <1>2, <1>3, <2>4, <2>5, <2>6, <2>7, <2>8, <2>9, Running, ContinueStep, SameIsSame
  <1>5. CASE ~(counter \in script.counted \/ script.legacy)
    <2>1. Stop("broken") BY <1>5 DEF Count
    <2>2. Settled BY <1>1 DEF Settled
    <2>3. Exported' BY SameExport, SameIsSame DEF DeployInv
    <2>4. json' \in Names BY DEF DeployInv, DeployTypeOK
    <2> QED BY <2>1, <2>2, <2>3, <2>4, StopStep
  <1> QED BY <1>4, <1>5

LEMMA CheckStep == ASSUME DeployInv, check_class PROVE DeployInv'
  <1>1. /\ "check" \in PlainOp /\ Doing("check") /\ script.todo # <<>> /\ This.op = "check"
        /\ This.class \in Range(Classes)
    <2>1. "check" \in PlainOp BY DEF PlainOp
    <2>2. Doing("check") BY DEF check_class
    <2> QED BY <2>1, <2>2, PlainHead, PlainOps DEF DeployInv
  <1>2. Gives(This) = {} BY <1>1 DEF Gives
  <1>3. UNCHANGED <<env, contracts, declared, source, runs, json, disturbed, misread, refused>>
    BY DEF check_class
  <1>4. \/ Continue(<<>>) /\ UNCHANGED sh
        \/ Count("skipped", <<>>)
        \/ \E v \in Nat : Count("needed", instance_addresses(This.class, v))
    <2>1. source \in Nat BY DEF DeployInv, DeployTypeOK
    <2> QED BY <2>1, DeployAssumption DEF check_class
  <1>5. CASE Continue(<<>>) /\ UNCHANGED sh
    <2>1. declared \subseteq Range(Classes) \X Nat BY DEF DeployInv, DeployTypeOK
    <2> QED BY <1>1, <1>2, <1>3, <1>5, <2>1, PassStep
  <1>6. CASE Count("skipped", <<>>)
    <2>1. <<>> \in Seq(PlainCommands) /\ \A i \in DOMAIN <<>> : Needs(<<>>[i], disturbed) = {}
      OBVIOUS
    <2> QED BY <1>1, <1>3, <1>6, <2>1, CountStep
  <1>7. ASSUME NEW v \in Nat, Count("needed", instance_addresses(This.class, v))
        PROVE  DeployInv'
    <2>1. instance_addresses(This.class, v) \in Seq(PlainCommands) BY <1>1, InstancesAre
    <2>2. \A i \in DOMAIN instance_addresses(This.class, v) :
            Needs(instance_addresses(This.class, v)[i], disturbed) = {}
      BY <1>1, InstancesAre DEF Needs
    <2> QED BY <1>1, <1>3, <1>7, <2>1, <2>2, CountStep
  <1> QED BY <1>4, <1>5, <1>6, <1>7

\* An instance of a class is at its turn.
LEMMA UpgradeHead ==
  ASSUME DeployInv, Doing("upgrade")
  PROVE  /\ "upgrade" \in PlainOp /\ script.todo # <<>> /\ This.op = "upgrade"
         /\ This.key \in Keys /\ This.key[1] \in Range(Classes) /\ This.new \in Nat
         /\ Gives(This) = {}
  <1>1. "upgrade" \in PlainOp BY DEF PlainOp
  <1>2. script.todo # <<>> /\ This.op = "upgrade" /\ This.key \in Keys /\ This.new \in Nat
    BY <1>1, PlainHead, PlainOps DEF DeployInv
  <1>3. This.key[1] \in Range(Classes) BY <1>2, KeysAre, CoreNames, ClassNames
  <1>4. Gives(This) = {} BY <1>2 DEF Gives
  <1> QED BY <1>1, <1>2, <1>3, <1>4

LEMMA UpgradeEndsStep == ASSUME DeployInv, upgrade_contract_ends PROVE DeployInv'
  <1>1. UNCHANGED <<env, contracts, declared, source, runs, json, disturbed, misread, refused>>
        /\ Doing("upgrade")
    BY DEF upgrade_contract_ends
  <1>2. CASE Continue(<<>>) /\ UNCHANGED sh
    <2>1. declared \subseteq Range(Classes) \X Nat BY DEF DeployInv, DeployTypeOK
    <2> QED BY <1>1, <1>2, <2>1, UpgradeHead, PassStep
  <1>3. CASE Stop("stopped")
    <2>1. Settled BY <1>1, DoingSome DEF Settled
    <2>2. Exported' BY <1>1, SameExport, SameIsSame DEF DeployInv
    <2>3. json' \in Names BY <1>1 DEF DeployInv, DeployTypeOK
    <2> QED BY <1>1, <1>3, <2>1, <2>2, <2>3, StopStep
  <1> QED BY <1>2, <1>3 DEF upgrade_contract_ends

\* The class of an instance that was upgraded is declared.
LEMMA PerformedIs ==
  ASSUME NEW c \in Range(Classes), NEW v \in Nat, NEW d
  PROVE  /\ <<Performed(c, v)>> \in Seq(Commands)
         /\ \A i \in DOMAIN <<Performed(c, v)>> : Needs(<<Performed(c, v)>>[i], d) = {}
         /\ (refused \/ <<c, v>> \in declared)' => UnderWay(<<Performed(c, v)>>)'
  <1>1. Performed(c, v) \in Commands BY OtherCommands
  <1>2. Needs(Performed(c, v), d) = {} BY DEF Needs, Performed
  <1>3. (refused \/ <<c, v>> \in declared)' => UnderWay(<<Performed(c, v)>>)'
    BY DEF UnderWay
  <1> QED BY <1>1, <1>2, <1>3

LEMMA UpgradeRefusedStep == ASSUME DeployInv, upgrade_contract_refused PROVE DeployInv'
  <1> USE DEF upgrade_contract_refused
  <1>1. /\ "upgrade" \in PlainOp /\ Doing("upgrade") /\ Gives(This) = {}
    BY UpgradeHead
  <1>2. PICK c \in Range(Classes), v \in Nat : c = This.key[1] /\ v = This.new BY UpgradeHead
  <1>3. PICK more : more = <<Performed(c, v)>> OBVIOUS
  <1>4. /\ more \in Seq(Commands) /\ \A i \in DOMAIN more : Needs(more[i], disturbed) = {}
    BY <1>3, PerformedIs
  <1>5. UnderWay(more)'
    <2>1. UnderWay(<<Performed(c, v)>>)' BY PerformedIs
    <2> QED BY <1>3, <2>1
  <1>6. Continue(more) BY <1>2, <1>3 DEF Returns0
  <1> QED BY <1>1, <1>4, <1>5, <1>6, ExpandStep

\* The chain replaces a class by another, and changes nothing else.
LEMMA ReplacedIs ==
  ASSUME DeployInv, Doing("upgrade"), Replaced
  PROVE  /\ contracts' \in Seq(AnyContract) /\ SameContracts
         /\ <<This.key[1], This.new>> \in declared'
  <1>1. PICK c \in Range(Classes), v \in Nat : c = This.key[1] /\ v = This.new BY UpgradeHead
  <1>2. PICK a : a = sh.address[This.key] OBVIOUS
  <1>3. /\ a \in DOMAIN contracts /\ <<c, v>> \in declared'
        /\ contracts' = [contracts EXCEPT ![a].class = <<c, v>>]
    BY <1>1, <1>2 DEF Replaced
  <1>4. contracts \in Seq(AnyContract) BY DEF DeployInv, DeployTypeOK
  <1>5. PICK kind \in Range(Classes) : contracts[a] \in ContractsOf(kind)
    BY <1>3, <1>4 DEF AnyContract
  <1>6. PICK class \in Range(Classes) \X Nat : class = <<c, v>> OBVIOUS
  <1>7. PICK new : new = [contracts[a] EXCEPT !.class = class] OBVIOUS
  <1>8. /\ new \in ContractsOf(kind) /\ new.kind = contracts[a].kind
        /\ new.of = contracts[a].of /\ new.expiry = contracts[a].expiry
    BY <1>5, <1>7 DEF ContractsOf
  <1>9. new \in AnyContract BY <1>8 DEF AnyContract
  <1>10. contracts' = [contracts EXCEPT ![a] = new] BY <1>3, <1>6, <1>7
  <1>11. contracts' \in Seq(AnyContract)
    <2>1. a \in 1..Len(contracts) BY <1>3, <1>4
    <2>2. [contracts EXCEPT ![a] = new] \in Seq(AnyContract) BY <1>4, <1>9, <2>1, ExceptSeq
    <2> QED BY <1>10, <2>2
  <1>12. DOMAIN contracts' = DOMAIN contracts
         /\ \A i \in DOMAIN contracts : contracts'[i] = IF i = a THEN new ELSE contracts[i]
    BY <1>3, <1>10
  <1> QED BY <1>1, <1>3, <1>8, <1>11, <1>12 DEF SameContracts

\* What upgrade.sh declares is a class of the source.
LEMMA DeclaredStill ==
  ASSUME DeployInv, Doing("upgrade"),
         declared' \in {declared, declared \cup {<<This.key[1], source>>}}
  PROVE  declared \subseteq declared' /\ declared' \subseteq Range(Classes) \X Nat
  <1>1. This.key[1] \in Range(Classes) BY UpgradeHead
  <1>2. source \in Nat /\ declared \subseteq Range(Classes) \X Nat
    BY DEF DeployInv, DeployTypeOK
  <1> QED BY <1>1, <1>2

LEMMA UpgradeFailsStep == ASSUME DeployInv, upgrade_contract_fails PROVE DeployInv'
  <1>1. /\ Doing("upgrade") /\ declared' \in {declared, declared \cup {<<This.key[1], source>>}}
        /\ Continue(<<>>) /\ (Replaced \/ UNCHANGED contracts)
        /\ UNCHANGED <<env, sh, source, runs, json, disturbed, misread, refused>>
    BY DEF upgrade_contract_fails
  <1>2. declared \subseteq declared' /\ declared' \subseteq Range(Classes) \X Nat
    BY <1>1, DeclaredStill
  <1>3. "upgrade" \in PlainOp /\ Gives(This) = {} BY <1>1, UpgradeHead
  <1>4. contracts' \in Seq(AnyContract) /\ SameContracts
    <2>1. CASE Replaced BY <1>1, <2>1, ReplacedIs
    <2>2. CASE UNCHANGED contracts BY <2>2, SameIsSame DEF DeployInv, DeployTypeOK
    <2> QED BY <1>1, <2>1, <2>2
  <1>5. refused' = refused /\ refused \in BOOLEAN BY <1>1 DEF DeployInv, DeployTypeOK
  <1>6. PICK more : more = <<>> OBVIOUS
  <1>7. more \in Seq(Commands) /\ more \in Seq(PlainCommands) /\ DOMAIN more = {} BY <1>6
  <1>8. Continue(more) BY <1>1, <1>6
  <1>9. \A i \in DOMAIN more : Needs(more[i], disturbed) = {} BY <1>7
  <1>10. UNCHANGED <<env, sh, source, runs, json, disturbed, misread>> BY <1>1
  <1>11. (refused => refused') /\ refused' \in BOOLEAN BY <1>5
  <1> QED BY <1>1, <1>2, <1>3, <1>4, <1>7, <1>8, <1>9, <1>10, <1>11, EffectStep

LEMMA UpgradeStep == ASSUME DeployInv, upgrade_contract PROVE DeployInv'
  <1>1. /\ Doing("upgrade") /\ declared' = declared \cup {<<This.key[1], source>>}
        /\ Returns0 /\ Replaced
        /\ UNCHANGED <<env, sh, source, runs, json, disturbed, misread, refused>>
    BY DEF upgrade_contract
  <1>2. declared \subseteq declared' /\ declared' \subseteq Range(Classes) \X Nat
    BY <1>1, DeclaredStill
  <1>3. "upgrade" \in PlainOp /\ Gives(This) = {} BY <1>1, UpgradeHead
  <1>4. PICK c \in Range(Classes), v \in Nat : c = This.key[1] /\ v = This.new
    BY <1>1, UpgradeHead
  <1>5. contracts' \in Seq(AnyContract) /\ SameContracts /\ <<c, v>> \in declared'
    BY <1>1, <1>4, ReplacedIs
  <1>6. refused' = refused /\ refused \in BOOLEAN BY <1>1 DEF DeployInv, DeployTypeOK
  <1>7. PICK more : more = <<Performed(c, v)>> OBVIOUS
  <1>8. /\ more \in Seq(Commands) /\ \A i \in DOMAIN more : Needs(more[i], disturbed) = {}
    BY <1>7, PerformedIs
  <1>9. UnderWay(more)'
    <2>1. UnderWay(<<Performed(c, v)>>)' BY <1>5, PerformedIs
    <2> QED BY <1>7, <2>1
  <1>10. Continue(more) BY <1>1, <1>4, <1>7 DEF Returns0
  <1> QED BY <1>1, <1>2, <1>3, <1>5, <1>6, <1>8, <1>9, <1>10, EffectStep

LEMMA RecordUpgradeStep == ASSUME DeployInv, record_upgrade PROVE DeployInv'
  <1> USE DEF DeployInv, record_upgrade
  <1>1. script.todo # <<>> /\ This.op = "performed" /\ IsPerformed(This, Tail(script.todo))
    BY OtherHead
  <1>2. PICK c \in Range(Classes), v \in Nat :
          /\ This.class = c /\ This.new = v /\ (refused \/ <<c, v>> \in declared)
          /\ Tail(script.todo) \in Seq(PlainCommands)
    BY <1>1 DEF IsPerformed, Performed
  <1>3. Settled BY <1>1 DEF Settled
  <1>5. CASE "performed" \in script.counted \/ script.legacy
    <2>1. script \in Scripts /\ Tail(script.todo) \in Seq(Commands)
      BY <1>1, Splits DEF DeployTypeOK, Scripts
    <2>2. PICK t : t = Tail(script.todo) OBVIOUS
    <2>3. /\ script' = [script EXCEPT !.todo = t, !.recorded = TRUE,
                                      !.counted = @ \cup {"performed"}]
          /\ UNCHANGED <<sh, ended>>
      BY <1>5, <2>2
    <2>4. script' \in Scripts /\ script'.name = script.name /\ script'.todo = Tail(script.todo)
      BY <2>1, <2>2, <2>3 DEF Scripts
    <2>5. /\ env \in Names
          /\ misread \in [address : SUBSET AskedKeys, hash : SUBSET Range(Classes)]
      BY DEF DeployTypeOK
    <2>6. \/ env' = env /\ misread' = misread
          \/ /\ env' = [env EXCEPT !.hash[c] = v]
             /\ misread' = [misread EXCEPT !.hash = @ \ {c}]
      BY <1>2, <1>5
    <2>7. /\ env' \in Names /\ env'.address = env.address /\ env'.expiry = env.expiry
          /\ misread' \in [address : SUBSET AskedKeys, hash : SUBSET Range(Classes)]
          /\ misread'.address = misread.address
          /\ \A x \in Range(Classes) :
               \/ env'.hash[x] = env.hash[x] /\ (x \in misread.hash => x \in misread'.hash)
               \/ x = c /\ env'.hash[x] = v
      <3>1. CASE env' = env /\ misread' = misread BY <2>5, <3>1
      <3>2. CASE env' = [env EXCEPT !.hash[c] = v] /\ misread' = [misread EXCEPT !.hash = @ \ {c}]
        BY <2>5, <3>2 DEF Names
      <3> QED BY <2>6, <3>1, <3>2
    <2>8. DeployTypeOK' BY <2>3, <2>4, <2>7 DEF DeployTypeOK
    <2>9. ShellAgrees' BY <1>1, <2>3, <2>4, <2>7, Running DEF ShellAgrees
    <2>10. Shape' BY <1>2, <2>4, ShapeMoves
    <2>11. Complete(env)' /\ Paired(env)' /\ Unique' /\ Twins' /\ Recorded' = Recorded
      BY <2>7, SameData, SameIsSame
    <2>12. InOrder'
      <3>1. Gives(This) = {} BY <1>1 DEF Gives
      <3> QED BY <1>1, <2>4, <2>8, <2>11, <3>1, OrderMoves
    <2>13. PairsWhole' /\ Accounted' BY <1>3, <2>7, SettledData, SameIsSame
    <2>14. HashesDeclared' BY <1>2, <2>7 DEF HashesDeclared
    <2>15. Exported' BY <2>7, SameExport, SameIsSame
    <2> QED BY <2>8, <2>9, <2>10, <2>11, <2>12, <2>13, <2>14, <2>15
  <1>6. CASE ~("performed" \in script.counted \/ script.legacy)
    <2>1. Stop("broken") /\ env' = env /\ misread' = misread BY <1>6
    <2>2. json' \in Names BY DEF DeployTypeOK
    <2>3. Exported' BY <2>1, SameExport, SameIsSame
    <2> QED BY <1>3, <2>1, <2>2, <2>3, StopStep
  <1> QED BY <1>5, <1>6

-----------------------------------------------------------------------------
(* The texts of the scripts *)

\* What a part of a text gives, and what it takes from the parts before it.
Covers(s, names) == \A k \in names : \E j \in 1..Len(s) : k \in Gives(s[j])
Part(s, taken, given) ==
  s \in Seq(PlainCommands) /\ OrderedFrom(s, taken, FALSE) /\ Covers(s, given)
KeysOf(C) == C \X Pairs
CoreKeys == {<<c, NoPair>> : c \in Range(Core)}

\* A part follows a text that gives what the part takes.
LEMMA Joined ==
  ASSUME NEW s, NEW t, NEW K, NEW L, NEW J, Part(s, {}, K), Part(t, J, L), J \subseteq K
  PROVE  Part(s \o t, {}, K \cup L)
  <1>1. s \in Seq(Commands) /\ t \in Seq(Commands) BY PlainLists DEF Part
  <1>2. OrderedFrom(s \o t, {}, FALSE) BY <1>1, OrderedConcat DEF Part, Covers
  <1>3. s \in Seq(PlainCommands) /\ t \in Seq(PlainCommands) BY DEF Part
  <1>4. /\ s \o t \in Seq(PlainCommands) /\ Len(s \o t) = Len(s) + Len(t)
        /\ \A i \in 1..Len(s) : (s \o t)[i] = s[i]
        /\ \A i \in 1..Len(t) : (s \o t)[Len(s) + i] = t[i]
        /\ Len(s) \in Nat /\ Len(t) \in Nat
    BY <1>3, ConcatProperties, LenProperties
  <1>5. Covers(s \o t, K \cup L)
    <2> SUFFICES ASSUME NEW k \in K \cup L
                 PROVE  \E j \in 1..Len(s \o t) : k \in Gives((s \o t)[j])
      BY DEF Covers
    <2>1. CASE k \in K
      <3>1. PICK j \in 1..Len(s) : k \in Gives(s[j]) BY <2>1 DEF Part, Covers
      <3>2. j \in 1..Len(s \o t) /\ (s \o t)[j] = s[j] BY <1>4
      <3> QED BY <3>1, <3>2
    <2>2. CASE k \in L
      <3>1. PICK j \in 1..Len(t) : k \in Gives(t[j]) BY <2>2 DEF Part, Covers
      <3>2. Len(s) + j \in 1..Len(s \o t) /\ (s \o t)[Len(s) + j] = t[j] BY <1>4
      <3> QED BY <3>1, <3>2
    <2> QED BY <2>1, <2>2
  <1> QED BY <1>2, <1>4, <1>5 DEF Part

\* A part that runs a command for every pair.
LEMMA EachIs ==
  ASSUME NEW s, NEW ps \in Seq(Pairs), ps = SetToSeq(Pairs), NEW K, NEW C,
         s = [i \in 1..Len(ps) |-> s[i]],
         \A i \in 1..Len(ps) :
           /\ s[i] \in PlainCommands /\ Needs(s[i], FALSE) \subseteq K
           /\ \A c \in C : <<c, ps[i]>> \in Gives(s[i])
  PROVE  Part(s, K, KeysOf(C))
  <1>1. Len(ps) \in Nat OBVIOUS
  <1>2. s \in Seq(PlainCommands) /\ Len(s) = Len(ps) /\ DOMAIN s = 1..Len(ps)
    <2>1. s \in [1..Len(ps) -> PlainCommands] OBVIOUS
    <2> QED BY <1>1, <2>1
  <1>3. OrderedFrom(s, K, FALSE) BY <1>2 DEF OrderedFrom
  <1>4. Covers(s, KeysOf(C))
    <2> SUFFICES ASSUME NEW c \in C, NEW p \in Pairs
                 PROVE  \E j \in 1..Len(s) : <<c, p>> \in Gives(s[j])
      BY DEF Covers, KeysOf
    <2>1. PICK i \in 1..Len(ps) : ps[i] = p BY PairsListed
    <2> QED BY <1>2, <2>1
  <1> QED BY <1>2, <1>3, <1>4 DEF Part

\* A command is a part that gives nothing.
LEMMA OneCommand ==
  ASSUME NEW c \in PlainCommands, NEW K, Needs(c, FALSE) \subseteq K
  PROVE  Part(<<c>>, K, {})
  <1>1. <<c>> \in Seq(PlainCommands) /\ DOMAIN <<c>> = {1} /\ <<c>>[1] = c OBVIOUS
  <1>2. OrderedFrom(<<c>>, K, FALSE) BY <1>1 DEF OrderedFrom
  <1> QED BY <1>1, <1>2 DEF Part, Covers

\* The text of deploy.sh, part by part.
LEMMA CorePart == Part(deploy_core, {}, CoreKeys)
  <1> DEFINE D(c) == Deploy(<<c, NoPair>>, LinksOf(<<c, NoPair>>))
  <1>1. \A c \in Range(Core) : D(c) \in PlainCommands
    <2> TAKE c \in Range(Core)
    <2>1. <<c, NoPair>> \in Keys /\ <<c, NoPair>>[1] \in DeployedKinds BY KeysAre DEF DeployedKinds
    <2> QED BY <2>1, PlainAre
  <1>2. deploy_core = <<D("Factory"), D("MarketFactory"), D("Router"), D("RouterStatic"),
                        D("PyLpOracle")>>
    BY DEF deploy_core, LinksOf
  <1>3. /\ Gives(D("Factory")) = {<<"Factory", NoPair>>}
        /\ Gives(D("MarketFactory")) = {<<"MarketFactory", NoPair>>}
        /\ Gives(D("Router")) = {<<"Router", NoPair>>}
        /\ Gives(D("RouterStatic")) = {<<"RouterStatic", NoPair>>}
        /\ Gives(D("PyLpOracle")) = {<<"PyLpOracle", NoPair>>}
        /\ Needs(D("Factory"), FALSE) = {} /\ Needs(D("Router"), FALSE) = {}
        /\ Needs(D("RouterStatic"), FALSE) = {} /\ Needs(D("PyLpOracle"), FALSE) = {}
        /\ Needs(D("MarketFactory"), FALSE) = {<<"Factory", NoPair>>}
    BY DEF Gives, Needs, Deploy, LinksOf
  <1> HIDE DEF D
  <1>4. deploy_core \in Seq(PlainCommands) BY <1>1, <1>2, CoreNames
  <1>5. /\ deploy_core[1] = D("Factory") /\ deploy_core[2] = D("MarketFactory")
        /\ deploy_core[3] = D("Router") /\ deploy_core[4] = D("RouterStatic")
        /\ deploy_core[5] = D("PyLpOracle")
        /\ DOMAIN deploy_core = {1, 2, 3, 4, 5} /\ Len(deploy_core) = 5
    BY <1>2
  <1>6. OrderedFrom(deploy_core, {}, FALSE)
    <2> SUFFICES ASSUME NEW i \in {1, 2, 3, 4, 5}, NEW k \in Needs(deploy_core[i], FALSE)
                 PROVE  \E j \in 1..(i - 1) : k \in Gives(deploy_core[j])
      BY <1>5 DEF OrderedFrom
    <2>1. i = 2 /\ k = <<"Factory", NoPair>> BY <1>3, <1>5
    <2>2. 1 \in 1..(i - 1) BY <2>1
    <2> QED BY <1>3, <1>5, <2>1, <2>2
  <1>7. Covers(deploy_core, CoreKeys)
    <2> SUFFICES ASSUME NEW k \in CoreKeys
                 PROVE  \E j \in {1, 2, 3, 4, 5} : k \in Gives(deploy_core[j])
      BY <1>5 DEF Covers
    <2> QED BY <1>3, <1>5, CoreNames DEF CoreKeys
  <1> QED BY <1>4, <1>6, <1>7 DEF Part

LEMMA UnderlyingPart ==
  Part(ForEach(LAMBDA p : Deploy(<<"MockYieldToken", p>>, {})), {}, KeysOf({"MockYieldToken"}))
  <1>1. PICK ps \in Seq(Pairs) : ps = SetToSeq(Pairs) BY PairsListed
  <1> DEFINE s == [i \in 1..Len(ps) |-> Deploy(<<"MockYieldToken", ps[i]>>, {})]
  <1>2. ForEach(LAMBDA p : Deploy(<<"MockYieldToken", p>>, {})) = s BY <1>1 DEF ForEach
  <1>3. \A i \in 1..Len(ps) :
          /\ s[i] \in PlainCommands /\ Needs(s[i], FALSE) \subseteq {}
          /\ \A c \in {"MockYieldToken"} : <<c, ps[i]>> \in Gives(s[i])
    <2> TAKE i \in 1..Len(ps)
    <2>1. ps[i] \in Pairs BY <1>1
    <2>2. PICK k : k = <<"MockYieldToken", ps[i]>> OBVIOUS
    <2>3. k \in Keys /\ k[1] = "MockYieldToken" BY <2>1, <2>2, KeysAre
    <2>4. LinksOf(k) = {} /\ k[1] \in DeployedKinds BY <2>3, LinksAre DEF DeployedKinds
    <2>5. s[i] = Deploy(k, {}) BY <2>2
    <2>6. Deploy(k, {}) \in PlainCommands BY <2>3, <2>4, PlainAre
    <2>7. Needs(Deploy(k, {}), FALSE) = {} /\ Gives(Deploy(k, {})) = {k}
      BY DEF Needs, Gives, Deploy
    <2> QED BY <2>2, <2>5, <2>6, <2>7
  <1>4. s = [i \in 1..Len(ps) |-> s[i]] OBVIOUS
  <1> HIDE DEF s
  <1>6. Part(s, {}, KeysOf({"MockYieldToken"})) BY <1>1, <1>3, <1>4, EachIs
  <1> QED BY <1>2, <1>6

LEMMA WrappersPart ==
  Part(ForEach(LAMBDA p : Deploy(<<"SY", p>>, {<<"MockYieldToken", p>>})),
       KeysOf({"MockYieldToken"}), KeysOf({"SY"}))
  <1>1. PICK ps \in Seq(Pairs) : ps = SetToSeq(Pairs) BY PairsListed
  <1> DEFINE s == [i \in 1..Len(ps) |-> Deploy(<<"SY", ps[i]>>, {<<"MockYieldToken", ps[i]>>})]
  <1>2. ForEach(LAMBDA p : Deploy(<<"SY", p>>, {<<"MockYieldToken", p>>})) = s
    BY <1>1 DEF ForEach
  <1>3. \A i \in 1..Len(ps) :
          /\ s[i] \in PlainCommands /\ Needs(s[i], FALSE) \subseteq KeysOf({"MockYieldToken"})
          /\ \A c \in {"SY"} : <<c, ps[i]>> \in Gives(s[i])
    <2> TAKE i \in 1..Len(ps)
    <2>1. ps[i] \in Pairs BY <1>1
    <2>2. PICK k : k = <<"SY", ps[i]>> OBVIOUS
    <2>3. k \in Keys /\ k[1] = "SY" /\ k[2] = ps[i] BY <2>1, <2>2, KeysAre
    <2>4. LinksOf(k) = {<<"MockYieldToken", ps[i]>>} /\ k[1] \in DeployedKinds
      BY <2>3, LinksAre DEF DeployedKinds
    <2>5. s[i] = Deploy(k, LinksOf(k)) BY <2>2, <2>4
    <2>6. Deploy(k, LinksOf(k)) \in PlainCommands BY <2>3, <2>4, PlainAre
    <2>7. Needs(Deploy(k, LinksOf(k)), FALSE) = LinksOf(k) /\ Gives(Deploy(k, LinksOf(k))) = {k}
      BY DEF Needs, Gives, Deploy
    <2>8. LinksOf(k) \subseteq KeysOf({"MockYieldToken"}) BY <2>1, <2>4 DEF KeysOf
    <2> QED BY <2>2, <2>5, <2>6, <2>7, <2>8
  <1>4. s = [i \in 1..Len(ps) |-> s[i]] OBVIOUS
  <1> HIDE DEF s
  <1>6. Part(s, KeysOf({"MockYieldToken"}), KeysOf({"SY"})) BY <1>1, <1>3, <1>4, EachIs
  <1> QED BY <1>2, <1>6

LEMMA MintsPart == Part(mint_to_recipient, {}, {})
  <1>1. PICK ps \in Seq(Pairs) : ps = SetToSeq(Pairs) BY PairsListed
  <1>2. mint_to_recipient = [i \in 1..Len(ps) |-> Invoke(3, 3)]
    BY <1>1 DEF mint_to_recipient, ForEach
  <1>3. Invoke(3, 3) \in PlainCommands BY PlainAre
  <1>4. Needs(Invoke(3, 3), FALSE) = {} BY DEF Needs, Invoke
  <1>5. mint_to_recipient \in Seq(PlainCommands) BY <1>1, <1>2, <1>3
  <1>6. OrderedFrom(mint_to_recipient, {}, FALSE) BY <1>2, <1>4 DEF OrderedFrom
  <1> QED BY <1>5, <1>6 DEF Part, Covers

LEMMA PairsPart ==
  Part(create_pairs, CoreKeys \cup KeysOf({"SY"}), KeysOf({"PT", "YT"}))
  <1>1. PICK ps \in Seq(Pairs) : ps = SetToSeq(Pairs) BY PairsListed
  <1> DEFINE s == [i \in 1..Len(ps) |-> [op |-> "pair", pair |-> ps[i]]]
  <1>2. create_pairs = s BY <1>1 DEF create_pairs, ForEach
  <1>3. \A i \in 1..Len(ps) :
          /\ s[i] \in PlainCommands /\ Needs(s[i], FALSE) \subseteq CoreKeys \cup KeysOf({"SY"})
          /\ \A c \in {"PT", "YT"} : <<c, ps[i]>> \in Gives(s[i])
    <2> TAKE i \in 1..Len(ps)
    <2>1. ps[i] \in Pairs BY <1>1
    <2>2. PICK c : c = [op |-> "pair", pair |-> ps[i]] OBVIOUS
    <2>3. c \in PlainCommands BY <2>1, <2>2, PlainAre
    <2>4. /\ Needs(c, FALSE) = {<<"Factory", NoPair>>, <<"SY", ps[i]>>}
          /\ Gives(c) = {<<"PT", ps[i]>>, <<"YT", ps[i]>>}
      BY <2>2 DEF Needs, Gives
    <2>5. <<"Factory", NoPair>> \in CoreKeys /\ <<"SY", ps[i]>> \in KeysOf({"SY"})
      BY <2>1, CoreNames DEF CoreKeys, KeysOf
    <2> QED BY <2>2, <2>3, <2>4, <2>5
  <1>4. s = [i \in 1..Len(ps) |-> s[i]] OBVIOUS
  <1> HIDE DEF s
  <1> QED BY <1>1, <1>2, <1>3, <1>4, EachIs

LEMMA MarketsPart ==
  Part(create_markets, CoreKeys \cup KeysOf({"PT"}), KeysOf({"Market"}))
  <1>1. PICK ps \in Seq(Pairs) : ps = SetToSeq(Pairs) BY PairsListed
  <1> DEFINE s == [i \in 1..Len(ps) |-> [op |-> "market", pair |-> ps[i]]]
  <1>2. create_markets = s BY <1>1 DEF create_markets, ForEach
  <1>3. \A i \in 1..Len(ps) :
          /\ s[i] \in PlainCommands /\ Needs(s[i], FALSE) \subseteq CoreKeys \cup KeysOf({"PT"})
          /\ \A c \in {"Market"} : <<c, ps[i]>> \in Gives(s[i])
    <2> TAKE i \in 1..Len(ps)
    <2>1. ps[i] \in Pairs BY <1>1
    <2>2. PICK c : c = [op |-> "market", pair |-> ps[i]] OBVIOUS
    <2>3. c \in PlainCommands BY <2>1, <2>2, PlainAre
    <2>4. /\ Needs(c, FALSE) = {<<"MarketFactory", NoPair>>, <<"PT", ps[i]>>}
          /\ Gives(c) = {<<"Market", ps[i]>>}
      BY <2>2 DEF Needs, Gives
    <2>5. <<"MarketFactory", NoPair>> \in CoreKeys /\ <<"PT", ps[i]>> \in KeysOf({"PT"})
      BY <2>1, CoreNames DEF CoreKeys, KeysOf
    <2> QED BY <2>2, <2>3, <2>4, <2>5
  <1>4. s = [i \in 1..Len(ps) |-> s[i]] OBVIOUS
  <1> HIDE DEF s
  <1> QED BY <1>1, <1>2, <1>3, <1>4, EachIs

\* The last two commands; the export needs every name.
LEMMA EndPart == Part(<<[op |-> "seeding"], [op |-> "export"]>>, Keys, {})
  <1>1. [op |-> "seeding"] \in PlainCommands /\ [op |-> "export"] \in PlainCommands BY PlainAre
  <1>2. PICK s : s = <<[op |-> "seeding"], [op |-> "export"]>> OBVIOUS
  <1>3. /\ s \in Seq(PlainCommands) /\ DOMAIN s = {1, 2}
        /\ s[1] = [op |-> "seeding"] /\ s[2] = [op |-> "export"]
    BY <1>1, <1>2
  <1>4. Needs([op |-> "seeding"], FALSE) = {} /\ Needs([op |-> "export"], FALSE) = Keys
    BY DEF Needs
  <1>5. OrderedFrom(s, Keys, FALSE) BY <1>3, <1>4 DEF OrderedFrom
  <1> QED BY <1>2, <1>3, <1>5 DEF Part, Covers

\* Together they give every name.
LEMMA AllKeys ==
  Keys = CoreKeys \cup KeysOf({"MockYieldToken"}) \cup KeysOf({"SY"}) \cup KeysOf({"PT", "YT"})
         \cup KeysOf({"Market"})
  BY DEF Keys, CoreKeys, KeysOf

\* deploy.sh is in order: every step finds set what it needs.
LEMMA DeployText ==
  deploy_sh \in Seq(PlainCommands) /\ OrderedFrom(deploy_sh, {}, FALSE)
  <1> DEFINE underlying == ForEach(LAMBDA p : Deploy(<<"MockYieldToken", p>>, {}))
             wrappers == ForEach(LAMBDA p : Deploy(<<"SY", p>>, {<<"MockYieldToken", p>>}))
             s1 == <<[op |-> "declarations"]>>
             s2 == s1 \o deploy_core
             s3 == s2 \o (underlying \o wrappers)
             s4 == s3 \o mint_to_recipient
             s5 == s4 \o <<[op |-> "expiry"]>>
             s6 == s5 \o create_pairs
             s7 == s6 \o create_markets
             s8 == s7 \o <<[op |-> "seeding"], [op |-> "export"]>>
  <1>1. deploy_sh = s8 BY DEF deploy_sh, deploy_tokens
  <1>2. Part(underlying, {}, KeysOf({"MockYieldToken"})) BY UnderlyingPart
  <1>3. Part(wrappers, KeysOf({"MockYieldToken"}), KeysOf({"SY"})) BY WrappersPart
  <1>5. /\ Part(s1, {}, {}) /\ Part(<<[op |-> "expiry"]>>, {}, {})
    <2>1. \A o \in {"declarations", "expiry"} : [op |-> o] \in PlainCommands
      BY PlainAre
    <2>2. /\ Needs([op |-> "declarations"], FALSE) = {} /\ Needs([op |-> "expiry"], FALSE) = {}
      BY DEF Needs
    <2> QED BY <2>1, <2>2, OneCommand
  <1> HIDE DEF underlying, wrappers, s1
  <1>6. Part(s2, {}, CoreKeys)
    <2>1. Part(s1 \o deploy_core, {}, {} \cup CoreKeys) BY <1>5, CorePart, Joined
    <2> QED BY <2>1
  <1> HIDE DEF s2
  <1> DEFINE K3 == CoreKeys \cup (KeysOf({"MockYieldToken"}) \cup KeysOf({"SY"}))
  <1>7. Part(s3, {}, K3)
    <2>1. Part(underlying \o wrappers, {}, KeysOf({"MockYieldToken"}) \cup KeysOf({"SY"}))
      BY <1>2, <1>3, Joined
    <2> QED BY <1>6, <2>1, Joined
  <1> HIDE DEF s3
  <1>8. Part(s4, {}, K3)
    <2>1. Part(s3 \o mint_to_recipient, {}, K3 \cup {}) BY <1>7, MintsPart, Joined
    <2>2. K3 \cup {} = K3 OBVIOUS
    <2> QED BY <2>1, <2>2
  <1> HIDE DEF s4
  <1>9. Part(s5, {}, K3)
    <2>1. Part(s4 \o <<[op |-> "expiry"]>>, {}, K3 \cup {}) BY <1>5, <1>8, Joined
    <2>2. K3 \cup {} = K3 OBVIOUS
    <2> QED BY <2>1, <2>2
  <1> HIDE DEF s5
  <1> DEFINE K6 == K3 \cup KeysOf({"PT", "YT"})
  <1>10. Part(s6, {}, K6)
    <2>1. CoreKeys \cup KeysOf({"SY"}) \subseteq K3 OBVIOUS
    <2> HIDE DEF K3
    <2> QED BY <1>9, <2>1, PairsPart, Joined
  <1> HIDE DEF s6
  <1> DEFINE K7 == K6 \cup KeysOf({"Market"})
  <1>11. Part(s7, {}, K7)
    <2>1. CoreKeys \cup KeysOf({"PT"}) \subseteq K6 BY DEF KeysOf
    <2> HIDE DEF K6
    <2> QED BY <1>10, <2>1, MarketsPart, Joined
  <1> HIDE DEF s7
  <1>12. Part(s8, {}, K7 \cup {})
    <2>1. Keys \subseteq K7 BY AllKeys
    <2> HIDE DEF K7
    <2> QED BY <1>11, <2>1, EndPart, Joined
  <1> QED BY <1>1, <1>12 DEF Part

\* upgrade.sh is in order.
LEMMA UpgradeText ==
  ASSUME NEW selected
  PROVE  upgrade_sh(selected) \in Seq(PlainCommands) /\ OrderedFrom(upgrade_sh(selected), {}, FALSE)
  <1> DEFINE n == Len(UPGRADEABLE_CONTRACTS)
             checks == [i \in 1..n |->
               [op |-> "check", class |-> UPGRADEABLE_CONTRACTS[i],
                wanted |-> selected \in {"", UPGRADEABLE_CONTRACTS[i]}]]
  <1>1. n = 7 /\ \A i \in 1..7 : UPGRADEABLE_CONTRACTS[i] \in Range(Classes)
    BY ClassNames DEF UPGRADEABLE_CONTRACTS
  <1>2. \A i \in 1..n : checks[i] \in PlainCommands /\ Needs(checks[i], FALSE) = {}
    <2> TAKE i \in 1..n
    <2> DEFINE w == selected \in {"", UPGRADEABLE_CONTRACTS[i]}
    <2>1. w \in BOOLEAN OBVIOUS
    <2> HIDE DEF w
    <2>2. [op |-> "check", class |-> UPGRADEABLE_CONTRACTS[i], wanted |-> w] \in PlainCommands
      BY <1>1, <2>1, PlainAre
    <2>3. Needs([op |-> "check", class |-> UPGRADEABLE_CONTRACTS[i], wanted |-> w], FALSE) = {}
      BY DEF Needs
    <2> QED BY <2>2, <2>3 DEF w
  <1>3. checks \in Seq(PlainCommands)
    <2>1. checks \in [1..n -> PlainCommands] BY <1>2
    <2>2. n \in Nat BY <1>1
    <2> HIDE DEF checks, n
    <2> QED BY <2>1, <2>2
  <1>4. upgrade_sh(selected) = checks \o <<[op |-> "summary"]>> BY DEF upgrade_sh
  <1>5. Part(checks, {}, {})
    <2>1. DOMAIN checks = 1..n OBVIOUS
    <2> HIDE DEF checks
    <2> QED BY <1>2, <1>3, <2>1 DEF Part, OrderedFrom, Covers
  <1> HIDE DEF checks
  <1>6. Part(<<[op |-> "summary"]>>, {}, {})
    <2>1. [op |-> "summary"] \in PlainCommands BY PlainAre
    <2>2. Needs([op |-> "summary"], FALSE) = {} BY DEF Needs
    <2> QED BY <2>1, <2>2, OneCommand
  <1>7. Part(checks \o <<[op |-> "summary"]>>, {}, {} \cup {}) BY <1>5, <1>6, Joined
  <1> QED BY <1>4, <1>7 DEF Part

\* A script starts with nothing awaited, from what .env says.
LEMMA StartStep ==
  ASSUME DeployInv, NEW name \in {"deploy", "upgrade"}, NEW todo \in Seq(PlainCommands),
         OrderedFrom(todo, {}, FALSE), Start(name, todo)
  PROVE  DeployInv'
  <1> USE DEF DeployInv
  <1>1. script.todo = <<>> BY DEF ShellAgrees, Start
  <1>2. UNCHANGED <<env, contracts, declared, source, json, disturbed, misread, refused>>
        /\ sh' = env /\ runs' = runs + 1 /\ ended' = "running"
    BY DEF Start
  <1>3. PICK legacy \in BOOLEAN :
          script' = [Idle EXCEPT !.name = name, !.todo = todo, !.legacy = legacy]
    BY DEF Start
  <1>4. todo \in Seq(Commands) BY PlainLists
  <1>5. script' \in Scripts /\ script'.todo = todo /\ script'.name = name
    BY <1>3, <1>4, NothingIs DEF Scripts
  <1>6. DeployTypeOK'
    <2>1. runs' \in Nat /\ sh' \in Names BY <1>2 DEF DeployTypeOK
    <2> QED BY <1>2, <1>5, <2>1 DEF DeployTypeOK
  <1>7. ShellAgrees' BY <1>2, <1>5 DEF ShellAgrees
  <1>8. Shape' BY <1>5, ShapeMoves
  <1>9. InOrder'
    <2>1. disturbed' \in BOOLEAN BY <1>6 DEF DeployTypeOK
    <2>2. \A k \in {} : k \in Recorded' \/ (disturbed' /\ k[1] \in {"PT", "YT", "Market"})
      OBVIOUS
    <2>3. PICK d \in BOOLEAN : d = FALSE OBVIOUS
    <2>4. OrderedFrom(todo, {}, d) BY <2>3
    <2>5. d => disturbed' BY <2>3
    <2>6. OrderedFrom(todo, Recorded', disturbed')
      BY <1>4, <2>1, <2>2, <2>4, <2>5, OrderedWeaker
    <2> QED BY <1>5, <2>6 DEF InOrder
  <1>10. Complete(env)' /\ Paired(env)' /\ Unique' /\ Twins' BY <1>2, SameData, SameIsSame
  <1>11. Exported' BY <1>2, SameExport, SameIsSame
  <1>12. PairsWhole' /\ Accounted'
    <2>1. Settled BY <1>1 DEF Settled
    <2> QED BY <1>2, <2>1, SettledData, SameIsSame
  <1>13. HashesDeclared' BY <1>2, SameHashes
  <1> QED BY <1>6, <1>7, <1>8, <1>9, <1>10, <1>11, <1>12, <1>13

-----------------------------------------------------------------------------
(* The theorems about the deployment scripts *)

LEMMA DeployInitial == ASSUME DeployInit PROVE DeployInv
  <1> USE DEF DeployInit
  <1>1. DeployTypeOK
    <2>1. contracts \in Seq(AnyContract) OBVIOUS
    <2> QED BY <2>1, NothingIs DEF DeployTypeOK
  <1>2. script.name = "none" /\ script.todo = <<>> BY NothingIs
  <1>3. ShellAgrees BY <1>2 DEF ShellAgrees
  <1>4. Shape
    <2>1. <<>> \in Seq(Commands) /\ <<>> \in Seq(PlainCommands) OBVIOUS
    <2>2. <<>> = <<>> \o <<>> BY <2>1, ConcatEmptySeq
    <2> QED BY <1>2, <2>1, <2>2 DEF Shape, UnderWay
  <1>5. InOrder BY <1>2 DEF InOrder, OrderedFrom
  <1>6. Complete(env) /\ Paired(env) /\ Exported
    <2>1. \A p \in Pairs : <<"YT", p>> \in Keys BY KeysAre
    <2> QED BY <2>1, NothingIs DEF Complete, Paired, Exported
  <1>7. DOMAIN contracts = {} OBVIOUS
  <1>8. Unique /\ Twins /\ Accounted BY <1>7 DEF Unique, Twins, Accounted
  <1>9. PairsWhole
    <2>1. \A p \in Pairs : ~IsSet(<<"YT", p>>) /\ ~IsSet(<<"PT", p>>)
      BY NothingIs, KeysAre DEF IsSet
    <2> QED BY <2>1 DEF PairsWhole
  <1>10. HashesDeclared BY NothingIs DEF HashesDeclared
  <1> QED BY <1>1, <1>3, <1>4, <1>5, <1>6, <1>8, <1>9, <1>10 DEF DeployInv

LEMMA DeployUnchanged == ASSUME DeployInv, UNCHANGED deployVars PROVE DeployInv'
  <1> USE DEF DeployInv, deployVars
  <1>1. DeployTypeOK' /\ ShellAgrees' BY DEF DeployTypeOK, ShellAgrees
  <1>2. Shape'
    <2>1. PICK f \in Seq(Commands), rest \in Seq(PlainCommands) :
            script.todo = f \o rest /\ UnderWay(f)
      BY DEF Shape
    <2>2. \A k : IsSet(k)' <=> IsSet(k) BY DEF IsSet
    <2>3. UnderWay(f)' BY <2>1, <2>2 DEF UnderWay, HasPT
    <2>4. script'.todo = f \o rest BY <2>1
    <2> QED BY <2>3, <2>4 DEF Shape
  <1>3. InOrder' BY DEF InOrder, Recorded
  <1>4. Complete(env)' /\ Paired(env)' /\ Exported' BY DEF Complete, Paired, Exported
  <1>5. Unique' /\ Twins' BY DEF Unique, Twins
  <1>6. PairsWhole' BY DEF PairsWhole, IsSet
  <1>7. Accounted' BY DEF Accounted, Awaited, Registered, Existing
  <1>8. HashesDeclared' BY DEF HashesDeclared
  <1> QED BY <1>1, <1>2, <1>3, <1>4, <1>5, <1>6, <1>7, <1>8

LEMMA DeployStepInv == ASSUME DeployInv, [DeployNext]_deployVars PROVE DeployInv'
  <1>1. CASE Start("deploy", deploy_sh)
    BY <1>1, DeployText, StartStep
  <1>2. ASSUME NEW selected \in Selections, Start("upgrade", upgrade_sh(selected))
        PROVE  DeployInv'
    BY <1>2, UpgradeText, StartStep
  <1>3. CASE UNCHANGED deployVars BY <1>3, DeployUnchanged
  <1> QED
    BY <1>1, <1>2, <1>3, FailsStep, InterruptStep, EditStep, ResetEnvStep, ExpandAnyStep,
       DeclareStep, DeployStep, RecordStep, InvokeStep, ExpiryStep, CreateStep,
       CreateMarketStep, ReadStep, ExportStep, CheckStep, UpgradeEndsStep,
       UpgradeRefusedStep, UpgradeFailsStep, UpgradeStep, RecordUpgradeStep, SummaryStep
       DEF DeployNext

\* The scripts, .env, the chain and the export stay within their types, and in
\* the invariant that says how they belong together: the command under way,
\* the order of those that follow, and what each name stands for.
THEOREM DeployInvariant == DeploySpec => []DeployInv
  <1>1. DeployInit => DeployInv BY DeployInitial
  <1>2. DeployInv /\ [DeployNext]_deployVars => DeployInv' BY DeployStepInv
  <1> QED BY <1>1, <1>2, PTL DEF DeploySpec

\* update_env and deploy_contract: whatever was interrupted, failed, went unheard
\* or was misread, the names of .env and of the export that were not misread are
\* set to contracts that refer to each other as the names do, a PT and its YT are
\* of one expiry, and an undisturbed export is complete, for any set of pairs,
\* any number of runs, of versions, of texts that look like a hash and of
\* commands that fail with one.
THEOREM AlwaysLinked == DeploySpec => []Linked
  <1>1. DeployInv => Linked
    <2>1. \A names : Complete(names) /\ Paired(names) => LinkedIn(names)
      BY DEF Complete, Paired, LinkedIn
    <2> QED BY <2>1 DEF DeployInv, Exported, Linked
  <1> QED BY <1>1, DeployInvariant, PTL

\* deploy_contract, create_pairs and create_markets: a script that ended, well or
\* not, left no contract that .env does not name, unless a run was interrupted, a
\* read failed, or sncast did not report a transaction that was executed.
THEOREM NothingOrphaned == DeploySpec => []NoOrphans
  <1>1. DeployInv => NoOrphans
    <2> SUFFICES ASSUME DeployInv, ~disturbed, script.name = "none", NEW i \in DOMAIN contracts
                 PROVE  \E k \in Keys : env.address[k] = i
      BY DEF NoOrphans
    <2>1. script.todo = <<>> BY DEF DeployInv, ShellAgrees
    <2>2. Awaited = {} BY <2>1 DEF Awaited
    <2> QED BY <2>2 DEF DeployInv, Accounted
  <1> QED BY <1>1, DeployInvariant, PTL

\* declare_class and upgrade_contract: .env records only classes that are
\* declared, unless an upgrade was refused, and but for what declare_class took
\* from the message of a declaration that failed.
THEOREM OnlyDeclared == DeploySpec => []HashesDeclared
  <1>1. DeployInv => HashesDeclared BY DEF DeployInv
  <1> QED BY <1>1, DeployInvariant, PTL

-----------------------------------------------------------------------------
(* What is recorded *)

Keeps == \A k \in Keys : env.address[k] # 0 /\ k[1] # "YT" => env'.address[k] = env.address[k]

LEMMA SameAddresses == ASSUME env'.address = env.address PROVE Keeps
  BY DEF Keeps

\* These steps record a hash or the expiry, and no address.
LEMMA HashesOnly ==
  ASSUME DeployInv, declare_class \/ set_expiry \/ record_upgrade
  PROVE  env'.address = env.address
  <1>1. env \in Names BY DEF DeployInv, DeployTypeOK
  <1>2. CASE declare_class
    <2>1. PICK c, hash : Found(c, hash) BY <1>2 DEF declare_class
    <2> QED BY <1>1, <2>1 DEF Found, Names
  <1>3. CASE set_expiry BY <1>1, <1>3 DEF set_expiry, Names
  <1>4. CASE record_upgrade BY <1>1, <1>4 DEF record_upgrade, Names
  <1> QED BY <1>2, <1>3, <1>4

\* An address is only assigned to a name that had none, or to a YT.
LEMMA AssignKeeps ==
  ASSUME DeployInv, script.todo # <<>>, NEW k \in Keys, NEW v, update_env(k, v),
         ~IsSet(k) \/ k[1] = "YT"
  PROVE  Keeps
  <1>1. env \in Names BY DEF DeployInv, DeployTypeOK
  <1>2. \A j \in Keys : j # k => env'.address[j] = env.address[j]
    BY <1>1 DEF update_env, Names
  <1> QED BY <1>2 DEF Keeps, IsSet

LEMMA RecordKeeps == ASSUME DeployInv, record_address PROVE Keeps
  <1>1. script.todo # <<>> /\ IsRecording(This, Tail(script.todo))
    BY OtherHead DEF DeployInv, record_address
  <1>2. PICK k \in Keys, v \in DOMAIN contracts : This = Record(k, v) /\ ~IsSet(k)
    BY <1>1 DEF IsRecording
  <1>3. update_env(k, v) BY <1>2 DEF record_address, Record
  <1> QED BY <1>1, <1>2, <1>3, AssignKeeps

LEMMA ReadKeeps == ASSUME DeployInv, call_contract PROVE Keeps
  <1>1. script.todo # <<>> BY DoingSome DEF call_contract
  <1>2. \/ IsReadingPT(This, Tail(script.todo)) \/ IsReadingYT(This, Tail(script.todo))
        \/ IsReadingMarket(This, Tail(script.todo))
    BY OtherHead DEF DeployInv, call_contract
  <1>3. This.key \in Keys /\ (~IsSet(This.key) \/ This.key[1] = "YT")
    <2>1. CASE IsReadingPT(This, Tail(script.todo))
      <3>1. PICK p \in Pairs : This = ReadOf(<<"PT", p>>) /\ ~IsSet(<<"PT", p>>)
        BY <2>1 DEF IsReadingPT
      <3>2. This.key = <<"PT", p>> BY <3>1 DEF ReadOf
      <3> QED BY <3>1, <3>2, KeysAre
    <2>2. CASE IsReadingYT(This, Tail(script.todo))
      <3>1. PICK p \in Pairs : This = ReadOf(<<"YT", p>>)
        BY <2>2 DEF IsReadingYT
      <3>2. This.key = <<"YT", p>> BY <3>1 DEF ReadOf
      <3> QED BY <3>1, <3>2, KeysAre
    <2>3. CASE IsReadingMarket(This, Tail(script.todo))
      <3>1. PICK p \in Pairs : This = ReadOf(<<"Market", p>>) /\ ~IsSet(<<"Market", p>>)
        BY <2>3 DEF IsReadingMarket
      <3>2. This.key = <<"Market", p>> BY <3>1 DEF ReadOf
      <3> QED BY <3>1, <3>2, KeysAre
    <2> QED BY <1>2, <2>1, <2>2, <2>3
  <1>4. (\E v : update_env(This.key, v)) \/ env' = env
    BY DEF call_contract
  <1>5. CASE env' = env BY <1>5, SameAddresses
  <1> QED BY <1>1, <1>3, <1>4, <1>5, AssignKeeps

LEMMA StepKeeps == ASSUME DeployInv, [DeployNext]_deployVars PROVE ResetEnv \/ Keeps
  <1>1. CASE Start("deploy", deploy_sh)
             \/ \E selected \in Selections : Start("upgrade", upgrade_sh(selected))
    BY <1>1, SameAddresses DEF Start
  <1>2. CASE Fails \/ Interrupt \/ Edit \/ Expand \/ deploy_contract \/ invoke_contract
    BY <1>2, SameAddresses
       DEF Fails, Interrupt, Edit, Expand, deploy_contract, invoke_contract
  <1>3. CASE declare_class \/ set_expiry \/ record_upgrade BY <1>3, HashesOnly, SameAddresses
  <1>4. CASE record_address BY <1>4, RecordKeeps
  <1>5. CASE call_contract BY <1>5, ReadKeeps
  <1>6. CASE create_yield_contracts \/ create_market \/ export_addresses \/ check_class
    BY <1>6, SameAddresses
       DEF create_yield_contracts, create_market, export_addresses, check_class
  <1>7. CASE upgrade_contract_ends \/ upgrade_contract_refused \/ upgrade_contract_fails
             \/ upgrade_contract \/ summary
    BY <1>7, SameAddresses
       DEF upgrade_contract_ends, upgrade_contract_refused, upgrade_contract_fails,
           upgrade_contract, summary
  <1>8. CASE UNCHANGED deployVars BY <1>8, SameAddresses DEF deployVars
  <1> QED BY <1>1, <1>2, <1>3, <1>4, <1>5, <1>6, <1>7, <1>8 DEF DeployNext

\* deploy_contract ("Check if already deployed"): no step but reset-env.sh gives
\* a recorded name another address, but for the YT of a pair whose PT a run
\* could not read.
THEOREM RecordsStay == DeploySpec => RecordedStays
  <1>1. DeployInv /\ [DeployNext]_deployVars =>
          [\/ ResetEnv
           \/ \A k \in Keys : env.address[k] # 0 /\ k[1] # "YT" =>
                env'.address[k] = env.address[k]]_deployVars
    BY StepKeeps DEF Keeps
  <1> QED BY <1>1, DeployInvariant, PTL DEF DeploySpec, RecordedStays
=============================================================================
