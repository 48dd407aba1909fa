------------------------------ MODULE Indexer ------------------------------
(***************************************************************************)
(* One indexer process of packages/indexer: a chain that grows and may     *)
(* reorganise, a stream that delivers its blocks in order, the transform   *)
(* that turns a block's events into rows, the database transaction that    *)
(* writes rows and cursor together, discovery of contracts through the     *)
(* factory's events, crashes, hung streams and restarts.  Two failures do  *)
(* not pass by themselves: a row that its table cannot hold, and what a    *)
(* crash while the process starts leaves behind in the database.           *)
(*                                                                         *)
(* The checkpoint is kept as the sequence of blocks it stands for: the     *)
(* cursor the database holds is the number and hash of the last of them.   *)
(***************************************************************************)
EXTENDS EventRows

CONSTANTS
  Unstorable,    \* valid events with a value that the column for it cannot hold
  MaxHeight,     \* longest chain explored
  MaxBlockSize,  \* most events in a block
  MaxReorgs,     \* reorganisations explored
  MaxFailures,   \* crashes and hung streams explored
  EarlyEvents    \* whether a contract may emit before it is announced (SY only)

ASSUME UnstorableAssumption == Unstorable \subseteq Events \ Malformed

VARIABLES
  chain,       \* the canonical blocks
  reorgs,      \* how often it was reorganised
  rows,        \* persisted: the event tables
  checkpoint,  \* persisted: the blocks up to the cursor
  filters,     \* persisted: [contract, from], filters that factory() added
  triggers,    \* persisted: whether reorg triggers are left of a start that failed
  pc,          \* the process: "down", "starting", "streaming", "transforming" or "hung"
  watching,    \* volatile: contracts in the stream's filter
  block,       \* volatile: the block in transform()
  failures     \* how often the process failed

db == <<rows, checkpoint, filters>>
process == <<pc, watching, block>>
environment == <<chain, reorgs>>
vars == <<chain, reorgs, rows, checkpoint, filters, triggers, pc, watching, block, failures>>

NoBlock == [fork |-> 0, events |-> <<>>]

Init ==
  /\ chain = <<>> /\ reorgs = 0
  /\ rows = {} /\ checkpoint = <<>> /\ filters = {}
  /\ triggers = FALSE /\ pc = "down" /\ watching = {} /\ block = NoBlock
  /\ failures = 0

-----------------------------------------------------------------------------
(* The chain *)

OnChain(s) == UNION {{s[i].events[j] : j \in DOMAIN s[i].events} : i \in DOMAIN s}

\* A contract emits only once it exists, and only a YT or a Market is created
\* by the factory call that announces it.
Emittable(s, e) ==
  \/ e.by = Factory \/ EarlyEvents \/ e.by \in Known
  \/ \E a \in OnChain(s) : a.by = Factory /\ e.by \in a.announces

BlockBodies ==
  {es \in UNION {[1..n -> Events] : n \in 0..MaxBlockSize} :
     \A i, j \in DOMAIN es : i # j => es[i] # es[j]}

ProduceBlock ==
  /\ Len(chain) < MaxHeight
  /\ \E es \in BlockBodies :
       /\ \A j \in DOMAIN es :
            /\ es[j] \notin OnChain(chain)
            /\ Emittable(Append(chain, [fork |-> reorgs, events |-> es]), es[j])
       /\ chain' = Append(chain, [fork |-> reorgs, events |-> es])
  /\ UNCHANGED <<reorgs, db, triggers, process, failures>>

\* The last blocks are replaced; their transactions may come back in others.
Reorganise ==
  /\ reorgs < MaxReorgs
  /\ \E n \in 0..(Len(chain) - 1) : chain' = Prefix(chain, n)
  /\ reorgs' = reorgs + 1
  /\ UNCHANGED <<db, triggers, process, failures>>

-----------------------------------------------------------------------------
(* The process *)

\* The constant filters and those persisted with the checkpoint.
InitialFilter == Known \cup {f.contract : f \in filters}

\* run_indexer runs the process again.  While triggers of an earlier start are
\* there it ends at once ("trigger already exists"), and run_indexer repeats.
Boot ==
  /\ pc = "down" /\ ~triggers
  /\ pc' = "starting"
  /\ UNCHANGED <<environment, db, triggers, watching, block, failures>>

\* The triggers are in place; the stream resumes at the persisted cursor.
StartUp ==
  /\ pc = "starting"
  /\ pc' = "streaming"
  /\ watching' = InitialFilter
  /\ UNCHANGED <<environment, db, triggers, block, failures>>

Canonical(s) == Len(s) <= Len(chain) /\ Prefix(chain, Len(s)) = s

\* The stream reports that the cursor is no longer canonical: the plugin undoes
\* what was written after the last block that still is.
Invalidate ==
  /\ pc = "streaming" /\ ~Canonical(checkpoint)
  /\ \E n \in 0..(Len(checkpoint) - 1) :
       /\ Canonical(Prefix(checkpoint, n))
       /\ ~Canonical(Prefix(checkpoint, n + 1))
       /\ checkpoint' = Prefix(checkpoint, n)
       /\ rows' = RowsUpTo(rows, n)
       /\ filters' = {f \in filters : f.from <= n}
  /\ UNCHANGED <<environment, triggers, process, failures>>

Delivered == chain[Len(checkpoint) + 1]

\* Watched now and, by what is persisted, after a restart.
Followed == watching \cap InitialFilter

HasNext == pc = "streaming" /\ Canonical(checkpoint) /\ Len(checkpoint) < Len(chain)

\* factory() returns a filter for each announcement of the block: they are
\* persisted and the stream starts again at the cursor, so that this block is
\* delivered once more with the announced contracts' events in it.
Discover ==
  /\ HasNext
  /\ ~(factory(Delivered) \subseteq Followed)
  /\ watching' = watching \cup factory(Delivered)
  /\ filters' = filters \cup
       {[contract |-> c, from |-> Len(checkpoint) + 1] : c \in factory(Delivered)}
  /\ UNCHANGED <<environment, rows, checkpoint, triggers, pc, block, failures>>

\* Mutant: the block is transformed before the filter is extended.
Deliver_undiscovered ==
  /\ HasNext
  /\ pc' = "transforming"
  /\ block' = Delivered
  /\ UNCHANGED <<environment, db, triggers, watching, failures>>

\* transform() is called with the block; it may be orphaned while it runs.
Deliver ==
  /\ HasNext
  /\ factory(Delivered) \subseteq Followed
  /\ pc' = "transforming"
  /\ block' = Delivered
  /\ UNCHANGED <<environment, db, triggers, watching, failures>>

\* transform(): the rows of all events that validate.
transform == BlockRows(block, Len(checkpoint) + 1, watching)

\* Whether the tables hold the rows of block b when the contracts W are watched.
Storable(b, W) ==
  \A j \in DOMAIN b.events : b.events[j].by \in W => b.events[j] \notin Unstorable

\* insert ... onConflictDoNothing()
Inserted(old, new) == old \cup {r \in new : \A o \in old : EventKey(o) # EventKey(r)}

\* Mutant: the rows are written outside the transaction that moves the cursor.
Commit_rows_only ==
  /\ pc = "transforming" /\ Storable(block, watching)
  /\ rows' = Inserted(rows, transform)
  /\ pc' = "streaming"
  /\ block' = NoBlock
  /\ UNCHANGED <<environment, checkpoint, filters, triggers, watching, failures>>

\* Mutant: an event that does not validate fails the whole block.
Commit_all_or_nothing ==
  /\ pc = "transforming" /\ Storable(block, watching)
  /\ \A j \in DOMAIN block.events : block.events[j] \notin Malformed
  /\ rows' = Inserted(rows, transform)
  /\ checkpoint' = Append(checkpoint, block)
  /\ pc' = "streaming"
  /\ block' = NoBlock
  /\ UNCHANGED <<environment, filters, triggers, watching, failures>>

\* One transaction writes the rows and moves the cursor.
Commit ==
  /\ pc = "transforming" /\ Storable(block, watching)
  /\ rows' = Inserted(rows, transform)
  /\ checkpoint' = Append(checkpoint, block)
  /\ pc' = "streaming"
  /\ block' = NoBlock
  /\ UNCHANGED <<environment, filters, triggers, watching, failures>>

Ended == pc' = "down" /\ watching' = {} /\ block' = NoBlock

\* The insert is outside of the try around each event: a row that does not fit
\* aborts the transaction of the whole block, and ends the process.
CommitFails ==
  /\ pc = "transforming" /\ ~Storable(block, watching)
  /\ Ended
  /\ UNCHANGED <<environment, db, triggers, failures>>

\* The process or its database connection fails at any point: what was not
\* committed is gone.  While it starts it may leave its triggers.
Crash ==
  /\ pc # "down" /\ failures < MaxFailures
  /\ failures' = failures + 1
  /\ Ended
  /\ triggers' \in IF pc = "starting" THEN BOOLEAN ELSE {triggers}
  /\ UNCHANGED <<environment, db>>

\* The container is started again, and start.sh finds and drops the triggers
\* (cleanup-triggers.ts) before it runs the indexers.
Restart ==
  /\ pc = "down" /\ triggers
  /\ triggers' = FALSE
  /\ UNCHANGED <<environment, db, process, failures>>

\* The stream stays open and delivers nothing.
Hang ==
  /\ pc = "streaming" /\ failures < MaxFailures
  /\ failures' = failures + 1
  /\ pc' = "hung"
  /\ UNCHANGED <<environment, db, triggers, watching, block>>

\* streamTimeoutPlugin gives up after five minutes, and the process ends.
StreamTimeout ==
  /\ pc = "hung"
  /\ Ended
  /\ UNCHANGED <<environment, db, triggers, failures>>

Next ==
  \/ ProduceBlock \/ Reorganise
  \/ Boot \/ StartUp \/ Invalidate \/ Discover \/ Deliver \/ Commit \/ CommitFails
  \/ Crash \/ Restart \/ Hang \/ StreamTimeout

Work ==
  Boot \/ StartUp \/ Invalidate \/ Discover \/ Deliver \/ Commit \/ CommitFails \/ StreamTimeout

\* run_indexer restarts the process for ever and the timeout ends a hung stream,
\* so a step the process can take is not put off for ever.  Nobody has to start
\* the container again.
Spec == Init /\ [][Next]_vars /\ WF_vars(Work)

-----------------------------------------------------------------------------
(* Properties *)

TypeOK ==
  /\ chain \in Seq(BlockType) /\ reorgs \in Nat
  /\ checkpoint \in Seq(BlockType)
  /\ rows \subseteq [block : Nat, tx : {e.tx : e \in Events}, index : Nat, fork : Nat]
  /\ filters \subseteq [contract : Contracts, from : 1..(Len(checkpoint) + 1)]
  /\ triggers \in BOOLEAN /\ pc \in {"down", "starting", "streaming", "transforming", "hung"}
  /\ watching \subseteq Contracts
  /\ block \in BlockType /\ failures \in Nat

\* Every row is an event of a block up to the cursor, as that block has it:
\* no row survives of an orphaned block, and none is kept from it by the
\* conflict clause when its transaction returns in another block.
NoPhantomRows ==
  \A r \in rows : /\ r.block \in 1..Len(checkpoint)
                  /\ r \in BlockRows(checkpoint[r.block], r.block, Contracts)

\* Once the cursor has passed a block, every valid event in it of a contract
\* discovered by then is in the table, also after restarts and reorganisations
\* and also when the contract is announced in that very block.
NothingMissed ==
  \A i \in 1..Len(checkpoint) :
    BlockRows(checkpoint[i], i, Discovered(checkpoint, i)) \subseteq rows

\* The persisted filters and the constant ones cover every contract announced
\* up to the cursor: a restart past the announcement goes on watching, also
\* after the cursor went back to any earlier height.
RestartKeepsWatching ==
  \A i \in 0..Len(checkpoint) :
    Discovered(checkpoint, i)
      \subseteq Known \cup {f.contract : f \in {g \in filters : g.from <= i}}

\* What the running process watches covers the contracts announced up to the
\* cursor, and the block in transform() announces none that is not followed.
WatchesAnnounced ==
  /\ pc \notin {"down", "starting"} => Discovered(checkpoint, Len(checkpoint)) \subseteq watching
  /\ pc = "transforming" => factory(block) \subseteq Followed

\* Rows, cursor, filters and the process agree after every step, crash,
\* reorganisation and restart included.  This is the inductive invariant.
Consistent ==
  /\ TypeOK
  /\ NoPhantomRows
  /\ NothingMissed
  /\ RestartKeepsWatching
  /\ WatchesAnnounced

\* The tables change only as their abstract specification says.
Table == INSTANCE EventTable WITH indexed <- checkpoint, table <- rows
ImplementsTable == Table!Spec

\* When chain and failures come to rest the table covers the whole chain, but
\* for what two lasting failures hold up: the next block has a row that its
\* table cannot hold (every attempt ends in CommitFails), or triggers are left
\* that keep the process from starting until the container is started again.
CatchesUp == <>[](\/ triggers
                  \/ checkpoint = chain
                  \/ /\ Canonical(checkpoint) /\ Len(checkpoint) < Len(chain)
                     /\ ~Storable(Delivered, InitialFilter))
=============================================================================
