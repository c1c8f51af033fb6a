--------------------------- MODULE BlockExecution ---------------------------
(* The way of a finalized block through the node: the era supervisor looks  *)
(* whether the block is stored already and collects its deploys; the        *)
(* contract runtime executes it, or keeps it in its queue until the height  *)
(* is due; the linear chain component stores the executed block; storage    *)
(* records its height as completed.  (consensus/era_supervisor.rs,          *)
(* contract_runtime.rs, linear_chain.rs, storage.rs.)                       *)
(*                                                                          *)
(* The futures of all these effects run on several threads, each action     *)
(* below is a step of one of them between two awaits.  The reactor handles  *)
(* one event at a time.  The pre-state and the queue of the contract        *)
(* runtime have a lock each; the handler of an enqueued block takes one     *)
(* after the other, and is therefore two steps, during which the reactor    *)
(* handles nothing else.  All events are scheduled in the reactor's regular *)
(* queue, which is first in first out; in which order the futures get their *)
(* events into it is up to the threads.                                     *)
(*                                                                          *)
(* The node may stop at any step.  What is left then is what storage and    *)
(* the trie store have written.  On the restart the chain synchronizer may  *)
(* bring further headers, the global state of the highest one and further   *)
(* blocks, step by step, and may be stopped between any two steps           *)
(* (chain_synchronizer/operations.rs); then consensus finalizes the era's   *)
(* blocks again from the first one.                                         *)
EXTENDS DisjointSequences

CONSTANTS
    MaxHeight,      \* bound: blocks of the era, above the stored block 0
    MaxRestarts,    \* bound: restarts of the node
    None

ASSUME HeightAssumption == MaxHeight \in Nat
ASSUME RestartAssumption == MaxRestarts \in Nat
ASSUME NoneAssumption == None \notin Nat

Blocks == 1 .. MaxHeight

\* The steps of era_supervisor's execute_finalized_block for one block, and of
\* contract_runtime's execute_finalized_block_or_requeue.
RequestPhases == {"none", "spawned", "looking", "fetching", "done"}
TaskPhases ==
    {"none", "spawned", "executing", "executed", "announced", "marking", "marked", "done"}
StorePhases == {"none", "storing", "done"}

EventKinds == {"exists", "enqueue", "announce", "mark", "put"}

\* Where run_fast_sync_task is: it fetches headers, then blocks; the next block is
\* stored; it is executed.
SyncModes == {"headers", "blocks", "stored", "executed"}

VARIABLES
    mode,           \* where the joining reactor is, or "participating"
    base,           \* the highest block when the node became a participant
    finalized,      \* the number of blocks consensus has finalized in this run
    request,        \* [Blocks -> phase of the era supervisor's future]
    events,         \* the reactor's queue: a sequence of <<kind, height>>
    handling,       \* the block of the enqueue event being handled, or None
    execQueue,      \* exec_queue: finalized blocks that are not due yet
    preState,       \* execution_pre_state: the blocks executed to get there
    task,           \* [Blocks -> phase of the contract runtime's future]
    cloned,         \* [Blocks -> the pre-state that future works on]
    store,          \* [Blocks -> phase of the linear chain's future]
    stored,         \* block_height_index: the blocks, or headers, in storage
    completed,      \* completed_blocks, in memory
    written,        \* completed_blocks as the state store has it
    states,         \* the blocks whose global state is in the trie store
    fatal,          \* an execution has failed: the node stops
    restarts

requestVars == <<finalized, request>>
runtimeVars == <<handling, execQueue, preState, task, cloned>>
storageVars == <<stored, completed, written, states>>
nodeVars == <<mode, base, fatal, restarts>>
vars == <<mode, base, finalized, request, events, handling, execQueue, preState, task,
          cloned, store, stored, completed, written, states, fatal, restarts>>

\* The chain as it is recorded in a block: its ancestors and itself.
UpTo(n) == [i \in 1 .. n |-> i]

\* next_block_height of ExecutionPreState::from_block_header.
NextHeight(pre) == IF pre = <<>> THEN 1 ELSE pre[Len(pre)] + 1

\* The global state that an execution on this pre-state starts from is there.
HasState(pre) == NextHeight(pre) - 1 \in states

C == INSTANCE ExecutedChain
        WITH chain <- preState, joining <- (mode # "participating"), durable <- stored,
             complete <- Heights(completed), recorded <- Heights(written)
-----------------------------------------------------------------------------
\* A node that has the genesis block and takes part in the first era.
Init ==
    /\ mode = "participating"
    /\ base = 0
    /\ finalized = 0
    /\ request = [h \in Blocks |-> "none"]
    /\ events = <<>>
    /\ handling = None
    /\ execQueue = {}
    /\ preState = <<>>
    /\ task = [h \in Blocks |-> "none"]
    /\ cloned = [h \in Blocks |-> <<>>]
    /\ store = [h \in Blocks |-> "none"]
    /\ stored = {0}
    /\ completed = <<Single(0)>>
    /\ written = completed
    /\ states = {0}
    /\ fatal = FALSE
    /\ restarts = 0

Running == mode = "participating" /\ ~ fatal

\* The reactor is between two events.
Idle == Running /\ handling = None

Schedule(kind, h) == events' = Append(events, <<kind, h>>)

Scheduled(kind, h) == \E i \in 1 .. Len(events) : events[i] = <<kind, h>>

\* The reactor takes the next event.
Dispatch(kind, h) ==
    /\ Idle
    /\ events # <<>>
    /\ Head(events) = <<kind, h>>
    /\ events' = Tail(events)
-----------------------------------------------------------------------------
\* Consensus finalizes the next block: a future is spawned for it.
Finalize ==
    /\ Idle
    /\ finalized < MaxHeight
    /\ finalized' = finalized + 1
    /\ request' = [request EXCEPT ![finalized + 1] = "spawned"]
    /\ UNCHANGED <<nodeVars, events, runtimeVars, store, storageVars>>

\* The future asks storage for the header, block_header_exists,
LookUpHeader(h) ==
    /\ Running
    /\ request[h] = "spawned"
    /\ Schedule("exists", h)
    /\ request' = [request EXCEPT ![h] = "looking"]
    /\ UNCHANGED <<nodeVars, finalized, runtimeVars, store, storageVars>>

\* and gets the answer.
HeaderLookedUp(h) ==
    /\ Dispatch("exists", h)
    /\ request' = [request EXCEPT ![h] = IF h \in stored THEN "done" ELSE "fetching"]
    /\ UNCHANGED <<nodeVars, finalized, runtimeVars, store, storageVars>>

\* The approvals are stored and the deploys are there: the block is enqueued.
DeploysCollected(h) ==
    /\ Running
    /\ request[h] = "fetching"
    /\ request' = [request EXCEPT ![h] = "done"]
    /\ Schedule("enqueue", h)
    /\ UNCHANGED <<nodeVars, finalized, runtimeVars, store, storageVars>>
-----------------------------------------------------------------------------
\* Mutant: whatever is not behind is executed.
EnqueueDueMutant(h) ==
    /\ Dispatch("enqueue", h)
    /\ h >= NextHeight(preState)
    /\ task' = [task EXCEPT ![h] = "spawned"]
    /\ UNCHANGED <<nodeVars, requestVars, handling, execQueue, preState, cloned, store,
                   storageVars>>

\* EnqueueBlockForExecution: the height is compared under the lock of the
\* pre-state.  If it is due a future is spawned ...
EnqueueDue(h) ==
    /\ Dispatch("enqueue", h)
    /\ h = NextHeight(preState)
    /\ task' = [task EXCEPT ![h] = "spawned"]
    /\ UNCHANGED <<nodeVars, requestVars, handling, execQueue, preState, cloned, store,
                   storageVars>>

\* ... and if not ...
EnqueueNotDue(h) ==
    /\ Dispatch("enqueue", h)
    /\ h # NextHeight(preState)
    /\ handling' = h
    /\ UNCHANGED <<nodeVars, requestVars, execQueue, preState, task, cloned, store,
                   storageVars>>

\* ... the block goes into the queue, under the lock of the queue.
InsertInQueue ==
    /\ Running
    /\ handling # None
    /\ execQueue' = execQueue \cup {handling}
    /\ handling' = None
    /\ UNCHANGED <<nodeVars, requestVars, events, preState, task, cloned, store, storageVars>>
-----------------------------------------------------------------------------
\* The future clones the pre-state when it first runs.
BeginExecution(h) ==
    /\ Running
    /\ task[h] = "spawned"
    /\ cloned' = [cloned EXCEPT ![h] = preState]
    /\ task' = [task EXCEPT ![h] = "executing"]
    /\ UNCHANGED <<nodeVars, requestVars, events, handling, execQueue, preState, store,
                   storageVars>>

\* The block is executed on the clone, its state is committed to the trie store
\* and its header becomes the pre-state.  If the clone is not the parent's state,
\* WrongBlockHeight, or that state is missing, RootNotFound, the node stops.
EndExecution(h) ==
    /\ Running
    /\ task[h] = "executing"
    /\ fatal' = (h # NextHeight(cloned[h]) \/ ~ HasState(cloned[h]))
    /\ preState' = IF fatal' THEN preState ELSE Append(cloned[h], h)
    /\ states' = IF fatal' THEN states ELSE states \cup {h}
    /\ task' = [task EXCEPT ![h] = "executed"]
    /\ UNCHANGED <<mode, base, restarts, requestVars, events, handling, execQueue, cloned,
                   store, stored, completed, written>>

\* announce_new_linear_chain_block.
AnnounceBlock(h) ==
    /\ Running
    /\ task[h] = "executed"
    /\ Schedule("announce", h)
    /\ task' = [task EXCEPT ![h] = "announced"]
    /\ UNCHANGED <<nodeVars, requestVars, handling, execQueue, preState, cloned, store,
                   storageVars>>

\* Mutant: the future goes on without the answer.
RequestMarkMutant(h) ==
    /\ Running
    /\ task[h] = "announced"
    /\ Schedule("mark", h)
    /\ task' = [task EXCEPT ![h] = "marked"]
    /\ UNCHANGED <<nodeVars, requestVars, handling, execQueue, preState, cloned, store,
                   storageVars>>

\* mark_block_completed: the future waits for the answer.
RequestMark(h) ==
    /\ Running
    /\ task[h] = "announced"
    /\ Schedule("mark", h)
    /\ task' = [task EXCEPT ![h] = "marking"]
    /\ UNCHANGED <<nodeVars, requestVars, handling, execQueue, preState, cloned, store,
                   storageVars>>

\* If the child is in the queue already it is enqueued once more.
TakeNext(h) ==
    /\ Running
    /\ task[h] = "marked"
    /\ execQueue' = execQueue \ {h + 1}
    /\ IF h + 1 \in execQueue THEN Schedule("enqueue", h + 1) ELSE UNCHANGED events
    /\ task' = [task EXCEPT ![h] = "done"]
    /\ UNCHANGED <<nodeVars, requestVars, handling, preState, cloned, store, storageVars>>

-----------------------------------------------------------------------------
\* Storage inserts the height and writes the sequences to the state store,
Mark(h) ==
    /\ completed' = Insert(completed, h)
    /\ written' = completed'
    /\ UNCHANGED <<stored, states>>

\* and the answer lets the contract runtime's future go on.
MarkCompleted(h) ==
    /\ Dispatch("mark", h)
    /\ Mark(h)
    /\ task' = [task EXCEPT ![h] = IF @ = "marking" THEN "marked" ELSE @]
    /\ UNCHANGED <<nodeVars, requestVars, handling, execQueue, preState, cloned, store>>

\* The linear chain component gets the executed block and spawns a future,
BlockAnnounced(h) ==
    /\ Dispatch("announce", h)
    /\ store' = [store EXCEPT ![h] = "storing"]
    /\ UNCHANGED <<nodeVars, requestVars, runtimeVars, storageVars>>

\* which asks storage to put the block,
RequestPut(h) ==
    /\ Running
    /\ store[h] = "storing"
    /\ Schedule("put", h)
    /\ store' = [store EXCEPT ![h] = "done"]
    /\ UNCHANGED <<nodeVars, requestVars, runtimeVars, storageVars>>

\* and storage writes it.
PutBlock(h) ==
    /\ Dispatch("put", h)
    /\ stored' = stored \cup {h}
    /\ UNCHANGED <<nodeVars, requestVars, runtimeVars, store, completed, written, states>>
-----------------------------------------------------------------------------
\* The node stops and starts again: storage reads what it has written and cuts
\* the completed blocks off above the highest one it has.  The state store keeps
\* the rest until the next block is marked.
Restart ==
    /\ restarts < MaxRestarts
    /\ restarts' = restarts + 1
    /\ mode' = "headers"
    /\ fatal' = FALSE
    /\ preState' = <<>>
    /\ completed' = Truncate(written, Max(stored))
    /\ finalized' = 0
    /\ request' = [h \in Blocks |-> "none"]
    /\ events' = <<>>
    /\ handling' = None
    /\ execQueue' = {}
    /\ task' = [h \in Blocks |-> "none"]
    /\ cloned' = [h \in Blocks |-> <<>>]
    /\ store' = [h \in Blocks |-> "none"]
    /\ UNCHANGED <<base, stored, written, states>>

joinVars == <<base, restarts, requestVars, events, handling, execQueue, task, cloned, store>>

\* fetch_block_headers_up_to_current_era: from the highest block in storage on,
\* the next header comes from a peer and is stored.
SyncHeader ==
    /\ mode = "headers"
    /\ Max(stored) < MaxHeight
    /\ stored' = stored \cup {Max(stored) + 1}
    /\ UNCHANGED <<joinVars, mode, fatal, preState, completed, written, states>>

\* AvailableBlockRange: the highest of the completed sequences, or the first block.
Available(h) ==
    IF completed = <<>> THEN h = 0 ELSE h \in completed[1].low .. completed[1].high

\* sync_trie_store: unless the highest block was available on the start its state
\* is fetched, if it is not in the trie store already.  Blocks are executed from
\* there on.
SyncState ==
    LET h == Max(stored)
    IN  /\ mode = "headers"
        /\ mode' = "blocks"
        /\ preState' = UpTo(h)
        /\ states' = IF Available(h) THEN states ELSE states \cup {h}
        /\ UNCHANGED <<joinVars, fatal, stored, completed, written>>

\* fetch_and_execute_blocks: the next block comes from a peer and is stored;
SyncBlock ==
    /\ mode = "blocks"
    /\ NextHeight(preState) \in Blocks
    /\ stored' = stored \cup {NextHeight(preState)}
    /\ mode' = "stored"
    /\ UNCHANGED <<joinVars, fatal, preState, completed, written, states>>

\* its deploys are fetched and it is executed, until the outcome is the block;
SyncExecute ==
    LET h == NextHeight(preState)
    IN  /\ mode = "stored"
        /\ ~ fatal
        /\ fatal' = ~ HasState(preState)
        /\ preState' = IF fatal' THEN preState ELSE Append(preState, h)
        /\ states' = IF fatal' THEN states ELSE states \cup {h}
        /\ mode' = IF fatal' THEN mode ELSE "executed"
        /\ UNCHANGED <<joinVars, stored, completed, written>>

\* it is marked as completed.
SyncMark ==
    /\ mode = "executed"
    /\ Mark(Len(preState))
    /\ mode' = "blocks"
    /\ UNCHANGED <<joinVars, fatal, preState>>

\* The highest block is marked as completed, and the participating reactor
\* starts with its header as the pre-state (set_initial_state).
Participate ==
    /\ mode = "blocks"
    /\ mode' = "participating"
    /\ base' = Len(preState)
    /\ Mark(Len(preState))
    /\ UNCHANGED <<fatal, restarts, requestVars, events, runtimeVars, store>>
-----------------------------------------------------------------------------
RequestStep(h) == LookUpHeader(h) \/ HeaderLookedUp(h) \/ DeploysCollected(h)
EnqueueStep(h) == EnqueueDue(h) \/ EnqueueNotDue(h)
TaskStep(h) ==
    \/ BeginExecution(h) \/ EndExecution(h)
    \/ AnnounceBlock(h) \/ RequestMark(h) \/ TakeNext(h)
StoreStep(h) == BlockAnnounced(h) \/ RequestPut(h) \/ PutBlock(h)

Next ==
    \/ Finalize
    \/ InsertInQueue
    \/ \E h \in Blocks :
          RequestStep(h) \/ EnqueueStep(h) \/ TaskStep(h) \/ MarkCompleted(h) \/ StoreStep(h)
    \/ Restart
    \/ SyncHeader \/ SyncState
    \/ SyncBlock \/ SyncExecute \/ SyncMark
    \/ Participate

Spec == Init /\ [][Next]_vars

\* Every future is polled and every event is handled in the end.  Nothing makes
\* consensus finalize, the node restart, or a peer send what the node asks for
\* when it joins.
Fairness ==
    /\ WF_vars(InsertInQueue)
    /\ \A h \in Blocks :
          /\ WF_vars(RequestStep(h))
          /\ WF_vars(EnqueueStep(h))
          /\ WF_vars(TaskStep(h))
          /\ WF_vars(MarkCompleted(h))
          /\ WF_vars(StoreStep(h))

FairSpec == Spec /\ Fairness
-----------------------------------------------------------------------------
\* The state is well formed; in particular the completed blocks are kept from
\* high to low with a gap between any two sequences (disjoint_sequences.rs:
\* "ordered from high to low ... with a gap of at least 1 between each").
TypeOK ==
    /\ mode \in SyncModes \cup {"participating"}
    /\ base \in 0 .. MaxHeight
    /\ finalized \in 0 .. MaxHeight
    /\ request \in [Blocks -> RequestPhases]
    /\ events \in Seq(EventKinds \X Blocks)
    /\ handling \in Blocks \cup {None}
    /\ execQueue \subseteq Blocks
    /\ preState \in Seq(Nat)
    /\ task \in [Blocks -> TaskPhases]
    /\ cloned \in [Blocks -> Seq(Nat)]
    /\ store \in [Blocks -> StorePhases]
    /\ stored \subseteq 0 .. MaxHeight
    /\ Canonical(completed) /\ Canonical(written)
    /\ states \subseteq 0 .. MaxHeight
    /\ fatal \in BOOLEAN
    /\ restarts \in 0 .. MaxRestarts

\* A block is never executed on another pre-state than its parent's, nor on one
\* whose global state the node does not have: the errors WrongBlockHeight and
\* RootNotFound in execute_finalized_block, which would stop the node, do not
\* strike whatever the order in which blocks are enqueued, and wherever the node
\* stopped before, also between storing a block of a peer and executing it.
ExecutedInTurn == TypeOK /\ ~ fatal

\* The node executes the chain in order, each block on its parent's state; it
\* completes only blocks whose state it has; as a participant it stores only what
\* it has executed; and a restart goes on from the state of the highest stored
\* block, which it may have to fetch: the node implements ExecutedChain.
ExecutesTheChain == C!Spec

\* No block is forgotten between the comparison of its height and the insertion
\* into the queue: in a run of the node, every block that consensus finalizes
\* above the one the run started from is executed, stored and completed.
FinalizedIsStored ==
    \A h \in Blocks, n \in 0 .. MaxRestarts :
        (restarts = n /\ finalized >= h /\ h > base)
            ~> (restarts # n \/ (h \in stored /\ h \in Heights(completed)))

\* Effect mark_block_completed says of a completed block that it has "been
\* persisted to storage".  A completed block is stored, or its way into storage
\* is still open.
CompletedIsStored ==
    \A h \in Heights(completed) :
        \/ h \in stored
        \/ task[h] \in {"executed", "announced", "marking"}
        \/ Scheduled("announce", h)
        \/ store[h] = "storing"
        \/ Scheduled("put", h)
=============================================================================
