---------------------------- MODULE ExecutedChain ----------------------------
(* What the node promises about the blocks it executes: blocks are executed *)
(* in the order of the heights, each on the state that its parent left and  *)
(* that the node has; only blocks whose state it has become complete; and a *)
(* participant makes only executed blocks durable.  A node that joins, at   *)
(* first or after a stop, takes blocks from the network before it has       *)
(* executed them; it takes the state of the highest durable block from the  *)
(* network too, unless it has it, before it executes anything, and takes    *)
(* part only when everything durable is executed.                           *)
EXTENDS Naturals, Sequences, FiniteSetsExt

VARIABLES chain,        \* the heights of the executed blocks, in the order of execution
          joining,      \* the node does not take part yet
          durable,      \* the blocks that survive a crash
          states,       \* the blocks whose state the node has; they survive too
          complete,     \* the blocks that count as complete
          recorded      \* what survives a crash of the complete blocks

chainVars == <<chain, joining, durable, states, complete, recorded>>

UpTo(n) == [i \in 1 .. n |-> i]

Init ==
    /\ chain = <<>>
    /\ joining = FALSE
    /\ durable = {0}
    /\ states = {0}
    /\ complete = {0}
    /\ recorded = {0}

ExecuteNext ==
    /\ Len(chain) \in states
    /\ chain' = Append(chain, Len(chain) + 1)
    /\ states' = states \cup {Len(chain) + 1}
    /\ UNCHANGED <<joining, durable, complete, recorded>>

\* A participant stores a block that it has executed.
Persist(h) ==
    /\ ~ joining
    /\ h \in 1 .. Len(chain)
    /\ durable' = durable \cup {h}
    /\ UNCHANGED <<chain, joining, states, complete, recorded>>

Complete(h) ==
    /\ h \in (0 .. Len(chain)) \cap states
    /\ complete' = complete \cup {h}
    /\ recorded' = complete'
    /\ UNCHANGED <<chain, joining, durable, states>>

\* The next block, or its header, comes from the network.
Fetch ==
    /\ joining
    /\ durable' = durable \cup {Max(durable) + 1}
    /\ UNCHANGED <<chain, joining, states, complete, recorded>>

\* What is executed next goes on from the highest durable block.
Resume ==
    /\ joining
    /\ chain' = UpTo(Max(durable))
    /\ states' = states \cup {Max(durable)}
    /\ UNCHANGED <<joining, durable, complete, recorded>>

\* The highest block is complete when the node takes part.
TakePart ==
    /\ joining /\ joining' = FALSE
    /\ Len(chain) = Max(durable)
    /\ Len(chain) \in states
    /\ complete' = complete \cup {Len(chain)}
    /\ recorded' = complete'
    /\ UNCHANGED <<chain, durable, states>>

\* Blocks above the highest durable one are not complete any more.
Restart ==
    /\ chain' = <<>>
    /\ joining' = TRUE
    /\ complete' = recorded \cap (0 .. Max(durable))
    /\ UNCHANGED <<durable, states, recorded>>

Next ==
    \/ ExecuteNext
    \/ \E h \in 0 .. Len(chain) : Persist(h) \/ Complete(h)
    \/ Fetch
    \/ Resume
    \/ TakePart
    \/ Restart

Spec == Init /\ [][Next]_chainVars
=============================================================================
