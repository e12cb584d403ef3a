------------------------------- MODULE NodeSpec -------------------------------
(***************************************************************************)
(* What one node promises about its source chain and its DHT shard,        *)
(* without the threads, the zome calls and the EAV rows that implement it  *)
(* (spec sections 3, 4.2, 4.4 and 7).  Every step is atomic:               *)
(*                                                                         *)
(*  - the chain only grows, by one header of this agent at a time, and     *)
(*    commits either a valid entry not yet on it, which the shard then     *)
(*    holds too, or the deletion of a deletable entry the node knows (on   *)
(*    its chain or in its shard);                                          *)
(*  - the shard holds only valid entries; holding an entry makes its CRUD  *)
(*    status Live;                                                         *)
(*  - an entry's status becomes Deleted only while the entry is held and   *)
(*    its deletion entry is on the chain.                                  *)
(*                                                                         *)
(* Node implements this specification under the mapping that takes the    *)
(* shard to the entries in the CAS and the deleted entries to those whose  *)
(* latest CRUD status row says Deleted.                                    *)
(***************************************************************************)
EXTENDS Naturals, Sequences

CONSTANTS
    Entries,    \* application entries
    Me,         \* the agent running the node
    Valid,      \* the entries the DNA accepts
    Deletable   \* the entries whose deletion the DNA accepts

VARIABLES
    chain,      \* the source chain: headers of this agent
    held,       \* the entries held in the DHT shard
    deleted     \* the held entries whose current CRUD status is Deleted

vars == <<chain, held, deleted>>

\* The contents the chain commits.
Committed == {chain[i].entry : i \in 1..Len(chain)}

\* The deletion entry of x, and the entries the node knows.
Deletion(x) == [deleted |-> x]
Known == Committed \cup held

Init ==
    /\ chain = <<>>
    /\ held = {}
    /\ deleted = {}

\* A header of this agent committing content c goes on the chain.
Commit(c) == chain' = Append(chain, [entry |-> c, author |-> Me])

\* An entry is committed to chain and DHT: the shard holds it as well.
CommitEntry(e) ==
    /\ e \in Valid
    /\ e \notin Committed
    /\ Commit(e)
    /\ held' = held \cup {e}
    /\ UNCHANGED deleted

CommitDeletion(x) ==
    /\ x \in Deletable
    /\ x \in Known
    /\ Commit(Deletion(x))
    /\ UNCHANGED <<held, deleted>>

Hold(e) ==
    /\ e \in Valid
    /\ held' = held \cup {e}
    /\ deleted' = deleted \ {e}
    /\ UNCHANGED chain

Delete(x) ==
    /\ x \in held
    /\ Deletion(x) \in Committed
    /\ deleted' = deleted \cup {x}
    /\ UNCHANGED <<chain, held>>

Next ==
    \E e \in Entries :
        \/ CommitEntry(e)
        \/ CommitDeletion(e)
        \/ Hold(e)
        \/ Delete(e)

Spec == Init /\ [][Next]_vars

===============================================================================
