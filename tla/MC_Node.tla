------------------------------- MODULE MC_Node -------------------------------
(***************************************************************************)
(* Node on a small instance: two entries of which only e1 passes           *)
(* validation and may be deleted, two agents (this node's a1 and a peer    *)
(* a2), two hold threads and two remove_entry calls.  Two threads and two  *)
(* calls are the least that let two of each race on one entry.             *)
(***************************************************************************)
EXTENDS Node, TLC

CONSTANTS e1, e2, a1, a2, t1, t2, c1, c2

MCEntries == {e1, e2}
MCAgents == {a1, a2}
MCValid == {e1}
MCDeletable == {e1}
MCHoldIds == {t1, t2}
MCCallIds == {c1, c2}

\* Hold threads and zome calls are interchangeable.
MCSymmetry == Permutations(MCHoldIds) \cup Permutations(MCCallIds)

==============================================================================
