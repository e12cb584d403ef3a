---------------------------- MODULE NetworkBridge ----------------------------
(***************************************************************************)
(* The network slice of a node and the bridge from the P2P network to the  *)
(* core: reduce_init (core/src/network/reducers/init.rs), which opens a    *)
(* P2pNetwork and tracks the DNA on it, and handle_store_meta              *)
(* (core/src/network/handler/store.rs), which the network calls with the   *)
(* metadata peers ask this node to hold.                                   *)
(*                                                                         *)
(* reduce_init keeps the new network, the DNA address and the agent id in  *)
(* the slice only when sending TrackDna succeeded; otherwise the network   *)
(* is dropped at the end of the reducer.  handle_store_meta spawns one     *)
(* thread per link or link removal; the link workflows are not under src/  *)
(* and follow the spec: a held link is added to the metadata, a removed    *)
(* one taken out of it.                                                    *)
(***************************************************************************)
EXTENDS Naturals, Sequences

CONSTANTS
    DnaAddresses,
    AgentIds,
    Links,      \* the links peers may send
    MaxInits,   \* bound on InitNetwork actions reduced
    MaxMetas,   \* bound on StoreMeta messages delivered
    NoValue

None == 0
ConnIds == 1..MaxInits

\* The attributes of a DhtMetaData: link, link_remove, the CRUD status and
\* CRUD link names, and any other.
Attributes == {"link", "link_remove", "crud_status", "crud_link", "other"}

\* StoreMeta messages: the content list a peer sends may have any length.
MetaMessages ==
    [attribute : Attributes,
     content : {<<>>} \cup {<<l>> : l \in Links} \cup {<<l, k>> : l, k \in Links}]

VARIABLES
    network,     \* NetworkState.network: the connection kept, or None
    dnaAddress,  \* NetworkState.dna_address
    agentId,     \* NetworkState.agent_id
    conns,       \* per P2pNetwork a reducer opened: open or closed
    inits,       \* InitNetwork actions reduced
    handler,     \* the network's handler thread: up, or panicked
    reducer,     \* the thread reducing actions: up, or panicked
    delivered,   \* StoreMeta messages delivered
    workers,     \* the link workflow threads spawned and not finished
    links        \* the links this node holds in its metadata

vars == <<network, dnaAddress, agentId, conns, inits, handler, reducer,
          delivered, workers, links>>

TypeOK ==
    /\ network \in ConnIds \cup {None}
    /\ dnaAddress \in DnaAddresses \cup {NoValue}
    /\ agentId \in AgentIds \cup {NoValue}
    /\ conns \in [ConnIds -> {"none", "open", "closed"}]
    /\ inits \in 0..MaxInits
    /\ handler \in {"up", "panicked"}
    /\ reducer \in {"up", "panicked"}
    /\ delivered \in 0..MaxMetas
    /\ workers \subseteq [id : 1..MaxMetas, kind : {"link", "link_remove"}, link : Links]
    /\ links \subseteq Links

-----------------------------------------------------------------------------

\* NetworkState::new, and no metadata held.
Init ==
    /\ network = None
    /\ dnaAddress = NoValue
    /\ agentId = NoValue
    /\ conns = [c \in ConnIds |-> "none"]
    /\ inits = 0
    /\ handler = "up"
    /\ reducer = "up"
    /\ delivered = 0
    /\ workers = {}
    /\ links = {}

\* reduce_init for an InitNetwork action: P2pNetwork::new, unwrapped (a
\* failure to open the network panics the reducing thread), then send
\* TrackDna; on success the network (replacing, and so closing, the one
\* kept before), the DNA address and the agent id go into the slice; on
\* failure the new network is dropped and the slice left as it was.
ReduceInit(dna, agent) ==
    LET c == inits + 1 IN
    /\ reducer = "up"
    /\ inits < MaxInits
    /\ inits' = c
    /\ \/ /\ reducer' = "panicked"
          /\ UNCHANGED <<conns, network, dnaAddress, agentId>>
       \/ /\ conns' = [d \in ConnIds |->
                         IF d = c THEN "open"
                         ELSE IF d = network THEN "closed" ELSE conns[d]]
          /\ network' = c
          /\ dnaAddress' = dna
          /\ agentId' = agent
          /\ UNCHANGED reducer
       \/ /\ conns' = [conns EXCEPT ![c] = "closed"]
          /\ UNCHANGED <<network, dnaAddress, agentId, reducer>>
    /\ UNCHANGED <<handler, delivered, workers, links>>

\* handle_store_meta: link and link_remove assert a content list of one
\* element (a panic of the handler otherwise) and spawn the workflow; the
\* CRUD status, the CRUD link and any other attribute change nothing.
HandleStoreMeta(m) ==
    /\ handler = "up"
    /\ delivered < MaxMetas
    /\ delivered' = delivered + 1
    /\ IF m.attribute \in {"link", "link_remove"}
       THEN IF Len(m.content) # 1
            THEN /\ handler' = "panicked"
                 /\ UNCHANGED workers
            ELSE /\ workers' = workers \cup
                      {[id |-> delivered + 1, kind |-> m.attribute, link |-> m.content[1]]}
                 /\ UNCHANGED handler
       ELSE UNCHANGED <<handler, workers>>
    /\ UNCHANGED <<network, dnaAddress, agentId, conns, inits, reducer, links>>

\* A spawned thread runs hold_link_workflow or remove_link_workflow.
LinkWorkflow(w) ==
    /\ workers' = workers \ {w}
    /\ links' = IF w.kind = "link" THEN links \cup {w.link} ELSE links \ {w.link}
    /\ UNCHANGED <<network, dnaAddress, agentId, conns, inits, handler, reducer,
                   delivered>>

Next ==
    \/ \E dna \in DnaAddresses, agent \in AgentIds : ReduceInit(dna, agent)
    \/ \E m \in MetaMessages : HandleStoreMeta(m)
    \/ \E w \in workers : LinkWorkflow(w)

Spec == Init /\ [][Next]_vars

-----------------------------------------------------------------------------
(* Properties.                                                             *)

\* Inbound processing is fire-and-forget (spec 5, Network Bridge): a
\* StoreMeta message the node cannot process is logged and swallowed, and
\* the handler goes on taking the messages that follow, whatever peers send.
InboundFailuresSwallowed == handler = "up"

=============================================================================
