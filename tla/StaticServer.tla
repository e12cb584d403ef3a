---------------------------- MODULE StaticServer ----------------------------
(***************************************************************************)
(* The conductor's static file server for UI bundles (StaticServer in      *)
(* conductor_api/src/static_file_server.rs).  start() creates a channel,   *)
(* keeps its Sender in shutdown_signal and spawns a thread that binds the  *)
(* configured port, runs the hyper server on a tokio runtime and blocks on *)
(* the channel's Receiver; stop() sends on the kept Sender.                *)
(*                                                                         *)
(* Channel c is the one the c-th call of start() creates.  Its Sender is   *)
(* alive exactly while shutdown_signal holds it (start overwrites and stop *)
(* clears it, dropping it), its Receiver while thread c has not returned.  *)
(* rx.recv() returns when a () was sent or when the Sender is dropped;     *)
(* the thread then returns, dropping the runtime and with it the server    *)
(* and its listening socket.  Server::bind panics if the port is taken,    *)
(* which ends the thread before it listens.                                *)
(***************************************************************************)
EXTENDS Naturals

CONSTANT MaxStarts  \* bound on the calls of start()

ASSUME StartsAssumption == MaxStarts \in Nat \ {0}

None == 0
Chans == 1..MaxStarts

ThreadStates == {"none", "spawned", "serving", "exited"}

VARIABLES
    running,  \* StaticServer.running
    signal,   \* StaticServer.shutdown_signal: the channel whose Sender it holds, or None
    started,  \* the channels created so far
    thread,   \* per channel: the thread start() spawned with its Receiver
    sent,     \* per channel: a () was sent on it
    port,     \* the thread whose server listens on the configured port, or None
    result    \* what the last call of start() or stop() returned

vars == <<running, signal, started, thread, sent, port, result>>

TypeOK ==
    /\ running \in BOOLEAN
    /\ signal \in Chans \cup {None}
    /\ started \in 0..MaxStarts
    /\ thread \in [Chans -> ThreadStates]
    /\ sent \in [Chans -> BOOLEAN]
    /\ port \in Chans \cup {None}
    /\ result \in {"none", "ok", "err"}

\* The Receiver of channel c is still owned by a live thread.
ReceiverAlive(c) == thread[c] \in {"spawned", "serving"}

-----------------------------------------------------------------------------

\* StaticServer::from_configs.
Init ==
    /\ running = FALSE
    /\ signal = None
    /\ started = 0
    /\ thread = [c \in Chans |-> "none"]
    /\ sent = [c \in Chans |-> FALSE]
    /\ port = None
    /\ result = "none"

\* start(): a new channel; its Sender replaces (and drops) the one kept
\* before; running is set and the thread spawned.  Nothing is checked
\* first, and the call returns Ok before the thread has bound anything.
Start ==
    LET c == started + 1 IN
    /\ started < MaxStarts
    /\ started' = c
    /\ signal' = c
    /\ running' = TRUE
    /\ thread' = [thread EXCEPT ![c] = "spawned"]
    /\ result' = "ok"
    /\ UNCHANGED <<sent, port>>

\* The spawned thread: Server::bind on a free port, then Runtime::new,
\* rt.spawn(server), and rx.recv().
BindOk(c) ==
    /\ thread[c] = "spawned"
    /\ port = None
    /\ port' = c
    /\ thread' = [thread EXCEPT ![c] = "serving"]
    /\ UNCHANGED <<running, signal, started, sent, result>>

\* Server::bind panics on a port that is taken: the thread ends, dropping
\* its Receiver.
BindPanics(c) ==
    /\ thread[c] = "spawned"
    /\ port # None
    /\ thread' = [thread EXCEPT ![c] = "exited"]
    /\ UNCHANGED <<running, signal, started, sent, port, result>>

\* Mutant: the server outlives its thread (spawned on a runtime the thread
\* does not own).
RecvLeavingServer(c) ==
    /\ thread[c] = "serving"
    /\ sent[c] \/ signal # c
    /\ thread' = [thread EXCEPT ![c] = "exited"]
    /\ UNCHANGED <<running, signal, started, sent, port, result>>

\* rx.recv() returns, on a () sent or on the Sender dropped; the thread
\* returns and the runtime, the server and its socket are dropped.
Recv(c) ==
    /\ thread[c] = "serving"
    /\ sent[c] \/ signal # c
    /\ thread' = [thread EXCEPT ![c] = "exited"]
    /\ port' = None
    /\ UNCHANGED <<running, signal, started, sent, result>>

\* Mutant: stop() that sends but keeps the Sender.
StopKeepingSignal ==
    /\ signal # None
    /\ ReceiverAlive(signal)
    /\ sent' = [sent EXCEPT ![signal] = TRUE]
    /\ running' = FALSE
    /\ result' = "ok"
    /\ UNCHANGED <<signal, started, thread, port>>

\* stop(): with no Sender kept, Err("server is already stopped"); else send
\* on a clone of it.  The send fails once the Receiver is gone, and `?`
\* returns that Err with running and shutdown_signal untouched; on success
\* running is cleared and the Sender dropped.
Stop ==
    \/ /\ signal = None
       /\ result' = "err"
       /\ UNCHANGED <<running, signal, started, thread, sent, port>>
    \/ /\ signal # None
       /\ ~ReceiverAlive(signal)
       /\ result' = "err"
       /\ UNCHANGED <<running, signal, started, thread, sent, port>>
    \/ /\ signal # None
       /\ ReceiverAlive(signal)
       /\ sent' = [sent EXCEPT ![signal] = TRUE]
       /\ running' = FALSE
       /\ signal' = None
       /\ result' = "ok"
       /\ UNCHANGED <<started, thread, port>>

ServerThread(c) == BindOk(c) \/ BindPanics(c) \/ Recv(c)

Next ==
    \/ Start
    \/ Stop
    \/ \E c \in Chans : ServerThread(c)

\* The spawned threads are scheduled by the OS; the caller of start() and
\* stop() is under no obligation to call them.
Fairness == \A c \in Chans : WF_vars(ServerThread(c))

Spec == Init /\ [][Next]_vars /\ Fairness

-----------------------------------------------------------------------------
(* Properties.                                                             *)

\* running and shutdown_signal change together: start() sets both, a
\* successful stop() clears both, a failed stop() touches neither.
RunningMatchesSignal == running <=> signal # None

\* Once stop() has cleared running, the port is eventually released: the
\* stopped server's thread sees its channel and returns, whatever earlier
\* starts left behind.
StoppedServerReleasesPort == ~running ~> port = None

\* The module's test expects stop() to succeed on a running server: while
\* running is set, the thread holding the Receiver of the kept Sender is
\* alive, so a call of stop() can succeed and clear running.
RunningServerStoppable == running => ReceiverAlive(signal)

=============================================================================
