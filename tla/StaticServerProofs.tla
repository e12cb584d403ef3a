------------------------- MODULE StaticServerProofs -------------------------
(***************************************************************************)
(* Proofs about StaticServer for every bound on the calls of start().      *)
(* TypeOK and RunningMatchesSignal are each inductive once the other holds *)
(* (start() needs the new channel to be a channel, stop() that a kept      *)
(* Sender is one), so their conjunction is the inductive invariant.        *)
(***************************************************************************)
EXTENDS StaticServer, TLAPS

Inv == TypeOK /\ RunningMatchesSignal

LEMMA InitInv == Init => Inv
<1> SUFFICES ASSUME Init PROVE Inv
    OBVIOUS
<1>1. running \in BOOLEAN /\ sent \in [Chans -> BOOLEAN]
    BY Zenon DEF Init
<1>2. thread \in [Chans -> ThreadStates]
    BY DEF Init, ThreadStates
<1>3. TypeOK
    BY <1>1, <1>2, StartsAssumption DEF Init, TypeOK, None, Chans
<1>4. RunningMatchesSignal
    BY DEF Init, RunningMatchesSignal, None
<1> QED
    BY <1>3, <1>4 DEF Inv

LEMMA NextInv == Inv /\ [Next]_vars => Inv'
<1> SUFFICES ASSUME Inv, [Next]_vars PROVE Inv'
    OBVIOUS
<1> USE StartsAssumption DEF Inv, TypeOK, RunningMatchesSignal, None, Chans, ThreadStates
<1>1. CASE Start
    BY <1>1 DEF Start
<1>2. CASE Stop
    <2>1. CASE signal = None /\ result' = "err"
               /\ UNCHANGED <<running, signal, started, thread, sent, port>>
        BY <2>1
    <2>2. CASE signal # None /\ result' = "err"
               /\ UNCHANGED <<running, signal, started, thread, sent, port>>
        BY <2>2
    <2>3. CASE /\ signal # None
               /\ sent' = [sent EXCEPT ![signal] = TRUE]
               /\ running' = FALSE
               /\ signal' = None
               /\ result' = "ok"
               /\ UNCHANGED <<started, thread, port>>
        BY <2>3
    <2> QED
        BY <1>2, <2>1, <2>2, <2>3 DEF Stop
<1>3. ASSUME NEW c \in Chans, ServerThread(c) PROVE Inv'
    BY <1>3 DEF ServerThread, BindOk, BindPanics, Recv
<1>4. CASE UNCHANGED vars
    BY <1>4 DEF vars
<1> QED
    BY <1>1, <1>2, <1>3, <1>4 DEF Next

\* Every reachable state of the static server is well typed.
THEOREM ServerTypeCorrect == Spec => []TypeOK
<1>1. Spec => []Inv
    BY InitInv, NextInv, PTL DEF Spec
<1> QED
    BY <1>1, PTL DEF Inv

\* start() and stop() keep StaticServer.running and shutdown_signal in step,
\* whatever the server threads do in between: a failed stop() leaves both
\* set, a successful one clears both.
THEOREM RunningSignalAgree == Spec => []RunningMatchesSignal
<1>1. Spec => []Inv
    BY InitInv, NextInv, PTL DEF Spec
<1> QED
    BY <1>1, PTL DEF Inv


=============================================================================
