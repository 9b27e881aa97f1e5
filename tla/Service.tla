------------------------------- MODULE Service -------------------------------
(***************************************************************************)
(* internal/service: one shared connection that is reopened after a        *)
(* failure.  Goroutines of the syncers and of the API (Caller) call Get    *)
(* and Drop, Run retries on a ticker, and readers subscribe to the state   *)
(* through ConnectedChan.  A step is one critical section or one atomic    *)
(* access, so the steps of two calls of Connect interleave.                *)
(***************************************************************************)
EXTENDS Naturals, Sequences, FiniteSets

CONSTANTS
    Caller,      \* goroutines that call Get
    Run,         \* the goroutine of Service.Run
    Sub,         \* readers of ConnectedChan
    MaxConn,     \* bound: how many connections the connector opens
    MaxFaults,   \* bound: failed connects and calls of Drop
    MayStop      \* whether Run's context may end

None == 0
Conn == 1..MaxConn
Proc == Caller \cup {Run}

ASSUME ServiceAssumption ==
    /\ Run \notin Caller
    /\ IsFiniteSet(Caller)
    /\ MaxFaults \in Nat /\ MayStop \in BOOLEAN
    \* Between two failures each goroutine opens at most one connection, so this
    \* bound stops no Connect.
    /\ MaxConn \in Nat /\ MaxConn >= (MaxFaults + 1) * Cardinality(Proc)

VARIABLES
    client, have,  \* under mu
    connected,     \* atomic
    opened,        \* how many connections the connector has opened: 1..opened
    closes,        \* how often the closer was called on each
    faults,
    pc,            \* where each goroutine is
    mine,          \* the connection a goroutine opened or got
    old,           \* the connection it is about to close
    val,           \* the argument of its setConnected
    chan,          \* the buffered channel of each subscriber
    subs           \* the channels registered

connVars == <<client, have, connected, opened, closes, faults>>
procVars == <<pc, mine, old, val>>
subVars == <<chan, subs>>
serviceVars == <<connVars, procVars, subVars>>

ServiceInit ==
    /\ client = None /\ have = FALSE /\ connected = FALSE
    /\ opened = 0 /\ closes = [c \in Conn |-> 0] /\ faults = 0
    /\ pc = [p \in Proc |-> "idle"]
    /\ mine = [p \in Proc |-> None]
    /\ old = [p \in Proc |-> None]
    /\ val = [p \in Proc |-> FALSE]
    /\ chan = [s \in Sub |-> <<>>] /\ subs = {}

At(p, label) == pc[p] = label
Jump(p, label) == pc' = [pc EXCEPT ![p] = label]

-----------------------------------------------------------------------------
\* Get: the atomic load decides between the client that stands and a new one.
Get(p) ==
    /\ At(p, "idle")
    /\ Jump(p, IF connected THEN "read" ELSE "connect")
    /\ UNCHANGED <<connVars, mine, old, val, subVars>>

ReadClient(p) ==
    /\ At(p, "read")
    /\ mine' = [mine EXCEPT ![p] = client]
    /\ Jump(p, "use")
    /\ UNCHANGED <<connVars, old, val, subVars>>

\* The caller is done with the connection.
Finish(p) ==
    /\ At(p, "use")
    /\ mine' = [mine EXCEPT ![p] = None]
    /\ Jump(p, "idle")
    /\ UNCHANGED <<connVars, old, val, subVars>>

\* A request on the connection failed.
Drop(p) ==
    /\ At(p, "use") /\ faults < MaxFaults
    /\ faults' = faults + 1
    /\ mine' = [mine EXCEPT ![p] = None]
    /\ val' = [val EXCEPT ![p] = FALSE]
    /\ Jump(p, "swap")
    /\ UNCHANGED <<client, have, connected, opened, closes, old, subVars>>

\* Fault variant: Run retries only while it holds no connection.
Tick_WhileNone ==
    /\ At(Run, "idle") /\ ~have
    /\ Jump(Run, "connect")
    /\ UNCHANGED <<connVars, mine, old, val, subVars>>

\* The ticker fires in Run, which does nothing while the connection stands.
Tick ==
    /\ At(Run, "idle") /\ ~connected
    /\ Jump(Run, "connect")
    /\ UNCHANGED <<connVars, mine, old, val, subVars>>

-----------------------------------------------------------------------------
(***************************************************************************)
(* Connect.                                                                *)
(***************************************************************************)

\* Fault variant: the connection is announced before it is there to be read.
Opens_Announced(p) ==
    /\ At(p, "connect") /\ opened < MaxConn
    /\ opened' = opened + 1 /\ connected' = TRUE
    /\ mine' = [mine EXCEPT ![p] = opened + 1]
    /\ Jump(p, "install")
    /\ UNCHANGED <<client, have, closes, faults, old, val, subVars>>

Opens(p) ==
    /\ At(p, "connect") /\ opened < MaxConn
    /\ opened' = opened + 1
    /\ mine' = [mine EXCEPT ![p] = opened + 1]
    /\ Jump(p, "install")
    /\ UNCHANGED <<client, have, connected, closes, faults, old, val, subVars>>

ConnectFails(p) ==
    /\ At(p, "connect") /\ faults < MaxFaults
    /\ faults' = faults + 1
    /\ val' = [val EXCEPT ![p] = FALSE]
    /\ Jump(p, "swap")
    /\ UNCHANGED <<client, have, connected, opened, closes, mine, old, subVars>>

\* Under mu: the new client in, the old one out.
Install(p) ==
    /\ At(p, "install")
    /\ client' = mine[p] /\ have' = TRUE
    /\ old' = [old EXCEPT ![p] = IF have THEN client ELSE None]
    /\ val' = [val EXCEPT ![p] = TRUE]
    /\ Jump(p, IF have THEN "close" ELSE "swap")
    /\ UNCHANGED <<connected, opened, closes, faults, mine, subVars>>

\* The closer runs outside the lock, in Connect and in close.
CloseOld(p) ==
    /\ At(p, "close")
    /\ closes' = [closes EXCEPT ![old[p]] = @ + 1]
    /\ old' = [old EXCEPT ![p] = None]
    /\ Jump(p, IF p = Run /\ mine[p] = None THEN "stopped" ELSE "swap")
    /\ UNCHANGED <<client, have, connected, opened, faults, mine, val, subVars>>

-----------------------------------------------------------------------------
(***************************************************************************)
(* setConnected: the swap, and, on a change, the sends under subsMu.       *)
(***************************************************************************)

\* Where setConnected returns to: a Connect that succeeded in Get hands its
\* client to the caller.
Return(p) ==
    LET handsOver == val[p] /\ p # Run IN
    /\ Jump(p, IF handsOver THEN "use" ELSE "idle")
    /\ mine' = IF handsOver THEN mine ELSE [mine EXCEPT ![p] = None]

Swap(p) ==
    /\ At(p, "swap")
    /\ connected' = val[p]
    /\ IF connected = val[p] THEN Return(p) ELSE Jump(p, "notify") /\ UNCHANGED mine
    /\ UNCHANGED <<client, have, opened, closes, faults, old, val, subVars>>

\* A channel whose one slot is full misses the value.
Notify(p) ==
    /\ At(p, "notify")
    /\ chan' = [s \in Sub |-> IF s \in subs /\ chan[s] = <<>> THEN <<val[p]>> ELSE chan[s]]
    /\ Return(p)
    /\ UNCHANGED <<connVars, old, val, subs>>

\* Fault variant: close does not record that the client is gone.
close_KeepsHave ==
    /\ MayStop /\ At(Run, "idle")
    /\ old' = [old EXCEPT ![Run] = IF have THEN client ELSE None]
    /\ Jump(Run, IF have THEN "close" ELSE "stopped")
    /\ UNCHANGED <<connVars, mine, val, subVars>>

\* Run's context ends: close takes the client out under mu, then closes it.
close ==
    /\ MayStop /\ At(Run, "idle")
    /\ have' = FALSE
    /\ old' = [old EXCEPT ![Run] = IF have THEN client ELSE None]
    /\ Jump(Run, IF have THEN "close" ELSE "stopped")
    /\ UNCHANGED <<client, connected, opened, closes, faults, mine, val, subVars>>

-----------------------------------------------------------------------------
(***************************************************************************)
(* ConnectedChan and its reader.                                           *)
(***************************************************************************)
Subscribe(s) ==
    /\ s \notin subs /\ chan[s] = <<>>
    /\ chan' = [chan EXCEPT ![s] = <<connected>>]
    /\ UNCHANGED <<connVars, procVars, subs>>

Register(s) ==
    /\ s \notin subs /\ chan[s] # <<>>
    /\ subs' = subs \cup {s}
    /\ UNCHANGED <<connVars, procVars, chan>>

Receive(s) ==
    /\ s \in subs /\ chan[s] # <<>>
    /\ chan' = [chan EXCEPT ![s] = <<>>]
    /\ UNCHANGED <<connVars, procVars, subs>>

\* The reader's context ends: its channel is removed and closed.
Unsubscribe(s) ==
    /\ s \in subs
    /\ subs' = subs \ {s}
    /\ chan' = [chan EXCEPT ![s] = <<>>]
    /\ UNCHANGED <<connVars, procVars>>

-----------------------------------------------------------------------------
ConnectStep(p) ==
    \/ Opens(p) \/ ConnectFails(p) \/ Install(p) \/ CloseOld(p)
    \/ Swap(p) \/ Notify(p)

ServiceNext ==
    \/ \E p \in Caller : Get(p) \/ ReadClient(p) \/ Finish(p) \/ Drop(p)
    \/ \E p \in Proc : ConnectStep(p)
    \/ Tick \/ close
    \/ \E s \in Sub : Subscribe(s) \/ Register(s) \/ Receive(s) \/ Unsubscribe(s)

\* A goroutine that is inside a call goes on, the ticker keeps firing, and a
\* reader reads; nothing makes a caller call.
ServiceSpec ==
    /\ ServiceInit /\ [][ServiceNext]_serviceVars
    /\ \A p \in Proc : WF_serviceVars(ConnectStep(p))
    /\ WF_serviceVars(Tick)
    /\ \A s \in Sub : WF_serviceVars(Register(s)) /\ WF_serviceVars(Receive(s))

-----------------------------------------------------------------------------
Open(c) == c \in 1..opened /\ closes[c] = 0

\* "A replaced connection gets released, or the service leaks one per retry":
\* a connection that is open is the one the service holds, or a call of Connect
\* or close that is on its way has it in hand.
NoLeak ==
    \A c \in 1..opened :
        Open(c) => \/ have /\ client = c
                   \/ \E p \in Proc : At(p, "install") /\ mine[p] = c
                   \/ \E p \in Proc : At(p, "close") /\ old[p] = c

\* The closer gets each connection at most once, however two calls of Connect and
\* the close of Run interleave.
ClosedOnce == \A c \in Conn : closes[c] <= 1

\* Whichever of several calls of Connect and close runs its closer, the connection
\* that the service holds is an open one.
HeldIsOpen == have => Open(client)

\* Every connection has one owner, who closes it once, however the calls of Connect
\* and the close of Run interleave.
ConnectionsOwned == NoLeak /\ ClosedOnce /\ HeldIsOpen

\* Get never returns the zero value as a connection: Connect stores the client
\* before it sets connected, and nothing takes the client away.
NeverZeroClient == \A p \in Caller : At(p, "use") => mine[p] # None

\* Run: when connects stop failing and callers stop dropping the connection, the
\* service ends up connected, and stays it, unless Run's context ends.
EventuallyConnected == <>[](connected /\ have) \/ <>(pc[Run] = "stopped")
=============================================================================
