----------------------------- MODULE MCPClient ------------------------------
(***************************************************************************)
(* The connection of an MCPClient (mcp/client.py): a session that is set   *)
(* once it is initialized, and one AsyncExitStack, which every connect()   *)
(* enters its two contexts on (the transport, then the ClientSession) and  *)
(* both disconnect() and a connect() that fails close in full.  There is   *)
(* no lock.                                                                *)
(*                                                                         *)
(* aclose() takes one context after the other off the stack and goes on    *)
(* when one raises, to raise when the stack is empty.                      *)
(***************************************************************************)
EXTENDS Integers, Sequences

CONSTANTS
    Tasks,     \* tasks
    MaxConnects  \* bound on the attempts to connect, which number the transports

VARIABLES
    session,  \* the connection whose session is set, 0 for None
    stack,    \* the exit stack: n for the transport of connection n, -n for its
              \* ClientSession
    open,     \* the transports that are open
    begun,     \* attempts begun
    pc,       \* where each call is
    mine,     \* the connection it is making
    taken,    \* the context it has taken off the stack and is leaving
    raised,   \* a context that it left has raised
    alone,    \* history: the disconnect() that has had no other call beside it
    calm      \* history: since one of these returned, no two calls have
              \* overlapped and no context has raised

call == <<pc, mine, taken, raised>>
history == <<alone, calm>>
clientVars == <<session, stack, open, begun, call, history>>

Closing    == {"cleaning", "disconnecting"}

ClientInit ==
    /\ session = 0 /\ stack = <<>> /\ open = {} /\ begun = 0
    /\ pc = [c \in Tasks |-> "idle"] /\ mine = [c \in Tasks |-> 0]
    /\ taken = [c \in Tasks |-> 0] /\ raised = [c \in Tasks |-> FALSE]
    /\ alone = {} /\ calm = TRUE

Goto(c, where) == pc' = [pc EXCEPT ![c] = where]
Busy(c) == pc[c] # "idle"
Idle == \A c \in Tasks : ~Busy(c)
IsOnStack(n) == \E i \in DOMAIN stack : stack[i] = n

-----------------------------------------------------------------------------
(* Mutants *)

\* StepFails that leaves the clean-up to the caller.
StepFailsAsItIs(c) ==
    /\ pc[c] \in {"opening", "entering", "initializing"} /\ Goto(c, "idle")
    /\ UNCHANGED <<session, stack, open, begun, mine, taken, raised, history>>

\* StepFails that starts a new stack and does not close the old one.
StepFailsOntoNewStack(c) ==
    /\ pc[c] \in {"opening", "entering", "initializing"} /\ Goto(c, "idle")
    /\ stack' = <<>>
    /\ UNCHANGED <<session, open, begun, mine, taken, raised, history>>

-----------------------------------------------------------------------------
(* connect() *)

\* With a session set it does nothing.
Connect(c) ==
    /\ pc[c] = "idle" /\ session = 0 /\ begun < MaxConnects
    /\ Goto(c, "opening") /\ begun' = begun + 1 /\ mine' = [mine EXCEPT ![c] = begun']
    /\ calm' = (calm /\ Idle) /\ alone' = {}
    /\ UNCHANGED <<session, stack, open, taken, raised>>

\* An MCPConnectionError of _stdio_params(), before anything is open
Refused(c) ==
    /\ pc[c] = "opening" /\ Goto(c, "idle")
    /\ UNCHANGED <<session, stack, open, begun, mine, taken, raised, history>>

Opened(c) ==
    /\ pc[c] = "opening" /\ Goto(c, "entering")
    /\ open' = open \cup {mine[c]} /\ stack' = Append(stack, mine[c])
    /\ UNCHANGED <<session, begun, mine, taken, raised, history>>

Entered(c) ==
    /\ pc[c] = "entering" /\ Goto(c, "initializing")
    /\ stack' = Append(stack, -mine[c])
    /\ UNCHANGED <<session, open, begun, mine, taken, raised, history>>

\* The server's answer to initialize() is there, the task has not resumed.
Responded(c) ==
    /\ pc[c] = "initializing" /\ mine[c] \in open /\ Goto(c, "answered")
    /\ UNCHANGED <<session, stack, open, begun, mine, taken, raised, history>>

\* What the audit sink or list_tools() of create() does afterwards, it stays.
Publishes(c) ==
    /\ pc[c] = "answered" /\ Goto(c, "idle") /\ session' = mine[c]
    /\ UNCHANGED <<stack, open, begun, mine, taken, raised, history>>

\* An error, a cancellation, or a transport that died in one of the awaits:
\* the whole stack is closed, other connections included.
StepFails(c) ==
    /\ pc[c] \in {"opening", "entering", "initializing"} /\ Goto(c, "cleaning")
    /\ UNCHANGED <<session, stack, open, begun, mine, taken, raised, history>>

-----------------------------------------------------------------------------
(* aclose() and disconnect() *)

Disconnect(c) ==
    /\ pc[c] = "idle" /\ Goto(c, "disconnecting")
    /\ calm' = (calm /\ Idle) /\ alone' = {d \in {c} : Idle}
    /\ raised' = [raised EXCEPT ![c] = FALSE]
    /\ UNCHANGED <<session, stack, open, begun, mine, taken>>

TakesOff(c) ==
    /\ pc[c] \in Closing /\ taken[c] = 0 /\ stack # <<>>
    /\ taken' = [taken EXCEPT ![c] = stack[Len(stack)]]
    /\ stack' = SubSeq(stack, 1, Len(stack) - 1)
    /\ UNCHANGED <<session, open, begun, pc, mine, raised, history>>

Leaves(c) ==
    /\ pc[c] \in Closing /\ taken[c] # 0
    /\ taken' = [taken EXCEPT ![c] = 0]
    /\ open' = open \ {taken[c]}
    /\ \E raises \in BOOLEAN :
        /\ raised' = [raised EXCEPT ![c] = @ \/ raises]
        /\ calm' = (calm /\ ~raises)
    /\ UNCHANGED <<session, stack, begun, pc, mine, alone>>

\* connect() raises.
CleanedUp(c) ==
    /\ pc[c] = "cleaning" /\ taken[c] = 0 /\ stack = <<>> /\ Goto(c, "idle")
    /\ UNCHANGED <<session, stack, open, begun, mine, taken, raised, history>>

\* disconnect() returns, or raises with the session still set.
Disconnected(c) ==
    /\ pc[c] = "disconnecting" /\ taken[c] = 0 /\ stack = <<>> /\ Goto(c, "idle")
    /\ session' = IF raised[c] THEN session ELSE 0
    /\ calm' = (calm \/ (c \in alone /\ ~raised[c])) /\ alone' = {}
    /\ UNCHANGED <<stack, open, begun, mine, taken, raised>>

ClientNext == \E c \in Tasks :
    \/ Connect(c) \/ Refused(c) \/ Opened(c) \/ Entered(c) \/ Responded(c) \/ Publishes(c)
    \/ StepFails(c) \/ Disconnect(c) \/ TakesOff(c) \/ Leaves(c) \/ CleanedUp(c)
    \/ Disconnected(c)

ClientSpec == ClientInit /\ [][ClientNext]_clientVars

-----------------------------------------------------------------------------
(* Properties *)

\* However connect() and disconnect() overlap and fail, every transport that is
\* open is in reach of the next disconnect(): on the stack, or being left.
NothingEscapes ==
    \A n \in open : IsOnStack(n) \/ \E c \in Tasks : taken[c] = n

\* Calls that come one after the other, and whose contexts leave in order, keep
\* the session and the transport together: when none is under way, the transport
\* of the session is open and no other is.  One disconnect() that runs alone and
\* returns puts right whatever went before.
Consistent ==
    calm /\ Idle => open = IF session = 0 THEN {} ELSE {session}

=============================================================================
