-------------------------- MODULE SshConnections --------------------------
(***************************************************************************)
(* The connections of SshClient, shared by all sessions: each SshSession   *)
(* allocates one, a worker connects it, and the view's thread frees it     *)
(* when the session goes.  RemoteSession follows one session through its   *)
(* operations; here several go side by side, and of an operation only what *)
(* it does to the pointer and the socket of its connection is kept.        *)
(*                                                                         *)
(* The system gives out session pointers and socket numbers, and gives     *)
(* them out again once they are returned.  An operation is in flight until *)
(* its future is resolved: the terminal statuses that are shown earlier    *)
(* are a matter of RemoteSession.  What a worker does after another        *)
(* session has freed its connection is undefined: the model ends there.    *)
(***************************************************************************)
EXTENDS SequencesExt

CONSTANTS
    Conns,      \* a connection for each session
    Pointers,   \* bound: sessions of libssh2 at a time
    Sockets,    \* bound: sockets at a time
    None        \* nullptr, kInvalidSocket

ASSUME ConnectionsAssumption == None \notin Pointers \cup Sockets

VARIABLES
    \* --- SshClient and its SshConnections
    m_connections,  \* the connections allocated, in order
    m_session, m_socket, m_connected,
    cancelled,      \* of its SshBridge
    \* --- the system
    allocated, open,
    \* --- SshSession and the job of its operation
    owner,          \* of a connection: "none", "live", "leaving", "gone"
    job

fields == <<m_session, m_socket, m_connected, cancelled>>
system == <<allocated, open>>
vars   == <<m_connections, fields, system, owner, job>>

Init ==
    /\ m_connections = <<>>
    /\ m_session = [c \in Conns |-> None] /\ m_socket = [c \in Conns |-> None]
    /\ m_connected = [c \in Conns |-> FALSE] /\ cancelled = [c \in Conns |-> FALSE]
    /\ allocated = {} /\ open = {}
    /\ owner = [c \in Conns |-> "none"] /\ job = [c \in Conns |-> "none"]

\* The future of the operation is not resolved.
InFlight(c) == job[c] \in {"queued", "connecting", "initializing", "shaking", "working"}

\* No connection was taken from a session that has not freed it.
Intact == ToSet(m_connections) = {c \in Conns : owner[c] \in {"live", "leaving"}}

-----------------------------------------------------------------------------
(* The worker.                                                             *)

Goes(c, from, to) ==
    /\ Intact /\ job[c] = from /\ job' = [job EXCEPT ![c] = to]
    /\ UNCHANGED <<m_connections, owner>>

\* SshConnection::Disconnect.  The pointer stays: it is not reset.
Disconnect(c) ==
    /\ cancelled' = [cancelled EXCEPT ![c] = TRUE]
    /\ allocated' = allocated \ {m_session[c]} /\ open' = open \ {m_socket[c]}
    /\ m_socket' = [m_socket EXCEPT ![c] = None]
    /\ m_connected' = [m_connected EXCEPT ![c] = FALSE]
    /\ UNCHANGED m_session

Begin(c) == Goes(c, "queued", "connecting") /\ UNCHANGED <<fields, system>>

\* IsCancelRequested leaves socket and session as they are.
NextOr(c, next) == IF cancelled[c] THEN "resolved" ELSE next

CreateTcpConnection(c) ==
    \/ /\ Goes(c, "connecting", NextOr(c, "initializing"))
       /\ \E s \in Sockets \ open :
             m_socket' = [m_socket EXCEPT ![c] = s] /\ open' = open \cup {s}
       /\ UNCHANGED <<m_session, m_connected, cancelled, allocated>>
    \/ Goes(c, "connecting", "resolved") /\ UNCHANGED <<fields, system>>

InitSession(c) ==
    \/ /\ Goes(c, "initializing", NextOr(c, "shaking"))
       /\ \E p \in Pointers \ allocated :
             m_session' = [m_session EXCEPT ![c] = p] /\ allocated' = allocated \cup {p}
       /\ UNCHANGED <<m_socket, m_connected, cancelled, open>>
    \/ Goes(c, "initializing", "resolved") /\ Disconnect(c)

Handshake(c) ==
    \/ Goes(c, "shaking", "resolved") /\ Disconnect(c)
    \/ cancelled[c] /\ Goes(c, "shaking", "resolved") /\ UNCHANGED <<fields, system>>
    \/ /\ ~cancelled[c] /\ Goes(c, "shaking", "resolved")
       /\ m_connected' = [m_connected EXCEPT ![c] = TRUE]
       /\ UNCHANGED <<m_session, m_socket, cancelled, system>>

\* An operation on a connection that is made leaves it, drops it, or drops it to connect
\* anew (Reconnect), which the cancelled bridge ends early.  What libssh2 is then still asked
\* about the session that was returned is left out.
Operate(c) ==
    \/ Goes(c, "working", "resolved") /\ (UNCHANGED <<fields, system>> \/ Disconnect(c))
    \/ Goes(c, "working", "connecting") /\ Disconnect(c)

Work(c) == Begin(c) \/ CreateTcpConnection(c) \/ InitSession(c) \/ Handshake(c) \/ Operate(c)

-----------------------------------------------------------------------------
(* The view's thread.                                                      *)

\* A new session allocates its connection, and starts to connect it.
Start(c) ==
    /\ Intact /\ owner[c] = "none" /\ owner' = [owner EXCEPT ![c] = "live"]
    /\ m_connections' = Append(m_connections, c)
    /\ job' = [job EXCEPT ![c] = "queued"]
    /\ UNCHANGED <<fields, system>>

\* Another operation, on a connection that is made.
StartOperation(c) ==
    /\ owner[c] = "live" /\ m_connected[c] /\ Goes(c, "resolved", "working")
    /\ UNCHANGED <<fields, system>>

\* Mutant: the session pointer alone tells connections apart.
SameMutant(c, d) == m_session[d] = m_session[c]

\* What DeleteConnection takes for the connection c.
Same(c, d) == m_session[d] = m_session[c] /\ m_socket[d] = m_socket[c]

\* The first connection that has the session and the socket of c.
Found(c) == SelectInSeq(m_connections, LAMBDA d : Same(c, d))

DeleteConnection(c) ==
    /\ owner' = [owner EXCEPT ![c] = "gone"]
    /\ m_connections' = RemoveAt(m_connections, Found(c))
    /\ IF m_connected[m_connections[Found(c)]]
       THEN Disconnect(m_connections[Found(c)])
       ELSE UNCHANGED <<fields, system>>

\* The destructor of the session: an operation in flight is cancelled, a queued one never
\* runs, and the monitor will free the connection.
Close(c) ==
    /\ Intact /\ owner[c] = "live"
    /\ \/ /\ InFlight(c)
          /\ owner' = [owner EXCEPT ![c] = "leaving"]
          /\ cancelled' = [cancelled EXCEPT ![c] = TRUE]
          /\ job' = [job EXCEPT ![c] = IF @ = "queued" THEN "resolved" ELSE @]
          /\ UNCHANGED <<m_connections, m_session, m_socket, m_connected, system>>
       \/ ~InFlight(c) /\ DeleteConnection(c) /\ UNCHANGED job

\* ReapOperation.
Reap(c) ==
    /\ Intact /\ owner[c] = "leaving" /\ ~InFlight(c)
    /\ DeleteConnection(c) /\ UNCHANGED job

Next ==
    \E c \in Conns : Work(c) \/ Start(c) \/ StartOperation(c) \/ Close(c) \/ Reap(c)

Spec == Init /\ [][Next]_vars

-----------------------------------------------------------------------------
(* Properties.                                                             *)

\* Whatever session is freed, no other one loses a connection that has a socket: neither a
\* stale pointer nor a socket number given out again makes two of them look the same
\* (DeleteConnection, Disconnect).
SocketsAreKept ==
    [][\A c \in ToSet(m_connections) \ ToSet(m_connections') :
          m_socket[c] # None => owner'[c] = "gone"]_vars

\* A worker's connection is not freed before its future is resolved, as the destructor of a
\* session says.
WorkersKeepTheirConnection == \A c \in Conns : InFlight(c) => c \in ToSet(m_connections)

\* Freeing a connection disconnects it, as the controller's interface says: no session or
\* socket of it stays behind.
FreedAreDisconnected ==
    Intact => \A c \in Conns : owner[c] = "gone" => m_socket[c] = None
=============================================================================
