------------------------------ MODULE Sessions -------------------------------
(***************************************************************************)
(* The acceptor (Server.cpp), the table of sessions (SessionManager.cpp)   *)
(* and the table of logged-in players (PlayerManager.cpp): connections     *)
(* that come and go, the connection limit, the heartbeat timer.            *)
(*                                                                         *)
(* A connection that closes leaves its session in the table.  Only         *)
(* DeleteSession takes one out; it is here as the public method it is,     *)
(* though nothing that runs today calls it for a live session.             *)
(***************************************************************************)
EXTENDS Integers, FiniteSets

CONSTANTS Conns, NoConn,
          MAX_CONNECTION_NUM

ASSUME SessionsAssumption ==
    /\ IsFiniteSet(Conns) /\ NoConn \notin Conns
    /\ MAX_CONNECTION_NUM \in Nat

VARIABLES
    running,         \* whether io_context::run goes on
    conn,            \* where a connection of the outside world stands
    accepting,       \* whether async_accept is under way
    timer,           \* whether heartbeat_timer_ is being waited for
    activeSessions_, \* the connection of each session; NoConn is a null pointer
    sessionId_,
    userId,
    idToPlayerMap_,  \* by user, the session of the Player; others have expired
    beats            \* history: the parity of heartbeats sent to a session

tables == <<activeSessions_, sessionId_, userId, idToPlayerMap_>>
vars == <<running, conn, accepting, timer, tables, beats>>

ConnState == {"none", "waiting", "reset", "rejected", "open", "closed"}

\* At most one session is made of a connection.
Ids == 0..(Cardinality(Conns) - 1)

TypeOK ==
    /\ running \in BOOLEAN
    /\ conn \in [Conns -> ConnState]
    /\ accepting \in BOOLEAN
    /\ timer \in BOOLEAN
    /\ sessionId_ \in Nat
    /\ userId \in Nat
    /\ DOMAIN activeSessions_ \subseteq Ids
    /\ \A id \in DOMAIN activeSessions_ : activeSessions_[id] \in Conns \cup {NoConn}
    /\ DOMAIN idToPlayerMap_ \subseteq 1..userId
    /\ \A user \in DOMAIN idToPlayerMap_ : idToPlayerMap_[user] \in 0..(sessionId_ - 1)
    /\ beats \in [Ids -> {0, 1}]

\* TcpServer's constructor starts both chains.
Init ==
    /\ running = TRUE
    /\ conn = [c \in Conns |-> "none"]
    /\ accepting = TRUE
    /\ timer = TRUE
    /\ activeSessions_ = [id \in {} |-> NoConn]
    /\ sessionId_ = 0
    /\ userId = 1
    /\ idToPlayerMap_ = [user \in {} |-> 0]
    /\ beats = [id \in Ids |-> 0]

-----------------------------------------------------------------------------
(* The outside world.                                                      *)

Becomes(c, from, to) ==
    /\ running
    /\ conn[c] = from
    /\ conn' = [conn EXCEPT ![c] = to]
    /\ UNCHANGED <<running, accepting, timer, tables, beats>>

Connect(c) == Becomes(c, "none", "waiting")

\* The peer gives up before it was accepted.
Reset(c) == Becomes(c, "waiting", "reset")

CloseFreesPlace(c) ==
    /\ running
    /\ conn[c] = "open"
    /\ conn' = [conn EXCEPT ![c] = "closed"]
    /\ activeSessions_' = [id \in {x \in DOMAIN activeSessions_ : activeSessions_[x] # c} |->
                              activeSessions_[id]]
    /\ UNCHANGED <<running, accepting, timer, sessionId_, userId, idToPlayerMap_, beats>>

\* Either end closes the socket: onConnectionClose does nothing.
Close(c) == Becomes(c, "open", "closed")

-----------------------------------------------------------------------------
(* The handler of async_accept.  One with an error only accepts again.     *)

isConnectionFullOffByOne == Cardinality(DOMAIN activeSessions_) > MAX_CONNECTION_NUM

isConnectionFull == Cardinality(DOMAIN activeSessions_) >= MAX_CONNECTION_NUM

\* unordered_map::operator[] =.
Put(f, k, v) == [x \in DOMAIN f \cup {k} |-> IF x = k THEN v ELSE f[x]]

OnLoginSuccessNextId(user, id) == idToPlayerMap_' = Put(idToPlayerMap_, user, id + 1)

OnLoginSuccess(user, id) == idToPlayerMap_' = Put(idToPlayerMap_, user, id)

SameUser == userId' = userId

NextUser == userId' = userId + 1

CreateSession(c) ==
    /\ sessionId_' = sessionId_ + 1
    /\ OnLoginSuccess(userId, sessionId_)
    /\ NextUser
    /\ activeSessions_' = Put(activeSessions_, sessionId_, c)

accept_no_more == accepting' = FALSE

\* The handler ends with another async_accept.
accept_connections == accepting' = TRUE

Reject(c) ==
    /\ running /\ accepting
    /\ isConnectionFull
    /\ conn[c] = "waiting"
    /\ conn' = [conn EXCEPT ![c] = "rejected"]
    /\ accept_connections
    /\ UNCHANGED <<running, timer, tables, beats>>

Accept(c) ==
    /\ running /\ accepting
    /\ ~isConnectionFull
    /\ conn[c] = "waiting"
    /\ conn' = [conn EXCEPT ![c] = "open"]
    /\ CreateSession(c)
    /\ accept_connections
    /\ UNCHANGED <<running, timer, beats>>

\* Both paths ask the socket for its remote endpoint, which throws when the peer
\* has gone; nobody catches that before main.
AcceptReset(c) ==
    /\ running /\ accepting
    /\ conn[c] = "reset"
    /\ running' = FALSE
    /\ UNCHANGED <<conn, accepting, timer, tables, beats>>

-----------------------------------------------------------------------------
(* SessionManager's other methods.                                         *)

Closed(id) ==
    IF id \in DOMAIN activeSessions_ /\ activeSessions_[id] # NoConn
    THEN [conn EXCEPT ![activeSessions_[id]] = "closed"]
    ELSE conn

LogOutChecks(session) == UNCHANGED <<running, idToPlayerMap_>>

\* A null session is dereferenced: the process dies.
LogOut(session) ==
    IF session = NoConn
    THEN running' = FALSE /\ UNCHANGED idToPlayerMap_
    ELSE /\ UNCHANGED running
         /\ idToPlayerMap_' =
                LET gone == {user \in DOMAIN idToPlayerMap_ :
                                 activeSessions_[idToPlayerMap_[user]] = session}
                IN [user \in DOMAIN idToPlayerMap_ \ gone |-> idToPlayerMap_[user]]

\* The entry is erased, made again by operator[] as a null pointer, and that is
\* what LogOut is given.
DeleteSession(id) ==
    /\ running
    /\ conn' = Closed(id)
    /\ activeSessions_' = Put(activeSessions_, id, NoConn)
    /\ LogOut(activeSessions_'[id])
    /\ UNCHANGED <<accepting, timer, sessionId_, userId, beats>>

NullSessions == {id \in DOMAIN activeSessions_ : activeSessions_[id] = NoConn}

Beat == beats' = [id \in Ids |-> IF id \in DOMAIN activeSessions_ \ NullSessions
                                 THEN 1 - beats[id] ELSE beats[id]]

no_heartbeat_more == timer' = FALSE

start_heartbeat == timer' = TRUE

\* A heartbeat to every session, deletion of the null ones, and the timer again.
on_heartbeat ==
    /\ running /\ timer
    /\ Beat
    /\ running' = (NullSessions = {})
    /\ start_heartbeat
    /\ UNCHANGED <<conn, accepting, tables>>

\* SIGINT or SIGTERM.
Stop ==
    /\ running
    /\ running' = FALSE
    /\ UNCHANGED <<conn, accepting, timer, tables, beats>>

AcceptHandler(c) == Reject(c) \/ Accept(c) \/ AcceptReset(c)

Next ==
    \/ \E c \in Conns : Connect(c) \/ Reset(c) \/ Close(c) \/ AcceptHandler(c)
    \/ \E id \in Ids : DeleteSession(id)
    \/ on_heartbeat
    \/ Stop

Spec == Init /\ [][Next]_vars

\* The kernel completes an accept while somebody waits, and a timer expires.
FairSpec ==
    /\ Spec
    /\ WF_vars(\E c \in Conns : AcceptHandler(c))
    /\ WF_vars(on_heartbeat)

-----------------------------------------------------------------------------
(* Properties.                                                             *)

\* The limit is tested by one method and used up by another: no more sessions
\* than MAX_CONNECTION_NUM ever exist, though ids go on.
LimitHolds == running => Cardinality(DOMAIN activeSessions_) <= MAX_CONNECTION_NUM

\* The limit counts the sessions ever made and not those that are connected: a
\* server that was full once turns everybody away for as long as it runs, also
\* when all have gone.
FullForGood == [][isConnectionFull => isConnectionFull']_vars

\* The dispatcher uses GetPlayer without a look: so every session has a Player
\* that only it has and that the player table keeps alive.
SessionsHavePlayers ==
    running =>
        \A id \in DOMAIN activeSessions_ :
            Cardinality({user \in DOMAIN idToPlayerMap_ : idToPlayerMap_[user] = id}) = 1

\* Heartbeats and broadcasts look for null sessions and delete them, and every
\* deletion is fatal: none ever appears while the server runs.
NoNullSession == running => NullSessions = {}

\* Whoever connects is accepted or turned away, also when the server is full and
\* whatever happened to others before.
ConnectsAnswered ==
    \A c \in Conns : conn[c] = "waiting" ~> (conn[c] # "waiting" \/ ~running)

\* Every session is sent one heartbeat after the other for as long as the server
\* runs, also when its connection is closed.
HeartbeatGoesOn ==
    \A id \in Ids, parity \in {0, 1} :
        id \in DOMAIN activeSessions_ ~> (beats[id] = parity \/ ~running)

=============================================================================
