--------------------------- MODULE SessionsProofs ---------------------------
(***************************************************************************)
(* Theorems about Sessions, for any number of connections and any limit.   *)
(*                                                                         *)
(* None of the invariants is inductive by itself.  The limit holds because *)
(* no id is ever skipped, a player is never shared because users and ids   *)
(* are counted in the same calls: so IInv says that, while the server      *)
(* runs, the sessions are the ids handed out so far, the users too, and    *)
(* both are as many as the connections that were let in.                   *)
(***************************************************************************)
EXTENDS Sessions, FiniteSetTheorems, TLAPS

LetIn == {c \in Conns : conn[c] \in {"open", "closed"}}

TablesInStep ==
    /\ sessionId_ <= MAX_CONNECTION_NUM
    /\ sessionId_ = Cardinality(LetIn)
    /\ activeSessions_ \in [0..(sessionId_ - 1) -> Conns]
    /\ userId = sessionId_ + 1
    /\ idToPlayerMap_ = [user \in 1..sessionId_ |-> user - 1]

IInv == TypeOK /\ (running => TablesInStep)

\* The connections let in are finitely many, and not all while one waits.
LEMMA LetInFinite ==
    /\ IsFiniteSet(LetIn) /\ Cardinality(LetIn) \in Nat
    /\ \A c \in Conns \ LetIn :
           /\ Cardinality(LetIn \cup {c}) = Cardinality(LetIn) + 1
           /\ Cardinality(LetIn) < Cardinality(Conns)
<1>1. /\ LetIn \in SUBSET Conns
      /\ IsFiniteSet(Conns)
    BY SessionsAssumption DEF LetIn
<1>2. IsFiniteSet(LetIn) /\ Cardinality(LetIn) \in Nat
    BY <1>1, FS_Subset, FS_CardinalityType
<1>3. ASSUME NEW c \in Conns \ LetIn
      PROVE  /\ Cardinality(LetIn \cup {c}) = Cardinality(LetIn) + 1
             /\ Cardinality(LetIn) < Cardinality(Conns)
    <2>1. Cardinality(LetIn \cup {c}) = Cardinality(LetIn) + 1
        BY <1>2, FS_AddElement
    <2>2. /\ LetIn \cup {c} \in SUBSET Conns
          /\ Cardinality(Conns) \in Nat
        BY <1>1, FS_CardinalityType
    <2>3. Cardinality(LetIn \cup {c}) <= Cardinality(Conns)
        BY <1>1, <2>2, FS_Subset
    <2> QED
        BY <1>2, <2>1, <2>2, <2>3
<1> QED
    BY <1>2, <1>3

LEMMA ConnsCounted == Cardinality(Conns) \in Nat
BY SessionsAssumption, FS_CardinalityType

\* A step of the outside world: nothing the tables depend on changes.
LEMMA OutsideStep ==
    ASSUME IInv,
           conn' \in [Conns -> ConnState], LetIn' = LetIn,
           UNCHANGED <<running, accepting, timer, tables, beats>>
    PROVE  IInv'
BY DEF IInv, TypeOK, TablesInStep, tables, Ids

\* The process ends, and the tables stay as they are.
LEMMA EndStep ==
    ASSUME IInv, running' = FALSE,
           accepting' \in BOOLEAN, timer' \in BOOLEAN, beats' \in [Ids -> {0, 1}],
           UNCHANGED <<conn, tables>>
    PROVE  IInv'
BY DEF IInv, TypeOK, tables, Ids

LEMMA AcceptStep ==
    ASSUME IInv, NEW c \in Conns, Accept(c)
    PROVE  IInv'
<1> USE DEF Accept, CreateSession, OnLoginSuccess, NextUser, Put
<1>1. /\ TypeOK /\ TablesInStep /\ running /\ running'
      /\ sessionId_ \in Nat
    BY DEF IInv, TypeOK
<1>2. sessionId_ < MAX_CONNECTION_NUM
    <2>1. 0 \in Int /\ sessionId_ - 1 \in Int
        BY <1>1
    <2>2. Cardinality(0..(sessionId_ - 1)) = sessionId_
        BY <1>1, <2>1, FS_Interval
    <2> QED
        BY <1>1, <2>2, SessionsAssumption DEF isConnectionFull, TablesInStep
<1>3. /\ c \notin LetIn
      /\ LetIn' = LetIn \cup {c}
    BY <1>1 DEF LetIn, TypeOK
<1>4. /\ sessionId_' = Cardinality(LetIn')
      /\ sessionId_ < Cardinality(Conns)
    BY <1>1, <1>3, LetInFinite DEF TablesInStep
<1>5. activeSessions_' \in [0..sessionId_ -> Conns]
    BY <1>1 DEF TablesInStep
<1>6. idToPlayerMap_' = [user \in 1..(sessionId_ + 1) |-> user - 1]
    BY <1>1 DEF TablesInStep
<1>7. TablesInStep'
    BY <1>1, <1>2, <1>4, <1>5, <1>6, SessionsAssumption DEF TablesInStep
<1>8. TypeOK'
    BY <1>1, <1>4, <1>5, <1>6, ConnsCounted
    DEF TypeOK, TablesInStep, ConnState, Ids, accept_connections
<1> QED
    BY <1>7, <1>8 DEF IInv

\* The null session that LogOut is given ends the process.
LEMMA DeleteStep ==
    ASSUME IInv, NEW id \in Ids, DeleteSession(id)
    PROVE  IInv' /\ ~running'
<1>1. /\ activeSessions_' = Put(activeSessions_, id, NoConn)
      /\ UNCHANGED <<accepting, timer, sessionId_, userId, beats>>
      /\ TypeOK
    BY DEF DeleteSession, IInv
<1>2. activeSessions_'[id] = NoConn
    BY <1>1 DEF Put
<1>3. running' = FALSE /\ UNCHANGED idToPlayerMap_
    BY <1>2 DEF DeleteSession, LogOut
<1>4. conn' \in [Conns -> ConnState]
    BY <1>1 DEF DeleteSession, Closed, TypeOK, ConnState
<1>5. /\ DOMAIN activeSessions_' = {id} \cup DOMAIN activeSessions_
      /\ \A x \in DOMAIN activeSessions_' : activeSessions_'[x] \in Conns \cup {NoConn}
    BY <1>1 DEF TypeOK, Put
<1> QED
    BY <1>1, <1>3, <1>4, <1>5 DEF IInv, TypeOK, Ids

-----------------------------------------------------------------------------

LEMMA InitIInv == Init => IInv
<1> SUFFICES ASSUME Init
             PROVE  IInv
    OBVIOUS
<1>1. LetIn = {} /\ Cardinality(LetIn) = 0
    BY FS_EmptySet DEF Init, LetIn
<1>2. TypeOK
    BY DEF Init, TypeOK, ConnState, Ids
<1>3. TablesInStep
    BY <1>1, SessionsAssumption DEF Init, TablesInStep
<1> QED
    BY <1>2, <1>3 DEF IInv

LEMMA NextIInv == IInv /\ [Next]_vars => IInv'
<1> SUFFICES ASSUME IInv, [Next]_vars
             PROVE  IInv'
    OBVIOUS
<1>1. ASSUME NEW c \in Conns, Connect(c) \/ Reset(c) \/ Close(c)
      PROVE  IInv'
    <2>1. conn' \in [Conns -> ConnState] /\ LetIn' = LetIn
        BY <1>1 DEF Connect, Reset, Close, Becomes, IInv, TypeOK, ConnState, LetIn
    <2> QED
        BY <1>1, <2>1, OutsideStep DEF Connect, Reset, Close, Becomes
<1>2. ASSUME NEW c \in Conns, Reject(c)
      PROVE  IInv'
    <2>1. conn' \in [Conns -> ConnState] /\ LetIn' = LetIn
        BY <1>2 DEF Reject, IInv, TypeOK, ConnState, LetIn
    <2>2. UNCHANGED <<running, timer, tables, beats>> /\ accepting'
        BY <1>2 DEF Reject, accept_connections
    <2> QED
        BY <2>1, <2>2 DEF IInv, TypeOK, TablesInStep, tables, Ids
<1>3. ASSUME NEW c \in Conns, AcceptReset(c)
      PROVE  IInv'
    BY <1>3, EndStep DEF AcceptReset, IInv, TypeOK
<1>4. CASE on_heartbeat
    <2>1. /\ beats' \in [Ids -> {0, 1}]
          /\ timer'
          /\ UNCHANGED <<conn, accepting, tables>>
        BY <1>4 DEF on_heartbeat, Beat, start_heartbeat, IInv, TypeOK
    <2>2. running' \in BOOLEAN /\ (running' => running)
        BY <1>4 DEF on_heartbeat
    <2> QED
        BY <2>1, <2>2 DEF IInv, TypeOK, TablesInStep, LetIn, tables, Ids
<1>5. CASE Stop
    BY <1>5, EndStep DEF Stop, IInv, TypeOK
<1>6. CASE UNCHANGED vars
    BY <1>6 DEF vars, tables, IInv, TypeOK, TablesInStep, LetIn, Ids
<1> QED
    BY <1>1, <1>2, <1>3, <1>4, <1>5, <1>6, AcceptStep, DeleteStep DEF Next, AcceptHandler

\* IInv holds in every reachable state.
THEOREM TablesStayInStep == Spec => []IInv
BY InitIInv, NextIInv, PTL DEF Spec

\* Every variable keeps its type: in particular no id is given out beyond the
\* number of connections there ever were.
THEOREM SessionsTypeCorrect == Spec => []TypeOK
<1>1. IInv => TypeOK
    BY DEF IInv
<1> QED
    BY <1>1, TablesStayInStep, PTL

\* There are never more sessions than MAX_CONNECTION_NUM.
THEOREM LimitAlwaysHolds == Spec => []LimitHolds
<1>1. IInv => LimitHolds
    <2> SUFFICES ASSUME IInv, running
                 PROVE  Cardinality(DOMAIN activeSessions_) <= MAX_CONNECTION_NUM
        BY DEF LimitHolds
    <2>1. /\ DOMAIN activeSessions_ = 0..(sessionId_ - 1)
          /\ sessionId_ \in Nat /\ sessionId_ <= MAX_CONNECTION_NUM
        BY DEF IInv, TypeOK, TablesInStep
    <2>2. Cardinality(0..(sessionId_ - 1)) = sessionId_
        BY <2>1, FS_Interval
    <2> QED
        BY <2>1, <2>2
<1> QED
    BY <1>1, TablesStayInStep, PTL

\* Every session has a Player of its own, so GetPlayer never gives null.
THEOREM EverySessionHasItsPlayer == Spec => []SessionsHavePlayers
<1>1. IInv => SessionsHavePlayers
    <2> SUFFICES ASSUME IInv, running, NEW id \in DOMAIN activeSessions_
                 PROVE  Cardinality({user \in DOMAIN idToPlayerMap_ :
                                        idToPlayerMap_[user] = id}) = 1
        BY DEF SessionsHavePlayers
    <2>1. {user \in DOMAIN idToPlayerMap_ : idToPlayerMap_[user] = id} = {id + 1}
        BY DEF IInv, TypeOK, TablesInStep
    <2> QED
        BY <2>1, FS_Singleton
<1> QED
    BY <1>1, TablesStayInStep, PTL

\* No null session is in the table while the server runs.
THEOREM NullSessionsNeverAppear == Spec => []NoNullSession
<1>1. IInv => NoNullSession
    BY SessionsAssumption DEF IInv, TablesInStep, NoNullSession, NullSessions
<1> QED
    BY <1>1, TablesStayInStep, PTL

\* A server that was full once is full for as long as it runs.
THEOREM OnceFullAlwaysFull == Spec => FullForGood
<1>1. ASSUME IInv, [Next]_vars, isConnectionFull
      PROVE  isConnectionFull'
    <2>1. DOMAIN activeSessions_ \subseteq DOMAIN activeSessions_'
        <3>1. \A c \in Conns : Accept(c) => FALSE
            BY <1>1 DEF Accept
        <3>2. ASSUME NEW id \in Ids, DeleteSession(id)
              PROVE  DOMAIN activeSessions_ \subseteq DOMAIN activeSessions_'
            BY <3>2 DEF DeleteSession, Put
        <3> QED
            BY <1>1, <3>1, <3>2
            DEF Next, AcceptHandler, Connect, Reset, Close, Becomes, Reject, AcceptReset,
                on_heartbeat, Stop, vars, tables
    <2>2. DOMAIN activeSessions_' \subseteq Ids /\ IsFiniteSet(Ids)
        <3>1. IInv'
            BY <1>1, NextIInv
        <3>2. 0 \in Int /\ Cardinality(Conns) - 1 \in Int
            BY ConnsCounted
        <3> QED
            BY <3>1, <3>2, FS_Interval DEF IInv, TypeOK, Ids
    <2>3. /\ IsFiniteSet(DOMAIN activeSessions_')
          /\ Cardinality(DOMAIN activeSessions_') \in Nat
        BY <2>2, FS_Subset, FS_CardinalityType
    <2>4. /\ Cardinality(DOMAIN activeSessions_) <= Cardinality(DOMAIN activeSessions_')
          /\ Cardinality(DOMAIN activeSessions_) \in Nat
        BY <2>1, <2>3, FS_Subset, FS_CardinalityType
    <2> QED
        BY <1>1, <2>3, <2>4, SessionsAssumption DEF isConnectionFull
<1> QED
    BY <1>1, TablesStayInStep, PTL DEF Spec, FullForGood

=============================================================================
