---------------------------- MODULE ServerProofs ----------------------------
(***************************************************************************)
(* Proofs about SearchServer, for every set of connections, every limit of *)
(* the database and every order of the handlers.                           *)
(***************************************************************************)
EXTENDS SearchServer, FiniteSetTheorems, TLAPS

USE ServerAssumption

LEMMA TypeStep ==
  ASSUME TypeOK, [Next]_vars
  PROVE  TypeOK'
<1> USE DEF Ops, Timers, Running, Terminate, Start, Completes
<1>1. ASSUME NEW c \in Conns, Accept(c) PROVE TypeOK'
  BY <1>1 DEF TypeOK, Accept, clientVars
<1>2. ASSUME NEW c \in Conns, AcceptFails(c) PROVE TypeOK'
  BY <1>2 DEF TypeOK, AcceptFails, clientVars, dbVars
<1>3. ASSUME NEW c \in Conns, Read(c) \/ ReadFails(c) PROVE TypeOK'
  BY <1>3 DEF TypeOK, Read, ReadFails, clientVars, dbVars
<1>4. ASSUME NEW c \in Conns, HandleRead(c) PROVE TypeOK'
  BY <1>4 DEF TypeOK, HandleRead, clientVars, dbVars
<1>5. ASSUME NEW c \in Conns, HandleReadFailed(c) PROVE TypeOK'
  BY <1>5 DEF TypeOK, HandleReadFailed, clientVars, dbVars
<1>6. ASSUME NEW c \in Conns, Write(c) \/ WriteFails(c) PROVE TypeOK'
  BY <1>6 DEF TypeOK, Write, WriteFails, clientVars, dbVars
<1>7. ASSUME NEW c \in Conns, HandleWrite(c) PROVE TypeOK'
  BY <1>7 DEF TypeOK, HandleWrite, clientVars, dbVars
<1>8. ASSUME NEW c \in Conns, Expire(c) PROVE TypeOK'
  BY <1>8 DEF TypeOK, Expire, clientVars, dbVars
<1>9. ASSUME NEW c \in Conns, HandleDeadline(c) PROVE TypeOK'
  BY <1>9 DEF TypeOK, HandleDeadline, clientVars, dbVars
<1>10. ASSUME NEW c \in Conns, Client(c) PROVE TypeOK'
  BY <1>10 DEF TypeOK, Client, Connect, Send, Leave, dbVars
<1>11. CASE ConnectDB \/ CloseDB
  BY <1>11 DEF TypeOK, ConnectDB, CloseDB, clientVars
<1>12. CASE UNCHANGED vars
  BY <1>12 DEF TypeOK, vars, clientVars, dbVars
<1> QED
  BY <1>1, <1>2, <1>3, <1>4, <1>5, <1>6, <1>7, <1>8, <1>9, <1>10, <1>11,
     <1>12 DEF Next, Server, Wait

LEMMA WritesStep ==
  ASSUME TypeOK, WritesBegun, [Next]_vars
  PROVE  WritesBegun'
<1> USE DEF Ops, Timers, Running, Terminate, Start, Completes
<1>1. ASSUME NEW c \in Conns, Accept(c) PROVE WritesBegun'
  BY <1>1 DEF TypeOK, WritesBegun, Accept, dbVars
<1>2. ASSUME NEW c \in Conns, AcceptFails(c) PROVE WritesBegun'
  BY <1>2 DEF TypeOK, WritesBegun, AcceptFails, dbVars
<1>3. ASSUME NEW c \in Conns, Read(c) \/ ReadFails(c) PROVE WritesBegun'
  BY <1>3 DEF TypeOK, WritesBegun, Read, ReadFails, dbVars
<1>4. ASSUME NEW c \in Conns, HandleRead(c) PROVE WritesBegun'
  BY <1>4 DEF TypeOK, WritesBegun, HandleRead, dbVars
<1>5. ASSUME NEW c \in Conns, HandleReadFailed(c) PROVE WritesBegun'
  BY <1>5 DEF TypeOK, WritesBegun, HandleReadFailed, dbVars
<1>6. ASSUME NEW c \in Conns, Write(c) \/ WriteFails(c) PROVE WritesBegun'
  BY <1>6 DEF TypeOK, WritesBegun, Write, WriteFails, dbVars
<1>7. ASSUME NEW c \in Conns, HandleWrite(c) PROVE WritesBegun'
  BY <1>7 DEF TypeOK, WritesBegun, HandleWrite, dbVars
<1>8. ASSUME NEW c \in Conns, Expire(c) PROVE WritesBegun'
  BY <1>8 DEF TypeOK, WritesBegun, Expire, dbVars
<1>9. ASSUME NEW c \in Conns, HandleDeadline(c) PROVE WritesBegun'
  BY <1>9 DEF TypeOK, WritesBegun, HandleDeadline, dbVars
<1>10. ASSUME NEW c \in Conns, Client(c) PROVE WritesBegun'
  BY <1>10 DEF TypeOK, WritesBegun, Client, Connect, Send, Leave, dbVars
<1>11. CASE ConnectDB \/ CloseDB
  BY <1>11 DEF TypeOK, WritesBegun, ConnectDB, CloseDB
<1>12. CASE UNCHANGED vars
  BY <1>12 DEF TypeOK, WritesBegun, vars, dbVars
<1> QED
  BY <1>1, <1>2, <1>3, <1>4, <1>5, <1>6, <1>7, <1>8, <1>9, <1>10, <1>11,
     <1>12 DEF Next, Server, Wait

LEMMA DeadlineStep ==
  ASSUME TypeOK, WritesBegun, DeadlineKept, [Next]_vars
  PROVE  DeadlineKept'
<1> USE DEF Ops, Timers, Running, Terminate, Start, Completes
<1>1. ASSUME NEW c \in Conns, Accept(c) PROVE DeadlineKept'
  BY ZenonT(30), <1>1 DEF TypeOK, WritesBegun, DeadlineKept, Accept, dbVars
<1>2. ASSUME NEW c \in Conns, AcceptFails(c) PROVE DeadlineKept'
  BY <1>2 DEF TypeOK, WritesBegun, DeadlineKept, AcceptFails, dbVars
<1>3. ASSUME NEW c \in Conns, Read(c) \/ ReadFails(c) PROVE DeadlineKept'
  BY <1>3 DEF TypeOK, WritesBegun, DeadlineKept, Read, ReadFails, dbVars
<1>4. ASSUME NEW c \in Conns, HandleRead(c) PROVE DeadlineKept'
  BY <1>4 DEF TypeOK, WritesBegun, DeadlineKept, HandleRead, dbVars
<1>5. ASSUME NEW c \in Conns, HandleReadFailed(c) PROVE DeadlineKept'
  BY <1>5 DEF TypeOK, WritesBegun, DeadlineKept, HandleReadFailed, dbVars
<1>6. ASSUME NEW c \in Conns, Write(c) \/ WriteFails(c) PROVE DeadlineKept'
  BY <1>6 DEF TypeOK, WritesBegun, DeadlineKept, Write, WriteFails, dbVars
<1>7. ASSUME NEW c \in Conns, HandleWrite(c) PROVE DeadlineKept'
  BY <1>7 DEF TypeOK, WritesBegun, DeadlineKept, HandleWrite, dbVars
<1>8. ASSUME NEW c \in Conns, Expire(c) PROVE DeadlineKept'
  BY <1>8 DEF TypeOK, WritesBegun, DeadlineKept, Expire, dbVars
<1>9. ASSUME NEW c \in Conns, HandleDeadline(c) PROVE DeadlineKept'
  BY <1>9 DEF TypeOK, WritesBegun, DeadlineKept, HandleDeadline, dbVars
<1>10. ASSUME NEW c \in Conns, Client(c) PROVE DeadlineKept'
  BY <1>10 DEF TypeOK, WritesBegun, DeadlineKept, Client, Connect, Send, Leave, dbVars
<1>11. CASE ConnectDB \/ CloseDB
  BY <1>11 DEF TypeOK, WritesBegun, DeadlineKept, ConnectDB, CloseDB
<1>12. CASE UNCHANGED vars
  BY <1>12 DEF TypeOK, WritesBegun, DeadlineKept, vars, dbVars
<1> QED
  BY <1>1, <1>2, <1>3, <1>4, <1>5, <1>6, <1>7, <1>8, <1>9, <1>10, <1>11,
     <1>12 DEF Next, Server, Wait

\* Only Accept and ConnectDB open a session, and only one that is left.
LEMMA SessionStep ==
  ASSUME TypeOK, SessionKept, [Next]_vars
  PROVE  SessionKept'
<1> USE DEF Running, Terminate, Start, Completes
<1>1. IsFiniteSet(sessions) /\ Cardinality(sessions) \in Nat
  BY FS_Subset, FS_CardinalityType DEF TypeOK
<1>2. ASSUME NEW c \in Conns, Accept(c) PROVE SessionKept'
  <2>1. CASE SessionFree /\ schema
    <3>1. sessions' = sessions \cup {c} /\ UNCHANGED indexing
          /\ io' = [io EXCEPT ![c] = "reading"]
      BY <1>2, <2>1 DEF Accept
    <3>2. SessionsOpen < DbLimit
      BY <2>1 DEF SessionFree
    <3>3. Cardinality(sessions \cup {c})
            \in {Cardinality(sessions), Cardinality(sessions) + 1}
      BY <1>1, FS_AddElement
    <3>4. SessionsOpen' <= DbLimit
      BY <1>1, <3>1, <3>2, <3>3 DEF SessionsOpen, TypeOK
    <3> QED
      BY <3>1, <3>4 DEF SessionKept, TypeOK
  <2>2. CASE ~(SessionFree /\ schema)
    BY <1>2, <2>2 DEF Accept, SessionKept, SessionsOpen
  <2> QED
    BY <2>1, <2>2
<1>3. ASSUME NEW c \in Conns, Write(c) \/ WriteFails(c) PROVE SessionKept'
  BY <1>3 DEF Write, WriteFails, SessionKept, SessionsOpen, TypeOK, dbVars
<1>4. ASSUME NEW c \in Conns, \/ Read(c) \/ ReadFails(c) \/ HandleRead(c)
                              \/ HandleReadFailed(c) \/ HandleWrite(c)
      PROVE SessionKept'
  BY <1>4 DEF Read, ReadFails, HandleRead, HandleReadFailed, HandleWrite,
              SessionKept, SessionsOpen, TypeOK, dbVars
<1>5. ASSUME NEW c \in Conns, \/ AcceptFails(c) \/ Expire(c)
                              \/ HandleDeadline(c) \/ Client(c)
      PROVE SessionKept'
  BY <1>5 DEF AcceptFails, Expire, HandleDeadline, Client, Connect, Send, Leave,
              SessionKept, SessionsOpen, dbVars
<1>6. CASE ConnectDB \/ CloseDB
  BY <1>1, <1>6 DEF ConnectDB, CloseDB, SessionFree, SessionKept, SessionsOpen
<1>7. CASE UNCHANGED vars
  BY <1>7 DEF SessionKept, SessionsOpen, vars, dbVars
<1> QED
  BY <1>2, <1>3, <1>4, <1>5, <1>6, <1>7 DEF Next, Server, Wait

LEMMA ServerInit ==
  ASSUME Init
  PROVE  ServerInv
<1>1. TypeOK
  BY DEF Init, TypeOK, Ops, Timers
<1>2. sessions = {}
  BY DEF Init
<1> QED
  BY <1>1, <1>2, FS_EmptySet
     DEF Init, ServerInv, DeadlineKept, WritesBegun, SessionKept, SessionsOpen

LEMMA ServerInvStep ==
  ASSUME ServerInv, [Next]_vars
  PROVE  ServerInv'
BY TypeStep, WritesStep, DeadlineStep, SessionStep DEF ServerInv

\* ServerInv holds in every reachable state of the server.
THEOREM Invariance == Spec => []ServerInv
<1>1. Init => ServerInv
  BY ServerInit
<1>2. ServerInv /\ [Next]_vars => ServerInv'
  BY ServerInvStep
<1> QED
  BY <1>1, <1>2, PTL DEF Spec

\* Every variable keeps its type.
THEOREM ServerTyped == Spec => []TypeOK
<1>1. ServerInv => TypeOK
  BY DEF ServerInv
<1> QED
  BY <1>1, Invariance, PTL

\* No order of the handlers leaves a connection waiting without a deadline.
THEOREM DeadlineAlwaysThere == Spec => []NeverWithoutDeadline
<1>1. ServerInv => NeverWithoutDeadline
  BY DEF ServerInv, DeadlineKept, NeverWithoutDeadline
<1> QED
  BY <1>1, Invariance, PTL

\* A connection is destroyed by the end of its response or by its deadline.
THEOREM DestroyedInOrder == Spec => HeldUntilDeadline
<1>1. ASSUME ServerInv, [Next]_vars, NEW c \in Conns, Alive(c), ~Alive(c)'
      PROVE  c \in begun \/ socket'[c] = "closed"
  <2> USE DEF Alive, ServerInv, TypeOK, DeadlineKept, WritesBegun, Running
  <2>1. ASSUME NEW d \in Conns, HandleReadFailed(d)
        PROVE  c \in begun \/ socket'[c] = "closed"
    BY <1>1, <2>1 DEF HandleReadFailed
  <2>2. ASSUME NEW d \in Conns, HandleWrite(d)
        PROVE  c \in begun \/ socket'[c] = "closed"
    BY <1>1, <2>2 DEF HandleWrite
  <2>3. ASSUME NEW d \in Conns, HandleDeadline(d)
        PROVE  c \in begun \/ socket'[c] = "closed"
    BY <1>1, <2>3 DEF HandleDeadline
  <2>4. ASSUME NEW d \in Conns, Accept(d)
        PROVE  Alive(c)'
    BY <1>1, <2>4 DEF Accept, Start, Terminate
  <2>5. ASSUME NEW d \in Conns, \/ Read(d) \/ ReadFails(d) \/ Write(d)
                                \/ WriteFails(d) \/ Expire(d)
        PROVE  Alive(c)'
    BY <1>1, <2>5 DEF Read, ReadFails, Write, WriteFails, Expire, Completes
  <2>6. ASSUME NEW d \in Conns, HandleRead(d)
        PROVE  Alive(c)'
    BY <1>1, <2>6 DEF HandleRead, Terminate
  <2>7. ASSUME NEW d \in Conns, AcceptFails(d) \/ Client(d)
        PROVE  Alive(c)'
    BY <1>1, <2>7 DEF AcceptFails, Client, Connect, Send, Leave
  <2>8. ConnectDB \/ CloseDB \/ UNCHANGED vars => Alive(c)'
    BY <1>1 DEF ConnectDB, CloseDB, vars
  <2> QED
    BY <1>1, <2>1, <2>2, <2>3, <2>4, <2>5, <2>6, <2>7, <2>8
       DEF Next, Server, Wait
<1>2. ServerInv /\ [Next]_vars
        => [\A c \in Conns :
              Alive(c) /\ ~Alive(c)' => c \in begun \/ socket'[c] = "closed"]_vars
  BY <1>1
<1> QED
  BY <1>2, Invariance, PTL DEF Spec, HeldUntilDeadline
=============================================================================
