------------------------ MODULE ElbsConnectionProofs ------------------------
(***************************************************************************)
(* The safety of ElbsConnection (turnserver_main.cc), for any number of    *)
(* ELBS servers, edge servers and sockets, and any answers.                *)
(***************************************************************************)
EXTENDS ElbsConnection, TLAPS

\* A socket is dialled only if no field points to it (Free), so that dialling
\* a new address does nothing to the socket in use.
Inv == TypeOK /\ OneEdgeConnection

-----------------------------------------------------------------------------

\* The constructor and start() establish the invariant.
LEMMA InitInv == Init => Inv
<1> SUFFICES ASSUME Init PROVE Inv
  OBVIOUS
<1>1. /\ state \in [Socks -> {"CLOSED", "CONNECTING"}]
      /\ \A s \in EdgeSocks : state[s] = "CLOSED"
  BY ElbsAssumption DEF Init, Socks
<1>2. /\ asked \in [ElbsSocks -> BOOLEAN]
      /\ peer \in [EdgeSocks -> Addrs \cup {NoAddr}]
      /\ connect_age \in 0..Quiet /\ join_in \in 0..JoinDelay
  BY ElbsAssumption DEF Init
<1>3. settled = FALSE
  BY DEF Init
<1>4. settled \in BOOLEAN
  BY <1>3
<1>5. TypeOK
  BY <1>1, <1>2, <1>4 DEF Init, TypeOK
<1>6. OneEdgeConnection
  BY <1>1 DEF OneEdgeConnection
<1>7. QED
  BY <1>5, <1>6 DEF Inv

\* Closing a socket leaves no new edge connection behind.
LEMMA ClosedKeeps ==
    ASSUME Inv, NEW s \in Socks
    PROVE  /\ Closed(s) \in [Socks -> {"CLOSED", "CONNECTING", "CONNECTED"}]
           /\ \A e \in EdgeSocks : Closed(s)[e] = "CONNECTED" => e = socket_
  BY DEF Inv, TypeOK, OneEdgeConnection, Closed, Socks

\* connectEdgeServer dials the address on a socket that nothing points to.
LEMMA EdgeDialled ==
    ASSUME Inv, NEW s \in ElbsSocks, NEW address \in Addrs,
           connectEdgeServer(s, address)
    PROVE  /\ state' \in [Socks -> {"CLOSED", "CONNECTING", "CONNECTED"}]
           /\ peer' \in [EdgeSocks -> Addrs \cup {NoAddr}]
           /\ socket_connecting_' \in EdgeSocks
           /\ \A t \in EdgeSocks : t = socket_ => state'[t] = state[t]
           /\ \A e \in EdgeSocks : state'[e] = "CONNECTED" => e = socket_
<1>1. PICK e \in Free :
        /\ peer' = [peer EXCEPT ![e] = address]
        /\ socket_connecting_' = e
        /\ state' = [Closed(s) EXCEPT ![e] = "CONNECTING"]
  BY DEF connectEdgeServer
<1>2. /\ e \in EdgeSocks /\ e \in Socks /\ s \in Socks /\ e # socket_
      /\ \A t \in EdgeSocks : t \in Socks /\ t # s
  BY ElbsAssumption DEF Free, Socks
<1>3. \A t \in EdgeSocks : t = socket_ => state'[t] = state[t]
  BY <1>1, <1>2 DEF Inv, TypeOK, Closed
<1>4. QED
  BY <1>1, <1>2, <1>3, ClosedKeeps DEF Inv, TypeOK

\* Every step keeps the invariant.
LEMMA StepInv == Inv /\ [Next]_vars => Inv'
<1> SUFFICES ASSUME Inv, [Next]_vars PROVE Inv'
  OBVIOUS
<1> USE DEF Inv
<1>0. /\ JoinDelay \in Nat \ {0} /\ Quiet \in Nat
      /\ \A s \in ElbsSocks : s \in Socks /\ s \notin EdgeSocks
      /\ \A s \in EdgeSocks : s \in Socks
  BY ElbsAssumption DEF Socks
<1>1. CASE Tick
  BY <1>0, <1>1 DEF Tick, socks, links, world, TypeOK, OneEdgeConnection
<1>2. CASE OnElbsTimer
  <2>1. PICK new \in SUBSET {s \in ElbsSocks : state[s] = "CLOSED"} :
          state' = [s \in Socks |-> IF s \in new THEN "CONNECTING" ELSE state[s]]
    BY <1>2 DEF OnElbsTimer, joinElbs
  <2>2. TypeOK'
    BY <1>0, <1>2, <2>1 DEF OnElbsTimer, links, world, TypeOK
  <2>3. OneEdgeConnection'
    BY <1>0, <1>2, <2>1 DEF OnElbsTimer, links, world, OneEdgeConnection
  <2>4. QED
    BY <2>2, <2>3
<1>3. ASSUME NEW s \in ElbsSocks, OnElbsSocketConnect(s) PROVE Inv'
  <2>1. TypeOK'
    BY <1>3 DEF OnElbsSocketConnect, links, world, TypeOK
  <2>2. OneEdgeConnection'
    BY <1>0, <1>3 DEF OnElbsSocketConnect, links, world, TypeOK,
       OneEdgeConnection
  <2>3. QED
    BY <2>1, <2>2
<1>4. ASSUME NEW s \in ElbsSocks,
             \/ OnElbsSocketClose(s) \/ AnswerTooSoon(s)
      PROVE Inv'
  <2>1. /\ state' = Closed(s)
        /\ asked' = [asked EXCEPT ![s] = FALSE]
        /\ UNCHANGED <<peer, links, connect_age, join_in, world>>
    BY <1>4 DEF OnElbsSocketClose, AnswerTooSoon
  <2>2. TypeOK'
    BY <1>0, <2>1, ClosedKeeps DEF links, world, TypeOK
  <2>3. OneEdgeConnection'
    BY <1>0, <2>1, ClosedKeeps DEF links, OneEdgeConnection
  <2>4. QED
    BY <2>2, <2>3
<1>5. ASSUME NEW s \in ElbsSocks, AnswerKnown(s) PROVE Inv'
  BY <1>5 DEF AnswerKnown, links, world, TypeOK, OneEdgeConnection
<1>6. ASSUME NEW s \in ElbsSocks, AnswerSwitches(s) PROVE Inv'
  <2>0. /\ asked' \in [ElbsSocks -> BOOLEAN]
        /\ target \in Addrs
        /\ connect_Addr_' = target
        /\ UNCHANGED <<socket_, join_in, world>>
    BY <1>6 DEF AnswerSwitches, TypeOK
  <2>1. CASE connectEdgeServer(s, target) /\ connect_age' = 0
    <3>1. TypeOK'
      BY <1>0, <2>0, <2>1, EdgeDialled DEF world, TypeOK
    <3>2. OneEdgeConnection'
      BY <2>0, <2>1, EdgeDialled DEF OneEdgeConnection
    <3>3. QED
      BY <3>1, <3>2
  <2>2. CASE CannotConnect(s) /\ UNCHANGED connect_age
    <3>1. TypeOK'
      BY <1>0, <2>0, <2>2, ClosedKeeps DEF CannotConnect, world, TypeOK
    <3>2. OneEdgeConnection'
      BY <1>0, <2>0, <2>2, ClosedKeeps DEF CannotConnect, OneEdgeConnection
    <3>3. QED
      BY <3>1, <3>2
  <2>3. QED
    BY <1>6, <2>1, <2>2 DEF AnswerSwitches
<1>7. ASSUME NEW s \in EdgeSocks, OnArgusSocketConnect(s) PROVE Inv'
  <2>1. CASE s = socket_connecting_
    <3>1. /\ socket_' = s
          /\ state' = [t \in Socks |-> CASE t = s -> "CONNECTED"
                                         [] t = socket_ /\ t # s -> "CLOSED"
                                         [] OTHER -> state[t]]
          /\ UNCHANGED <<asked, peer, socket_connecting_, connect_Addr_,
                         connect_age, join_in, world>>
      BY <1>7, <2>1 DEF OnArgusSocketConnect
    <3>2. TypeOK'
      BY <3>1 DEF world, TypeOK
    <3>3. OneEdgeConnection'
      BY <1>0, <3>1 DEF OneEdgeConnection
    <3>4. QED
      BY <3>2, <3>3
  <2>2. CASE s # socket_connecting_
    <3>1. /\ state' = Closed(s)
          /\ UNCHANGED <<asked, peer, socket_, socket_connecting_, connect_Addr_,
                         connect_age, join_in, world>>
      BY <1>7, <2>2 DEF OnArgusSocketConnect
    <3>2. TypeOK'
      BY <1>0, <3>1, ClosedKeeps DEF world, TypeOK
    <3>3. OneEdgeConnection'
      BY <1>0, <3>1, ClosedKeeps DEF OneEdgeConnection
    <3>4. QED
      BY <3>2, <3>3
  <2>3. QED
    BY <2>1, <2>2
<1>8. ASSUME NEW s \in EdgeSocks, OnArgusSocketClose(s) PROVE Inv'
  <2>1. TypeOK'
    BY <1>0, <1>8, ClosedKeeps DEF OnArgusSocketClose, links, world, TypeOK
  <2>2. OneEdgeConnection'
    BY <1>0, <1>8, ClosedKeeps DEF OnArgusSocketClose, links,
       OneEdgeConnection
  <2>3. QED
    BY <2>1, <2>2
<1>9. ASSUME NEW address \in Addrs, Redirect(address) PROVE Inv'
  BY <1>9 DEF Redirect, socks, links, TypeOK, OneEdgeConnection
<1>10. CASE Settle
  <2>1. settled' = TRUE
    BY <1>10 DEF Settle
  <2>2. settled' \in BOOLEAN
    BY <2>1
  <2>3. QED
    BY <1>10, <2>2 DEF Settle, socks, links, TypeOK, OneEdgeConnection
<1>11. CASE UNCHANGED vars
  BY <1>11 DEF vars, socks, links, world, TypeOK, OneEdgeConnection
<1>12. QED
  BY <1>1, <1>2, <1>3, <1>4, <1>5, <1>6, <1>7, <1>8, <1>9, <1>10, <1>11
     DEF Next, ElbsEvents, OnResponsePacket

\* The invariant holds in every reachable state.
THEOREM Invariance == Spec => []Inv
  BY InitInv, StepInv, PTL DEF Spec

\* Whatever answers and late connects OnResponsePacket and OnArgusSocketConnect
\* have to deal with, at most one edge connection is open, and it is socket_.
THEOREM OnlyOneEdge == Spec => []OneEdgeConnection
<1>1. Inv => OneEdgeConnection
  BY DEF Inv
<1>2. QED
  BY <1>1, Invariance, PTL

\* Whatever ELBS answers and whichever connects fail, the edge connection in
\* use is given up only when the edge server closes it or in the step in which
\* OnArgusSocketConnect puts a connected one in its place.
THEOREM EdgeConnectionKept == Spec => EdgeIsKept
<1>1. Inv /\ [Next]_vars =>
        [\A s \in EdgeSocks : GivenUp(s) => OnArgusSocketClose(s) \/ Replaced(s)]_vars
  <2> SUFFICES ASSUME Inv, Next, NEW e \in EdgeSocks, GivenUp(e)
               PROVE  OnArgusSocketClose(e) \/ Replaced(e)
    OBVIOUS
  <2>0. /\ e = socket_ /\ e \in Socks /\ state[e] = "CONNECTED"
        /\ state'[e] # state[e]
        /\ \A s \in ElbsSocks : s \in Socks /\ s # e
        /\ state \in [Socks -> {"CLOSED", "CONNECTING", "CONNECTED"}]
    BY ElbsAssumption DEF GivenUp, Socks, Inv, TypeOK
  <2>1. CASE Tick \/ Settle \/ \E address \in Addrs : Redirect(address)
    BY <2>0, <2>1 DEF Tick, Settle, Redirect, socks
  <2>2. CASE OnElbsTimer
    BY <2>0, <2>2 DEF OnElbsTimer, joinElbs
  <2>3. ASSUME NEW s \in ElbsSocks, ElbsEvents(s) \/ OnElbsSocketClose(s)
        PROVE  FALSE
    <3>1. CASE OnElbsSocketConnect(s)
      BY <2>0, <3>1 DEF OnElbsSocketConnect
    <3>2. CASE OnElbsSocketClose(s) \/ AnswerTooSoon(s)
      BY <2>0, <3>2 DEF OnElbsSocketClose, AnswerTooSoon, Closed
    <3>3. CASE AnswerKnown(s)
      BY <2>0, <3>3 DEF AnswerKnown
    <3>4. CASE AnswerSwitches(s)
      <4>1. CASE connectEdgeServer(s, target)
        <5>1. target \in Addrs
          BY DEF Inv, TypeOK
        <5>2. QED
          BY <2>0, <4>1, <5>1, EdgeDialled
      <4>2. CASE CannotConnect(s)
        BY <2>0, <4>2 DEF CannotConnect, Closed
      <4>3. QED
        BY <3>4, <4>1, <4>2 DEF AnswerSwitches
    <3>5. QED
      BY <2>3, <3>1, <3>2, <3>3, <3>4 DEF ElbsEvents, OnResponsePacket
  <2>4. ASSUME NEW s \in EdgeSocks, OnArgusSocketConnect(s)
        PROVE  Replaced(e)
    <3>1. s # e /\ s \in Socks
      BY <2>0, <2>4 DEF OnArgusSocketConnect, Socks
    <3>2. CASE s = socket_connecting_
      BY <2>0, <2>4, <3>1, <3>2 DEF OnArgusSocketConnect, Replaced
    <3>3. CASE s # socket_connecting_
      BY <2>0, <2>4, <3>1, <3>3 DEF OnArgusSocketConnect, Closed
    <3>4. QED
      BY <3>2, <3>3
  <2>5. ASSUME NEW s \in EdgeSocks, OnArgusSocketClose(s)
        PROVE  OnArgusSocketClose(e)
    <3>1. CASE s = e
      BY <2>5, <3>1
    <3>2. CASE s # e
      BY <2>0, <2>5, <3>2 DEF OnArgusSocketClose, Closed
    <3>3. QED
      BY <3>1, <3>2
  <2>6. QED
    BY <2>1, <2>2, <2>3, <2>4, <2>5 DEF Next
<1>2. QED
  BY <1>1, Invariance, PTL DEF Spec, EdgeIsKept
=============================================================================
