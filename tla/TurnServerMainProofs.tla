------------------------ MODULE TurnServerMainProofs ------------------------
(***************************************************************************)
(* The safety of the process of turnserver_main.cc.                        *)
(*                                                                         *)
(* First the link to the worker manager (Worker and WorkerTCPSocket), for  *)
(* any number of sockets, any delays with the bandwidth timer's the        *)
(* shorter one, and any lateness of the thread.  Then the log, which loses *)
(* no line unaccounted for, for any sizes of log and chunk.  At the end,   *)
(* the process implements the specifications of both components: whatever  *)
(* main does before and between the starts of its threads, what is proved  *)
(* of Worker and of LogFile holds of the process.                          *)
(***************************************************************************)
EXTENDS TurnServerMain, TLAPS

-----------------------------------------------------------------------------
(* The worker.                                                             *)

\* The out buffer holds nothing or the rest of one message.
SocketTypes ==
    /\ socket_ \in Socks \cup {NoSock}
    /\ state \in [Socks -> {"CLOSED", "CONNECTING", "CONNECTED"}]
    /\ outbuf \in [Socks -> {<<>>, <<"rest">>}]
    /\ first \in [Socks -> {"none", "connect", "ping", "response"}]
    /\ broken \in [Socks -> BOOLEAN]

\* A connecting socket is fresh, a connected one has sent "connect" first.
Greeting ==
    \A s \in Socks :
        /\ state[s] = "CONNECTING" => /\ first[s] = "none"
                                      /\ outbuf[s] = <<>>
                                      /\ ~broken[s]
        /\ state[s] = "CONNECTED" => first[s] = "connect"

SocketInv ==
    /\ SocketTypes
    /\ OnlySocketOpen
    /\ Greeting
    /\ ConnectComesFirst
    /\ torn = FALSE

\* Until the counters are read, reading them is due before the next ping.
TimerInv ==
    /\ due \in [Messages -> (-MaxLate)..WorkerDelay]
    /\ counted \in BOOLEAN
    /\ counted \/ due["MSG_BANDWIDTH_GET"] < due["MSG_WORKER_ONTIMER"]
    /\ blind = FALSE

Inv == SocketInv /\ TimerInv /\ up \in BOOLEAN

-----------------------------------------------------------------------------

\* AddWorkerManagerSocket establishes the invariant.
LEMMA InitInv == Init => Inv
<1> SUFFICES ASSUME Init PROVE Inv
  OBVIOUS
<1>1. SocketTypes
  BY DEF Init, SocketTypes
<1>2. OnlySocketOpen /\ Greeting /\ ConnectComesFirst
  BY DEF Init, OnlySocketOpen, Greeting, ConnectComesFirst
<1>3. TimerInv
  <2>1. /\ due \in [Messages -> (-MaxLate)..WorkerDelay]
        /\ due["MSG_BANDWIDTH_GET"] < due["MSG_WORKER_ONTIMER"]
    BY DelayAssumption DEF Init, Messages
  <2>2. counted = FALSE /\ blind = FALSE
    BY DEF Init
  <2>3. counted \in BOOLEAN
    BY <2>2
  <2>4. QED
    BY <2>1, <2>2, <2>3 DEF TimerInv
<1>4. torn = FALSE /\ up = FALSE
  BY DEF Init
<1>5. up \in BOOLEAN
  BY <1>4
<1>6. QED
  BY <1>1, <1>2, <1>3, <1>4, <1>5 DEF SocketInv, Inv

\* Flushing one whole message leaves nothing or the rest of it.
LEMMA UnsentRest == Unsent(Append(<<>>, "whole")) = {<<"rest">>}
<1>1. /\ Append(<<>>, "whole") = <<"whole">>
      /\ Len(<<"whole">>) = 1
  OBVIOUS
<1>2. SubSeq(<<"whole">>, 2, 1) = <<>>
  OBVIOUS
<1>3. <<"rest">> \o <<>> = <<"rest">>
  OBVIOUS
<1>4. \A k \in 1..1 : k = 1
  OBVIOUS
<1>5. QED
  BY <1>1, <1>2, <1>3, <1>4 DEF Unsent

\* Send on a socket that is not waiting to send: the kernel takes a part or
\* all of the message, or nothing of it and the buffer is cleared.
LEMMA SendKeeps ==
    ASSUME SocketInv, NEW s \in Socks, NEW message \in {"connect", "ping", "response"},
           Send(s, message)
    PROVE  /\ outbuf' \in [Socks -> {<<>>, <<"rest">>}]
           /\ \A t \in Socks \ {s} : outbuf'[t] = outbuf[t]
           /\ torn' = FALSE
           /\ \/ first' = first
              \/ first' = [first EXCEPT ![s] = IF @ = "none" THEN message ELSE @]
           /\ (outbuf[s] = <<>> /\ ~Stalls(s))
                 => first' = [first EXCEPT ![s] = IF @ = "none" THEN message ELSE @]
<1> USE DEF SocketInv, SocketTypes
<1>1. CASE outbuf[s] # <<>>
  BY <1>1 DEF Send
<1>2. CASE outbuf[s] = <<>>
  <2>1. AppendAndFlush(s, message)
    BY <1>2 DEF Send
  <2>2. Append(outbuf[s], "whole") = <<"whole">>
    BY <1>2
  <2>3. Unsent(Append(outbuf[s], "whole")) = {<<"rest">>}
    BY <1>2, UnsentRest
  <2>4. ~ \E i \in 1..Len(<<"whole">>) : <<"whole">>[i] = "rest"
    OBVIOUS
  <2>5. CASE /\ Stalls(s)
             /\ outbuf' = [outbuf EXCEPT ![s] = <<>>]
             /\ torn' = (torn \/ \E i \in 1..Len(<<"whole">>) :
                                     <<"whole">>[i] = "rest")
             /\ first' = first
    BY <2>4, <2>5
  <2>6. CASE /\ first' = [first EXCEPT ![s] = IF @ = "none" THEN message ELSE @]
             /\ \E left \in {<<"rest">>} \cup {<<>>} :
                    outbuf' = [outbuf EXCEPT ![s] = left]
             /\ torn' = torn
    BY <2>6
  <2>7. QED
    BY <2>1, <2>2, <2>3, <2>5, <2>6 DEF AppendAndFlush
<1>3. QED
  BY <1>1, <1>2

\* A message sent by Worker on a socket in use disturbs nothing but the out
\* buffer of socket_.
LEMMA MessageKeeps ==
    ASSUME SocketInv, NEW message \in {"connect", "ping", "response"},
           sendMessage(message)
    PROVE  /\ outbuf' \in [Socks -> {<<>>, <<"rest">>}]
           /\ \A t \in Socks : state[t] # "CONNECTED" => outbuf'[t] = outbuf[t]
           /\ torn' = FALSE
           /\ first' = first
<1> USE DEF SocketInv
<1>1. CASE Connected
  <2>1. socket_ \in Socks /\ Send(socket_, message)
    BY <1>1 DEF Connected, sendMessage, SocketTypes
  <2>2. first[socket_] = "connect" /\ state[socket_] = "CONNECTED"
    BY <1>1, <2>1 DEF Connected, Greeting
  <2>3. [first EXCEPT ![socket_] = IF @ = "none" THEN message ELSE @] = first
    BY <2>1, <2>2 DEF SocketTypes
  <2>4. QED
    BY <2>1, <2>2, <2>3, SendKeeps
<1>2. CASE ~Connected
  BY <1>2 DEF sendMessage, SocketTypes
<1>3. QED
  BY <1>1, <1>2

\* Create puts a fresh connecting socket in the place of a closed one or none.
LEMMA CreateKeeps ==
    ASSUME SocketInv, NeedsSocket, Create
    PROVE  SocketInv'
<1> USE DEF SocketInv, SocketTypes
<1>1. CASE UNCHANGED <<sockets, broken>>
  BY <1>1 DEF sockets, OnlySocketOpen, Greeting, ConnectComesFirst
<1>2. ASSUME NEW s \in Socks \ {socket_},
             state[s] = "CLOSED",
             socket_' = s,
             state' = [state EXCEPT ![s] = "CONNECTING"],
             outbuf' = [outbuf EXCEPT ![s] = <<>>],
             first' = [first EXCEPT ![s] = "none"],
             broken' = [broken EXCEPT ![s] = FALSE],
             torn' = torn
      PROVE  SocketInv'
  <2>1. \A t \in Socks : state[t] = "CLOSED"
    BY SockAssumption DEF NeedsSocket, OnlySocketOpen
  <2>2. OnlySocketOpen'
    BY <1>2, <2>1 DEF OnlySocketOpen
  <2>3. Greeting'
    BY <1>2, <2>1 DEF Greeting
  <2>4. ConnectComesFirst'
    BY <1>2 DEF ConnectComesFirst
  <2>5. QED
    BY <1>2, <2>2, <2>3, <2>4
<1>3. QED
  BY <1>1, <1>2 DEF Create

-----------------------------------------------------------------------------

\* Sending a message on the connection in use keeps the sockets in order.
LEMMA SendingKeeps ==
    ASSUME SocketInv, NEW message \in {"connect", "ping", "response"},
           sendMessage(message), UNCHANGED <<socket_, state, broken>>
    PROVE  SocketInv'
<1>1. /\ outbuf' \in [Socks -> {<<>>, <<"rest">>}]
      /\ \A t \in Socks : state[t] # "CONNECTED" => outbuf'[t] = outbuf[t]
      /\ torn' = FALSE
      /\ first' = first
  BY MessageKeeps
<1>2. SocketTypes'
  BY <1>1 DEF SocketInv, SocketTypes
<1>3. OnlySocketOpen' /\ Greeting' /\ ConnectComesFirst'
  BY <1>1 DEF SocketInv, SocketTypes, OnlySocketOpen, Greeting,
     ConnectComesFirst
<1>4. QED
  BY <1>1, <1>2, <1>3 DEF SocketInv

\* The ping timer is never dispatched before the counters were read: the
\* message due the longest goes first.
LEMMA PingTimerIsInformed ==
    ASSUME TimerInv, Dispatch("MSG_WORKER_ONTIMER", WorkerDelay)
    PROVE  /\ counted = TRUE
           /\ due' \in [Messages -> (-MaxLate)..WorkerDelay]
<1>1. /\ due["MSG_WORKER_ONTIMER"] <= due["MSG_BANDWIDTH_GET"]
      /\ due["MSG_WORKER_ONTIMER"] \in Int
      /\ due["MSG_BANDWIDTH_GET"] \in Int
  BY DelayAssumption DEF Dispatch, TimerInv, Messages
<1>2. counted
  BY <1>1 DEF TimerInv
<1>3. due' \in [Messages -> (-MaxLate)..WorkerDelay]
  BY DelayAssumption DEF Dispatch, TimerInv, Messages
<1>4. QED
  BY <1>2, <1>3 DEF TimerInv

\* Every step keeps the invariant.
LEMMA StepInv == Inv /\ [Next]_vars => Inv'
<1> SUFFICES ASSUME Inv, [Next]_vars PROVE Inv'
  OBVIOUS
<1> USE DEF Inv
<1>a. ASSUME UNCHANGED <<sockets, broken>> PROVE SocketInv'
  BY <1>a DEF sockets, SocketInv, SocketTypes, OnlySocketOpen, Greeting,
     ConnectComesFirst
<1>b. ASSUME UNCHANGED <<due, counted, blind>> PROVE TimerInv'
  BY <1>b DEF TimerInv
<1>1. CASE Tick
  <2>1. TimerInv'
    BY <1>1, DelayAssumption DEF Tick, TimerInv, Messages
  <2>2. QED
    BY <1>1, <1>a, <2>1 DEF Tick
<1>2. CASE OnWorkerTimer
  <2>0. /\ counted = TRUE
        /\ due' \in [Messages -> (-MaxLate)..WorkerDelay]
    BY <1>2, PingTimerIsInformed DEF OnWorkerTimer
  <2>1. ASSUME sendPingMsg, UNCHANGED <<socket_, state, broken>>
        PROVE  SocketInv' /\ blind' = FALSE
    <3>1. SocketInv'
      BY <2>1, SendingKeeps DEF sendPingMsg
    <3>2. blind' = FALSE
      BY <2>0, <2>1 DEF sendPingMsg, TimerInv
    <3>3. QED
      BY <3>1, <3>2
  <2>2. CASE NeedsSocket /\ Create /\ UNCHANGED blind
    BY <2>0, <2>2, <1>2, CreateKeeps DEF OnWorkerTimer, TimerInv
  <2>3. CASE Connected /\ sendPingMsg /\ UNCHANGED <<socket_, state, broken>>
    BY <2>0, <2>1, <2>3, <1>2 DEF OnWorkerTimer, TimerInv
  <2>4. CASE /\ IF ReConnect THEN sendPingMsg
                ELSE UNCHANGED <<outbuf, first, torn, blind>>
             /\ UNCHANGED <<socket_, state, broken>>
    <3>1. CASE ReConnect
      BY <2>0, <2>1, <2>4, <3>1, <1>2 DEF OnWorkerTimer, TimerInv
    <3>2. CASE ~ReConnect
      BY <2>0, <2>4, <3>2, <1>2, <1>a DEF OnWorkerTimer, TimerInv, sockets
    <3>3. QED
      BY <3>1, <3>2
  <2>5. QED
    BY <1>2, <2>2, <2>3, <2>4 DEF OnWorkerTimer
<1>3. CASE OnBandwidthTimer
  <2>1. counted' = TRUE /\ blind' = FALSE
    BY <1>3 DEF OnBandwidthTimer, TimerInv
  <2>2. due' \in [Messages -> (-MaxLate)..WorkerDelay]
    BY <1>3, DelayAssumption DEF OnBandwidthTimer, Dispatch, TimerInv, Messages
  <2>3. TimerInv'
    BY <2>1, <2>2 DEF TimerInv
  <2>4. QED
    BY <1>3, <1>a, <2>3 DEF OnBandwidthTimer
<1>4. ASSUME NEW s \in Socks, OnSocketConnect(s) PROVE Inv'
  <2>1. /\ s = socket_ /\ outbuf[s] = <<>> /\ first[s] = "none"
        /\ ~Stalls(s) /\ state[s] = "CONNECTING"
    BY <1>4 DEF OnSocketConnect, SocketInv, OnlySocketOpen, Greeting, Stalls
  <2>2. Send(s, "connect")
    BY <1>4, <2>1 DEF OnSocketConnect
  <2>3. /\ outbuf' \in [Socks -> {<<>>, <<"rest">>}]
        /\ \A t \in Socks \ {s} : outbuf'[t] = outbuf[t]
        /\ torn' = FALSE
        /\ first' = [first EXCEPT ![s] = IF @ = "none" THEN "connect" ELSE @]
    BY <2>1, <2>2, SendKeeps
  <2>4. first' = [first EXCEPT ![s] = "connect"]
    BY <2>1, <2>3 DEF SocketInv, SocketTypes
  <2>5. SocketTypes'
    BY <1>4, <2>3, <2>4 DEF OnSocketConnect, SocketInv, SocketTypes
  <2>6. OnlySocketOpen'
    BY <1>4 DEF OnSocketConnect, SocketInv, SocketTypes, OnlySocketOpen
  <2>7. Greeting' /\ ConnectComesFirst'
    BY <1>4, <2>3, <2>4 DEF OnSocketConnect, SocketInv, SocketTypes, Greeting,
       ConnectComesFirst
  <2>8. QED
    BY <1>4, <1>b, <2>3, <2>5, <2>6, <2>7 DEF OnSocketConnect, SocketInv
<1>5. ASSUME NEW s \in Socks, OnSocketClose(s) PROVE Inv'
  <2>1. SocketInv'
    BY <1>5 DEF OnSocketClose, SocketInv, SocketTypes, OnlySocketOpen,
       Greeting, ConnectComesFirst
  <2>2. QED
    BY <1>5, <1>b, <2>1 DEF OnSocketClose
<1>6. ASSUME NEW s \in Socks, ProcessInput(s) PROVE Inv'
  BY <1>6, <1>b, SendingKeeps DEF ProcessInput, OnWorkerManagerPacket
<1>7. ASSUME NEW s \in Socks, OnWriteEvent(s) PROVE Inv'
  <2>1. SocketInv'
    BY <1>7 DEF OnWriteEvent, SocketInv, SocketTypes, OnlySocketOpen,
       Greeting, ConnectComesFirst
  <2>2. QED
    BY <1>7, <1>b, <2>1 DEF OnWriteEvent
<1>8. ASSUME NEW s \in Socks, PeerBreaks(s) PROVE Inv'
  <2>1. SocketInv'
    BY <1>8 DEF PeerBreaks, sockets, SocketInv, SocketTypes, OnlySocketOpen,
       Greeting, ConnectComesFirst
  <2>2. QED
    BY <1>8, <1>b, <2>1 DEF PeerBreaks
<1>9. CASE ManagerRecovers
  BY <1>9, <1>a, <1>b DEF ManagerRecovers
<1>10. CASE UNCHANGED vars
  BY <1>10, <1>a, <1>b DEF vars
<1>11. QED
  BY <1>1, <1>2, <1>3, <1>4, <1>5, <1>6, <1>7, <1>8, <1>9, <1>10 DEF Next

\* The invariant holds in every reachable state.
THEOREM Invariance == Spec => []Inv
  BY InitInv, StepInv, PTL DEF Spec

\* Every field of Worker and of its sockets keeps its type, and what waits in
\* an out buffer is the rest of a message.
THEOREM TypeCorrect == Spec => []TypeOK
<1>1. Inv => TypeOK
  <2> SUFFICES ASSUME Inv PROVE TypeOK
    OBVIOUS
  <2>1. \A s \in Socks : outbuf[s] = <<>> \/ outbuf[s][1] = "rest"
    BY DEF Inv, SocketInv, SocketTypes
  <2>2. QED
    BY <2>1 DEF Inv, SocketInv, SocketTypes, TimerInv, TypeOK
<1>2. QED
  BY <1>1, Invariance, PTL

\* The DCHECK of OnSocketClose never fails: no socket but socket_ is open.
THEOREM OnlyOneSocket == Spec => []OnlySocketOpen
<1>1. Inv => OnlySocketOpen
  BY DEF Inv, SocketInv
<1>2. QED
  BY <1>1, Invariance, PTL

\* No ping and no response is sent ahead of "connect" on any connection.
THEOREM ConnectIsFirst == Spec => []ConnectComesFirst
<1>1. Inv => ConnectComesFirst
  BY DEF Inv, SocketInv
<1>2. QED
  BY <1>1, Invariance, PTL

\* WorkerTCPSocket::Send never puts a message behind a part of another.
THEOREM NeverTorn == Spec => []NothingTorn
<1>1. Inv => NothingTorn
  BY DEF Inv, SocketInv, NothingTorn
<1>2. QED
  BY <1>1, Invariance, PTL

\* No ping reads the counters before MSG_BANDWIDTH_GET assigned them.
THEOREM PingsAreInformed == Spec => []CountersBeforePing
<1>1. Inv => CountersBeforePing
  BY DEF Inv, TimerInv, CountersBeforePing
<1>2. QED
  BY <1>1, Invariance, PTL

-----------------------------------------------------------------------------
(* The log.                                                                *)

\* What is no longer in the log is accounted for.
Kept == LinesKept

\* So is what the copy under way has read,
CopyKept ==
    backup_at = "copy" =>
        /\ emptied <= copied
        /\ \A line \in (emptied + 1)..copied : line \in saved \/ line \in uncopied

\* and, when the copy is finished, everything that is about to be removed.
EndKept ==
    backup_at = "empty" =>
        \A line \in (emptied + 1)..printed :
            line \in saved \/ line \in uncopied \/ line \in late

LogInv == LogTypeOK /\ Kept /\ CopyKept /\ EndKept

-----------------------------------------------------------------------------

\* A process begins with a log of which nothing was removed.
LEMMA LogInitInv == LogInit => LogInv
  BY LogSizes DEF LogInit, LogInv, LogTypeOK, Kept, LinesKept, CopyKept, EndKept

\* PrintLine, by any thread, at any point of the backup.
LEMMA PrintKeeps == LogInv /\ PrintLine => LogInv'
<1> SUFFICES ASSUME LogInv, PrintLine PROVE LogInv'
  OBVIOUS
<1>1. LogTypeOK'
  BY DEF LogInv, LogTypeOK, PrintLine
<1>2. Kept'
  BY DEF LogInv, LogTypeOK, Kept, LinesKept, PrintLine
<1>3. CopyKept'
  BY DEF LogInv, LogTypeOK, CopyKept, PrintLine
<1>4. EndKept'
  BY DEF LogInv, LogTypeOK, EndKept, PrintLine
<1>5. QED
  BY <1>1, <1>2, <1>3, <1>4 DEF LogInv

\* What Read returned is written or counted among the uncopied lines.
LEMMA ChunkAccounted ==
    ASSUME NEW chunk, Written(chunk)
    PROVE  /\ \A line \in chunk : line \in saved' \/ line \in uncopied'
           /\ saved \subseteq saved' /\ uncopied \subseteq uncopied'
           /\ saved' \subseteq saved \cup chunk
  BY DEF Written

\* A round of the copying loop that reads a whole chunk.
LEMMA CopyChunkKeeps == LogInv /\ CopyChunk => LogInv'
<1> SUFFICES ASSUME LogInv, CopyChunk PROVE LogInv'
  OBVIOUS
<1>1. /\ copied' = copied + ChunkSize /\ copied' <= printed
      /\ backup_at = "copy"
      /\ UNCHANGED <<printed, emptied, backup_at, late>>
      /\ Chunk = (copied + 1)..copied'
  BY LogSizes DEF CopyChunk, Chunk, LogInv, LogTypeOK
<1>2. /\ \A line \in Chunk : line \in saved' \/ line \in uncopied'
      /\ saved \subseteq saved' /\ uncopied \subseteq uncopied'
      /\ saved' \subseteq saved \cup Chunk
  BY ChunkAccounted DEF CopyChunk
<1>3. LogTypeOK'
  BY <1>1, <1>2, LogSizes DEF LogInv, LogTypeOK
<1>4. Kept'
  BY <1>1, <1>2 DEF LogInv, Kept, LinesKept
<1>5. CopyKept'
  BY <1>1, <1>2, LogSizes DEF LogInv, LogTypeOK, CopyKept
<1>6. EndKept'
  BY <1>1 DEF EndKept
<1>7. QED
  BY <1>3, <1>4, <1>5, <1>6 DEF LogInv

\* The last round: from here on every line of the log is accounted for.
LEMMA CopyEndKeeps == LogInv /\ CopyEnd => LogInv'
<1> SUFFICES ASSUME LogInv, CopyEnd PROVE LogInv'
  OBVIOUS
<1>1. /\ copied' = printed /\ printed' = printed + 1
      /\ backup_at = "copy" /\ backup_at' = "empty"
      /\ late' = late \cup {printed + 1}
      /\ emptied' = emptied
  BY DEF CopyEnd
<1>2. Chunk = (copied + 1)..printed
  BY LogSizes DEF CopyEnd, Chunk, LogInv, LogTypeOK
<1>3. /\ \A line \in Chunk : line \in saved' \/ line \in uncopied'
      /\ saved \subseteq saved' /\ uncopied \subseteq uncopied'
      /\ saved' \subseteq saved \cup Chunk
  BY ChunkAccounted DEF CopyEnd
<1>4. LogTypeOK'
  BY <1>1, <1>2, <1>3 DEF LogInv, LogTypeOK
<1>5. Kept'
  BY <1>1, <1>3 DEF LogInv, LogTypeOK, Kept, LinesKept
<1>6. CopyKept'
  BY <1>1 DEF CopyKept
<1>7. EndKept'
  BY <1>1, <1>2, <1>3 DEF LogInv, LogTypeOK, CopyKept, EndKept
<1>8. QED
  BY <1>4, <1>5, <1>6, <1>7 DEF LogInv

\* A copy that breaks off: what it has not read counts as not copied.
LEMMA CopyBreaksKeeps == LogInv /\ CopyBreaks => LogInv'
<1> SUFFICES ASSUME LogInv, CopyBreaks PROVE LogInv'
  OBVIOUS
<1>1. /\ printed' = printed + 1
      /\ backup_at = "copy" /\ backup_at' = "empty"
      /\ late' = late \cup {printed + 1}
      /\ emptied' = emptied
  BY DEF CopyBreaks
<1>2. PICK last \in {copied} \cup Chunk :
           /\ saved' = saved \cup ((copied + 1)..last)
           /\ uncopied' = uncopied \cup ((last + 1)..printed)
           /\ copied' = last
  BY DEF CopyBreaks
<1>3. last \in Nat /\ copied <= last /\ last <= printed
  BY LogSizes DEF Chunk, LogInv, LogTypeOK
<1>4. LogTypeOK'
  BY <1>1, <1>2, <1>3 DEF LogInv, LogTypeOK
<1>5. Kept'
  BY <1>1, <1>2 DEF LogInv, LogTypeOK, Kept, LinesKept
<1>6. CopyKept'
  BY <1>1 DEF CopyKept
<1>7. EndKept'
  BY <1>1, <1>2, <1>3 DEF LogInv, LogTypeOK, CopyKept, EndKept
<1>8. QED
  BY <1>4, <1>5, <1>6, <1>7 DEF LogInv

\* Every step of any thread keeps the invariant.
LEMMA LogStepInv == LogInv /\ [LogNext]_log_vars => LogInv'
<1> SUFFICES ASSUME LogInv, [LogNext]_log_vars PROVE LogInv'
  OBVIOUS
<1> USE DEF LogInv, LogTypeOK, Kept, LinesKept, CopyKept, EndKept
<1>1. CASE PrintLine
  BY <1>1, PrintKeeps
<1>2. CASE OnEdgeServerPerformanceRequired
  BY <1>2 DEF OnEdgeServerPerformanceRequired
<1>3. CASE NoBackup
  BY <1>3 DEF NoBackup
<1>4. CASE BeginBackup
  BY <1>4 DEF BeginBackup
<1>5. CASE OpenFails
  BY <1>5 DEF OpenFails
<1>6. CASE Open
  BY <1>6 DEF Open
<1>7. CASE CopyChunk
  BY <1>7, CopyChunkKeeps
<1>8. CASE CopyEnd
  BY <1>8, CopyEndKeeps
<1>9. CASE CopyBreaks
  BY <1>9, CopyBreaksKeeps
<1>10. CASE EmptyLog
  BY <1>10 DEF EmptyLog
<1>11. CASE UNCHANGED log_vars
  BY <1>11 DEF log_vars
<1>12. QED
  BY <1>1, <1>2, <1>3, <1>4, <1>5, <1>6, <1>7, <1>8, <1>9, <1>10, <1>11
  DEF LogNext, backupLogFile

-----------------------------------------------------------------------------

\* The inductive invariant of the log holds always.
THEOREM LogInvariance == LogSpec => []LogInv
<1>1. QED
  BY LogInitInv, LogStepInv, PTL DEF LogSpec

\* backupLogFile loses a line only if it could not be read or its copy not be
\* opened or written, or if another thread printed it between the end of the
\* copy and the emptying of the log.
THEOREM LinesAreKept == LogSpec => []LinesKept
<1>1. LogInv => LinesKept
  BY DEF LogInv, Kept
<1>2. QED
  BY <1>1, LogInvariance, PTL

-----------------------------------------------------------------------------
(* The process.                                                            *)

\* The process implements Worker: its start-up and its other threads are
\* stuttering, and messages that become due before worker->Start() are no
\* different from a thread that is late.
THEOREM ProcessRunsWorker == MainSpec => Spec
<1>1. MainInit => Init
  BY DEF MainInit
<1>2. [MainNext]_all_vars => [Next]_vars
  <2> SUFFICES ASSUME [MainNext]_all_vars PROVE [Next]_vars
    OBVIOUS
  <2>1. CASE MainStep \/ Exit \/ GetExternIP \/ Run \/ WorkRun
    BY <2>1 DEF MainStep, Exit, GetExternIP, Run, WorkRun
  <2>2. CASE TimePasses
    BY <2>2 DEF TimePasses, Next
  <2>3. CASE WorkerStep(Next)
    BY <2>3 DEF WorkerStep
  <2>4. CASE LogStep(PrintLine) \/ LogStep(OnEdgeServerPerformanceRequired \/ backupLogFile)
    BY <2>4 DEF LogStep
  <2>5. CASE UNCHANGED all_vars
    BY <2>5 DEF all_vars
  <2>6. QED
    BY <2>1, <2>2, <2>3, <2>4, <2>5 DEF MainNext
<1>3. QED
  BY <1>1, <1>2, PTL DEF MainSpec, Spec

\* The process implements LogFile: the callback runs only while the network
\* thread does, any other thread prints when it likes.
THEOREM ProcessRunsLog == MainSpec => LogSpec
<1>1. MainInit => LogInit
  BY DEF MainInit
<1>2. [MainNext]_all_vars => [LogNext]_log_vars
  <2> SUFFICES ASSUME [MainNext]_all_vars PROVE [LogNext]_log_vars
    OBVIOUS
  <2>1. CASE MainStep \/ Exit \/ GetExternIP \/ Run \/ WorkRun
    BY <2>1 DEF MainStep, Exit, GetExternIP, Run, WorkRun
  <2>2. CASE TimePasses \/ WorkerStep(Next)
    BY <2>2 DEF TimePasses, WorkerStep
  <2>3. CASE LogStep(PrintLine) \/ LogStep(OnEdgeServerPerformanceRequired \/ backupLogFile)
    BY <2>3 DEF LogStep, LogNext
  <2>4. CASE UNCHANGED all_vars
    BY <2>4 DEF all_vars
  <2>5. QED
    BY <2>1, <2>2, <2>3, <2>4 DEF MainNext
<1>3. QED
  BY <1>1, <1>2, PTL DEF MainSpec, LogSpec

\* So the process keeps what its components promise, however its threads are
\* started and interleaved.
THEOREM ProcessIsSafe ==
    MainSpec => [](OnlySocketOpen /\ ConnectComesFirst /\ NothingTorn
                   /\ CountersBeforePing /\ LinesKept)
<1>1. QED
  BY ProcessRunsWorker, ProcessRunsLog, OnlyOneSocket, ConnectIsFirst, NeverTorn,
     PingsAreInformed, LinesAreKept, PTL
=============================================================================
