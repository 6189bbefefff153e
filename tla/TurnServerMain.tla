-------------------------- MODULE TurnServerMain ---------------------------
(***************************************************************************)
(* The process: main of turnserver_main.cc and the threads it starts.  The *)
(* main thread sets up the sockets, the TURN server, ElbsConnection and    *)
(* Worker, starts the worker thread, then UniLbsWorker with its network    *)
(* thread and the thread that prints every two seconds, and runs.          *)
(*                                                                         *)
(* The worker thread runs Worker, the network thread calls the backup of   *)
(* LogFile.  The threads share the log and nothing else that is modelled;  *)
(* an instance may follow one of the two at a time to stay small.          *)
(***************************************************************************)
EXTENDS Worker, LogFile

CONSTANT Explored    \* bound: sets of components followed together

VARIABLES
    main_at,    \* the step main is at
    network,    \* the network thread
    followed    \* bound: the components that are followed, chosen at the start

process == <<main_at, network, followed>>
all_vars == <<vars, log_vars, process>>

\* The steps of main that may end the process, each with the one after it:
\* the arguments, the addresses, the sockets.
MayExit ==
    {<<"arguments", "int_addr">>, <<"int_addr", "int_tcp_addr">>,
     <<"int_tcp_addr", "ext_addr">>, <<"int_socket", "tcp_server">>,
     <<"tcp_server", "bind">>, <<"bind", "listen">>, <<"listen", "pid">>}

\* The steps that always go on (short of memory that runs out): the pid, the
\* TURN server, elbs.start(), AddWorkerManagerSocket, worker->Start(), the
\* event loop, AddToUniLbs, the thread that prints.
GoesOn ==
    {<<"pid", "server">>, <<"server", "elbs">>, <<"elbs", "testWorker">>,
     <<"testWorker", "Start">>, <<"Start", "network_loop">>,
     <<"network_loop", "AddToUniLbs">>, <<"AddToUniLbs", "network_thread_">>,
     <<"test_thread_", "Run">>}

\* AddWorkerManagerSocket has been called, and worker->Start().
Posted == main_at \in {"Start", "network_loop", "AddToUniLbs", "network_thread_",
                       "test_thread_", "Run"}
Started == Posted /\ main_at # "Start"

\* No step looks at Worker's fields before AddWorkerManagerSocket assigns
\* them: they have the values it assigns from the start.
MainInit ==
    /\ Init
    /\ LogInit
    /\ main_at = "arguments"
    /\ network = "none"
    /\ followed \in Explored
    /\ "LogFile" \notin followed => printed = 0
    /\ "Worker" \notin followed => socket_ = NoSock

\* The next step of the main thread.
MainStep ==
    /\ \E step \in MayExit \cup GoesOn :
          main_at = step[1] /\ main_at' = step[2]
    /\ UNCHANGED <<vars, log_vars, network, followed>>

\* Wrong arguments, an address that cannot be parsed, a socket that cannot be
\* created, bound or listened at: main returns 1.
Exit ==
    /\ \E step \in MayExit : main_at = step[1]
    /\ main_at' = "exited"
    /\ UNCHANGED <<vars, log_vars, network, followed>>

\* GetExternIP: the address in the line with "IP" of what a web service
\* answers, if there is one.  The argument ext-ip is not looked at.
GetExternIP ==
    /\ main_at = "ext_addr"
    /\ main_at' \in {"int_socket", "exited"}
    /\ UNCHANGED <<vars, log_vars, network, followed>>

\* UniLbsWorker::Run starts the network thread.
Run ==
    /\ main_at = "network_thread_"
    /\ main_at' = "test_thread_"
    /\ network' = "started"
    /\ UNCHANGED <<vars, log_vars, followed>>

\* EventLoop::Run on the network thread, which is over if Initialize fails.
WorkRun ==
    /\ network = "started"
    /\ network' \in {"running", "over"}
    /\ UNCHANGED <<vars, log_vars, main_at, followed>>

\* The worker thread, once it is started; the time its messages wait for
\* begins before that.
WorkerStep(A) ==
    /\ Started /\ "Worker" \in followed
    /\ A
    /\ UNCHANGED <<log_vars, process>>

TimePasses ==
    /\ main_at = "Start" /\ "Worker" \in followed
    /\ Tick
    /\ UNCHANGED <<log_vars, process>>

LogStep(A) ==
    /\ "LogFile" \in followed
    /\ A
    /\ UNCHANGED <<vars, process>>

MainNext ==
    \/ MainStep \/ Exit \/ GetExternIP \/ Run
    \/ WorkRun
    \/ TimePasses \/ WorkerStep(Next)
    \/ main_at # "exited" /\ LogStep(PrintLine)
    \/ network = "running" /\ LogStep(OnEdgeServerPerformanceRequired \/ backupLogFile)

MainSpec == MainInit /\ [][MainNext]_all_vars

\* Once the worker thread runs, time passes, the thread dispatches what is due,
\* a connect is answered and a broken connection noticed.
MainFairSpec ==
    /\ MainSpec
    /\ WF_all_vars(WorkerStep(Tick))
    /\ WF_all_vars(WorkerStep(OnWorkerTimer))
    /\ WF_all_vars(WorkerStep(OnBandwidthTimer))
    /\ \A s \in Socks : WF_all_vars(WorkerStep(SocketEvents(s)))
=============================================================================
