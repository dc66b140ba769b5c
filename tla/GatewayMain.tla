----------------------------- MODULE GatewayMain -----------------------------
(***************************************************************************)
(* The gateway process's main thread and its SIGINT handler               *)
(* (src/src/bin/gateway.cpp).  GatewayMain installs the handler, builds    *)
(* and starts the server, publishes it in server_ptr and joins it.  The    *)
(* handler takes the pointer with exchange(nullptr) and, if it got one,    *)
(* calls ScheduleStop.  The server itself (ServerBase, not under src/) is  *)
(* reduced to its states, from spec.md 4.1: ScheduleStop moves it from     *)
(* running to stopping, and it then stops.                                 *)
(***************************************************************************)
EXTENDS Naturals

CONSTANTS MaxSignals   \* SIGINTs delivered to the process

VARIABLES
    mainPc,     \* "init", "handler", "started", "published", "joined"
    serverPtr,  \* server_ptr != nullptr
    srv,        \* "none", "running", "stopping", "stopped"
    signals,    \* SIGINTs delivered
    killed      \* the process ended by SIGINT's default action

vars == <<mainPc, serverPtr, srv, signals, killed>>

Init ==
    /\ mainPc = "init" /\ serverPtr = FALSE /\ srv = "none"
    /\ signals = 0 /\ killed = FALSE

Alive == ~killed /\ mainPc # "joined"

\* signal(SIGINT, SignalHandlerToStopServer).
InstallHandler ==
    /\ Alive /\ mainPc = "init"
    /\ mainPc' = "handler"
    /\ UNCHANGED <<serverPtr, srv, signals, killed>>

\* InitMain, the flags, make_unique<Server>, the setters and Start.
StartServer ==
    /\ Alive /\ mainPc = "handler"
    /\ mainPc' = "started" /\ srv' = "running"
    /\ UNCHANGED <<serverPtr, signals, killed>>

\* server_ptr.store(server.get()).
Publish ==
    /\ Alive /\ mainPc = "started"
    /\ mainPc' = "published" /\ serverPtr' = TRUE
    /\ UNCHANGED <<srv, signals, killed>>

\* WaitForFinish returns once the server has stopped; main returns 0.
WaitForFinish ==
    /\ Alive /\ mainPc = "published" /\ srv = "stopped"
    /\ mainPc' = "joined"
    /\ UNCHANGED <<serverPtr, srv, signals, killed>>

\* SignalHandlerToStopServer: exchange(nullptr), then ScheduleStop on the
\* server it got (ServerBase::ScheduleStop is idempotent: spec.md 4.1).
SignalHandlerToStopServer ==
    /\ serverPtr' = FALSE
    /\ srv' = IF serverPtr /\ srv = "running" THEN "stopping" ELSE srv

\* A SIGINT is delivered: before the handler is installed its default action
\* ends the process; afterwards the handler runs.
Sigint ==
    /\ Alive /\ signals < MaxSignals
    /\ signals' = signals + 1
    /\ IF mainPc = "init"
          THEN killed' = TRUE /\ UNCHANGED <<serverPtr, srv>>
          ELSE SignalHandlerToStopServer /\ UNCHANGED killed
    /\ UNCHANGED mainPc

\* The server's IO workers and listening thread finish (ServerBase).
ServerStopped ==
    /\ srv = "stopping"
    /\ srv' = "stopped"
    /\ UNCHANGED <<mainPc, serverPtr, signals, killed>>

Next ==
    \/ InstallHandler \/ StartServer \/ Publish \/ WaitForFinish
    \/ Sigint \/ ServerStopped

\* The main thread runs on and the server stops once asked.  No SIGINT is
\* owed.
Fairness ==
    /\ WF_vars(InstallHandler) /\ WF_vars(StartServer) /\ WF_vars(Publish)
    /\ WF_vars(WaitForFinish) /\ WF_vars(ServerStopped)

Spec == Init /\ [][Next]_vars /\ Fairness

-----------------------------------------------------------------------------
\* Every SIGINT ends the process (spec.md 6: SIGINT triggers schedule_stop
\* and a clean exit), including one delivered while the server is being
\* built and started, when the handler finds server_ptr still null.
SigintEndsProcess ==
    signals > 0 ~> (killed \/ mainPc = "joined")

====
