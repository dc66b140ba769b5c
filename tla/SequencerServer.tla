-------------------------- MODULE SequencerServer --------------------------
(***************************************************************************)
(* Start and stop of the sequencer server                                  *)
(* (src/src/sequencer/server.cpp).  The main thread runs Start and then    *)
(* WaitForFinish; any thread may call ScheduleStop, which signals the      *)
(* stop_event_ async handle; the event-loop thread runs uv_run until no    *)
(* handle is left, then stores kStopped.  The handles are stop_event_, the *)
(* node manager, Raft, the global-cut timer and the two optional fuzzer    *)
(* timers.  The sequencer core and Raft are not modelled: their handles    *)
(* only open and close here.                                               *)
(***************************************************************************)
EXTENDS Naturals

CONSTANTS MaxStops   \* ScheduleStop calls from other threads

States == {"Created", "Running", "Stopping", "Stopped"}
Handles == {"stop", "nodes", "raft", "cut", "leaderFuzz", "viewFuzz"}

VARIABLES
    state,          \* state_
    flags,          \* fuzzer timers enabled by flags
    open,           \* handles active on the loop
    closing,        \* handles whose uv_close has not completed
    asyncPending,   \* stop_event_ signalled and not yet handled
    mainPc,         \* "init", "started", "published", "joined"
    loopPc,         \* "idle", "running", "exited"
    stops           \* ScheduleStop calls made

vars == <<state, flags, open, closing, asyncPending, mainPc, loopPc, stops>>

TypeOK ==
    /\ state \in States
    /\ flags \subseteq {"leaderFuzz", "viewFuzz"}
    /\ open \subseteq Handles /\ closing \subseteq Handles \ open
    /\ asyncPending \in BOOLEAN
    /\ mainPc \in {"init", "started", "published", "joined"}
    /\ loopPc \in {"idle", "running", "exited"}
    /\ stops \in 0..MaxStops

\* The constructor initialises the loop and stop_event_; the fuzzer flags
\* are whatever the command line set.
Init ==
    /\ state = "Created"
    /\ flags \in SUBSET {"leaderFuzz", "viewFuzz"}
    /\ open = {"stop"} /\ closing = {}
    /\ asyncPending = FALSE
    /\ mainPc = "init" /\ loopPc = "idle" /\ stops = 0

\* Start up to event_loop_thread_.Start(): node manager, Raft, the cut
\* timer and the enabled fuzzer timers are put on the loop, and the loop
\* thread starts.
Start ==
    /\ mainPc = "init"
    /\ open' = open \cup {"nodes", "raft", "cut"} \cup flags
    /\ mainPc' = "started" /\ loopPc' = "running"
    /\ UNCHANGED <<state, flags, closing, asyncPending, stops>>

\* The last line of Start, after the loop thread is already running.
StartStoreRunning ==
    /\ mainPc = "started"
    /\ state' = "Running" /\ mainPc' = "published"
    /\ UNCHANGED <<flags, open, closing, asyncPending, loopPc, stops>>

\* ScheduleStop: uv_async_send on stop_event_ (coalesced while pending),
\* from any thread and at any time; once stop_event_ is closed the send
\* has no callback to wake.
ScheduleStop ==
    /\ stops < MaxStops
    /\ asyncPending' = TRUE /\ stops' = stops + 1
    /\ UNCHANGED <<state, flags, open, closing, mainPc, loopPc>>

\* Mutant: the stop callback leaves the global-cut timer running.
StopClosedKeepsCut(hs) == hs \ {"cut"}

\* The handles the stop callback closes: ScheduleStop of the node manager,
\* ScheduleClose of Raft, the timers, and stop_event_ itself.
StopClosed(hs) == hs

\* Mutant: the handles are closed but still counted as active.
StopCallbackKeepsOpen ==
    /\ loopPc = "running" /\ asyncPending /\ "stop" \in open
    /\ asyncPending' = FALSE
    /\ IF state = "Stopping"
          THEN UNCHANGED <<state, open, closing>>
          ELSE /\ closing' = closing \cup StopClosed(open)
               /\ state' = "Stopping" /\ UNCHANGED open
    /\ UNCHANGED <<flags, mainPc, loopPc, stops>>

\* StopCallback on the loop thread.
StopCallback ==
    /\ loopPc = "running" /\ asyncPending /\ "stop" \in open
    /\ asyncPending' = FALSE
    /\ IF state = "Stopping"
          THEN UNCHANGED <<state, open, closing>>
          ELSE /\ open' = open \ StopClosed(open)
               /\ closing' = closing \cup StopClosed(open)
               /\ state' = "Stopping"
    /\ UNCHANGED <<flags, mainPc, loopPc, stops>>

\* A close completes.
HandleClosed(h) ==
    /\ loopPc = "running" /\ h \in closing
    /\ closing' = closing \ {h}
    /\ UNCHANGED <<state, flags, open, asyncPending, mainPc, loopPc, stops>>

\* uv_run returns when no handle is active or closing; the thread then
\* stores kStopped.
EventLoopExit ==
    /\ loopPc = "running" /\ open = {} /\ closing = {}
    /\ loopPc' = "exited" /\ state' = "Stopped"
    /\ UNCHANGED <<flags, open, closing, asyncPending, mainPc, stops>>

\* WaitForFinish joins the loop thread.
WaitForFinish ==
    /\ mainPc = "published" /\ loopPc = "exited"
    /\ mainPc' = "joined"
    /\ UNCHANGED <<state, flags, open, closing, asyncPending, loopPc, stops>>

Next ==
    \/ Start \/ StartStoreRunning \/ ScheduleStop \/ StopCallback
    \/ \E h \in Handles : HandleClosed(h)
    \/ EventLoopExit \/ WaitForFinish

\* libuv runs pending callbacks and completes closes; the main thread runs
\* Start to its end.  Nobody owes a ScheduleStop.
Fairness ==
    /\ WF_vars(Start) /\ WF_vars(StartStoreRunning)
    /\ WF_vars(StopCallback) /\ WF_vars(EventLoopExit) /\ WF_vars(WaitForFinish)
    /\ \A h \in Handles : WF_vars(HandleClosed(h))

Spec == Init /\ [][Next]_vars /\ Fairness

-----------------------------------------------------------------------------
\* A ScheduleStop lets the server's threads finish: the stop callback must
\* close every handle it put on the loop, including the timers enabled by
\* the fuzzer flags, or uv_run never returns and WaitForFinish blocks.
StopFinishes ==
    stops > 0 ~> mainPc = "joined"

\* WaitForFinish's DCHECK (server.cpp:146): once the loop thread has been
\* joined, the server is kStopped.
JoinSeesStopped ==
    mainPc = "joined" => state = "Stopped"

====
