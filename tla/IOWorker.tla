------------------------------ MODULE IOWorker ------------------------------
(***************************************************************************)
(* One IO worker of a node (src/src/engine/io_worker.cpp) together with    *)
(* the listening thread that hands it connections and the foreign threads  *)
(* that schedule closures on it.                                           *)
(*                                                                         *)
(* The worker's event loop reacts to four kinds of completion: the eventfd *)
(* read (run scheduled functions), the read end of the pipe from the       *)
(* listening thread (a connection pointer arrives), the write of a closed  *)
(* connection's pointer back to that pipe, and the end of a connection's   *)
(* own I/O (OnConnectionClose).  Completions of different file descriptors *)
(* arrive in any order, which is what the model explores.                  *)
(*                                                                         *)
(* The listening thread (ServerBase) is not under src/: its three steps    *)
(* (hand off a connection, schedule the stop, destroy a returned           *)
(* connection) are modelled from spec.md section 4.1.                      *)
(***************************************************************************)
EXTENDS Naturals, Sequences, FiniteSets, SequencesExt

CONSTANTS
    Conns,      \* connection objects the listening thread may accept
    Fns,        \* closures foreign threads may pass to ScheduleFunction
    NoOwner,    \* owner == nullptr in ScheduleFunction
    Typed,      \* connections of the one type PickConnection is asked for
    MaxPicks    \* PickConnection calls (connections_for_pick_rr_ bound)

ASSUME NoOwner \notin Conns /\ Typed \subseteq Conns

\* The closure ScheduleStop enqueues: [this] { StopInternal(); }
StopFn == "StopInternal"

Owners == Conns \cup {NoOwner}

States == {"Created", "Running", "Stopping", "Stopped"}

VARIABLES
    \* IOWorker members (io_worker.h)
    state,          \* state_
    eventfdOpen,    \* the eventfd's read is armed (no Close submitted)
    eventfdValid,   \* eventfd_ >= 0: its Close has not completed
    pipeOpen,       \* pipe_to_server_fd_ >= 0 and its read is armed
    connections,    \* connections_ (the keys)
    onClosing,      \* connections_on_closing_
    writing,        \* pointers whose write back to the server is in flight
    closeReq,       \* connections asked to ScheduleClose() by the worker
    scheduled,      \* scheduled_functions_
    batch,          \* the functions RunScheduledFunctions moved out, not yet run
    pickCached,     \* connections_for_pick_ has an entry for the type
    forPick,        \* that entry
    rr,             \* connections_for_pick_rr_ of the type
    picked,         \* what the last PickConnection returned
    \* listening thread and callers of ScheduleFunction
    accepting,      \* the listening thread still accepts sockets
    accepted,       \* connections it has created and handed off
    toWorker,       \* pointers written into the pipe, not yet read
    returned,       \* pointers written back, not yet read by the server
    destroyed,      \* connections the listening thread has destroyed
    stopRequested,  \* ScheduleStop() has been called
    fnState,        \* where each closure is in ScheduleFunction's life
    fnOwner         \* the owner passed with each closure

pickVars == <<pickCached, forPick, rr, picked>>
workerVars == <<state, eventfdOpen, eventfdValid, pipeOpen, connections,
                onClosing, writing, closeReq, scheduled, batch, pickVars>>
serverVars == <<accepting, accepted, toWorker, returned, destroyed,
                stopRequested>>
fnVars == <<fnState, fnOwner>>
vars == <<workerVars, serverVars, fnVars>>

\* "skipped": taken from the queue with its owner open, yet not run.
FnStates == {"new", "checked", "queued", "ran", "dropped", "ownerClosed",
             "skipped"}

Entry == [fn: Fns \cup {StopFn}, owner: Owners]

TypeOK ==
    /\ state \in States
    /\ eventfdOpen \in BOOLEAN /\ eventfdValid \in BOOLEAN
    /\ pipeOpen \in BOOLEAN
    /\ connections \subseteq Conns
    /\ onClosing \in Nat
    /\ writing \subseteq Conns
    /\ closeReq \subseteq Conns
    /\ scheduled \in Seq(Entry) /\ batch \in Seq(Entry)
    /\ pickCached \in BOOLEAN /\ forPick \in Seq(Typed)
    /\ rr \in 0..MaxPicks /\ picked \in Typed \cup {NoOwner}
    /\ accepting \in BOOLEAN
    /\ accepted \subseteq Conns
    /\ toWorker \in Seq(Conns)
    /\ returned \subseteq Conns
    /\ destroyed \subseteq Conns
    /\ stopRequested \in BOOLEAN
    /\ fnState \in [Fns -> FnStates]
    /\ fnOwner \in [Fns -> Owners]

Init ==
    /\ state = "Created"
    /\ eventfdOpen = FALSE /\ eventfdValid = FALSE
    /\ pipeOpen = FALSE
    /\ connections = {}
    /\ onClosing = 0
    /\ writing = {}
    /\ closeReq = {}
    /\ scheduled = <<>> /\ batch = <<>>
    /\ pickCached = FALSE /\ forPick = <<>> /\ rr = 0 /\ picked = NoOwner
    /\ accepting = TRUE
    /\ accepted = {}
    /\ toWorker = <<>>
    /\ returned = {}
    /\ destroyed = {}
    /\ stopRequested = FALSE
    /\ fnState = [f \in Fns |-> "new"]
    /\ fnOwner = [f \in Fns |-> NoOwner]

-----------------------------------------------------------------------------
(***************************************************************************)
(* IOWorker::Start: arm the eventfd and pipe reads, start the loop thread, *)
(* then publish kRunning.                                                  *)
(***************************************************************************)
Start ==
    /\ state = "Created"
    /\ state' = "Running"
    /\ eventfdOpen' = TRUE /\ eventfdValid' = TRUE
    /\ pipeOpen' = TRUE
    /\ UNCHANGED <<connections, onClosing, writing, closeReq, scheduled, batch,
                   pickVars>>
    /\ UNCHANGED <<serverVars, fnVars>>

(***************************************************************************)
(* ScheduleFunction called from a thread other than the worker's.  The     *)
(* state_ test and the push onto scheduled_functions_ are separate steps:  *)
(* the worker may run StopInternal in between.                             *)
(***************************************************************************)
ScheduleCheck(f, o) ==
    /\ fnState[f] = "new"
    /\ fnState' = [fnState EXCEPT ![f] =
                     IF state # "Running" THEN "dropped" ELSE "checked"]
    /\ fnOwner' = [fnOwner EXCEPT ![f] = o]
    /\ UNCHANGED <<workerVars, serverVars>>

ScheduleEnqueue(f) ==
    /\ fnState[f] = "checked"
    /\ scheduled' = Append(scheduled, [fn |-> f, owner |-> fnOwner[f]])
    /\ fnState' = [fnState EXCEPT ![f] = "queued"]
    /\ UNCHANGED <<batch, state, eventfdOpen, eventfdValid, pipeOpen, connections,
                   onClosing, writing, closeReq, pickVars, serverVars, fnOwner>>

(***************************************************************************)
(* ScheduleFunction called on the worker's own thread runs fn() inline.    *)
(***************************************************************************)
ScheduleInline(f) ==
    /\ fnState[f] = "new"
    /\ fnState' = [fnState EXCEPT ![f] =
                     IF state # "Running" THEN "dropped" ELSE "ran"]
    /\ UNCHANGED <<workerVars, serverVars, fnOwner>>

(***************************************************************************)
(* RunScheduledFunctions, on an eventfd completion: return at once unless  *)
(* state_ is kRunning, else move scheduled_functions_ out under the mutex. *)
(* The mutex is released before any closure runs.                          *)
(***************************************************************************)
RunScheduledFunctions ==
    /\ eventfdOpen /\ batch = <<>>
    /\ state = "Running"
    /\ scheduled # <<>>
    /\ batch' = scheduled /\ scheduled' = <<>>
    /\ UNCHANGED <<state, eventfdOpen, eventfdValid, pipeOpen, connections,
                   onClosing, writing, closeReq, pickVars, serverVars, fnVars>>

(***************************************************************************)
(* One turn of its loop over the batch: run the closure if it has no owner *)
(* or its owner is still in connections_, else skip it.  The loop does not *)
(* look at state_, so closures behind the stop closure still run.  Foreign *)
(* threads may push onto the emptied queue between two turns.              *)
(***************************************************************************)
\* The loop thread handles one completion at a time: no other callback runs
\* while a batch of closures is being run.
LoopIdle == batch = <<>>

OwnerLive(o) == o = NoOwner \/ o \in connections

\* Faulty variant: the loop stops running closures once the stop closure
\* has run.
RunsUntilStop(e) == OwnerLive(e.owner) /\ state = "Running"

Runs(e) == OwnerLive(e.owner)

Outcome(e) ==
    IF Runs(e) THEN "ran"
    ELSE IF OwnerLive(e.owner) THEN "skipped" ELSE "ownerClosed"

(***************************************************************************)
(* StopInternal: close the eventfd; close the pipe if nothing is left to   *)
(* return, otherwise ask every connection to close; enter kStopping.       *)
(***************************************************************************)
\* Faulty variants: close the pipe even with connections left; forget to
\* ask the remaining connections to close.
StopInternalAlwaysClose ==
    /\ state' = "Stopping"
    /\ eventfdOpen' = FALSE
    /\ pipeOpen' = FALSE
    /\ closeReq' = closeReq

StopInternalNoClose ==
    /\ state' = "Stopping"
    /\ eventfdOpen' = FALSE
    /\ pipeOpen' = IF connections = {} /\ onClosing = 0 THEN FALSE ELSE pipeOpen
    /\ closeReq' = closeReq

StopInternal ==
    /\ state' = "Stopping"
    /\ eventfdOpen' = FALSE
    /\ IF connections = {} /\ onClosing = 0
          THEN pipeOpen' = FALSE /\ closeReq' = closeReq
          ELSE pipeOpen' = pipeOpen /\ closeReq' = closeReq \cup connections

\* The stop closure runs StopInternal, which returns early in kStopping.
RunClosure ==
    /\ batch # <<>>
    /\ LET e == Head(batch)
       IN IF e.fn = StopFn
             THEN /\ IF state = "Stopping"
                        THEN UNCHANGED <<state, eventfdOpen, pipeOpen, closeReq>>
                        ELSE StopInternal
                  /\ UNCHANGED fnState
             ELSE /\ fnState' = [fnState EXCEPT ![e.fn] = Outcome(e)]
                  /\ UNCHANGED <<state, eventfdOpen, pipeOpen, closeReq>>
    /\ batch' = Tail(batch)
    /\ UNCHANGED <<eventfdValid, connections, onClosing, writing, scheduled,
                   pickVars, serverVars, fnOwner>>

(***************************************************************************)
(* A pointer arrives on the pipe: OnNewConnection starts the connection,   *)
(* registers it (a typed one also in connections_by_type_, and at the end  *)
(* of the pick list if that exists), and closes it at once when the worker *)
(* is stopping.                                                            *)
(***************************************************************************)
\* Faulty variant: the pick list is not extended.
PickOnNewNoPush(c) == UNCHANGED <<pickCached, forPick>>

PickOnNew(c) ==
    /\ forPick' = IF c \in Typed /\ pickCached THEN Append(forPick, c)
                                              ELSE forPick
    /\ UNCHANGED pickCached

Adopt(c) ==
    /\ connections' = connections \cup {c}
    /\ PickOnNew(c)
    /\ closeReq' = IF state = "Stopping" THEN closeReq \cup {c} ELSE closeReq
    /\ UNCHANGED <<rr, picked>>

OnNewConnection ==
    /\ LoopIdle /\ pipeOpen
    /\ toWorker # <<>>
    /\ toWorker' = Tail(toWorker)
    /\ Adopt(Head(toWorker))
    /\ UNCHANGED <<state, eventfdOpen, eventfdValid, pipeOpen, onClosing,
                   writing, scheduled, batch, accepting, accepted, returned,
                   destroyed, stopRequested, fnVars>>

(***************************************************************************)
(* OnConnectionClose: the connection has finished closing (peer hang-up,   *)
(* error, or a requested ScheduleClose); erase it (a typed one also from   *)
(* connections_by_type_, dropping the type's pick list) and start writing  *)
(* its pointer back to the listening thread.                               *)
(***************************************************************************)
\* Faulty variant: the pick list survives the close.
PickOnCloseKept(c) == UNCHANGED <<pickCached, forPick>>

PickOnClose(c) ==
    IF c \in Typed THEN pickCached' = FALSE /\ forPick' = <<>>
                   ELSE UNCHANGED <<pickCached, forPick>>

\* Faulty variants: connections_ not erased; counter not incremented;
\* counter decremented instead of incremented.
OnConnectionCloseKeep(c) ==
    /\ LoopIdle /\ c \in connections
    /\ connections' = connections
    /\ writing' = writing \cup {c}
    /\ onClosing' = onClosing + 1
    /\ PickOnClose(c)
    /\ UNCHANGED <<state, eventfdOpen, eventfdValid, pipeOpen, closeReq,
                   scheduled, batch, rr, picked, serverVars, fnVars>>

OnConnectionCloseNoCount(c) ==
    /\ LoopIdle /\ c \in connections
    /\ connections' = connections \ {c}
    /\ writing' = writing \cup {c}
    /\ onClosing' = onClosing
    /\ PickOnClose(c)
    /\ UNCHANGED <<state, eventfdOpen, eventfdValid, pipeOpen, closeReq,
                   scheduled, batch, rr, picked, serverVars, fnVars>>

OnConnectionCloseDec(c) ==
    /\ LoopIdle /\ c \in connections
    /\ connections' = connections \ {c}
    /\ writing' = writing \cup {c}
    /\ onClosing' = onClosing - 1
    /\ PickOnClose(c)
    /\ UNCHANGED <<state, eventfdOpen, eventfdValid, pipeOpen, closeReq,
                   scheduled, batch, rr, picked, serverVars, fnVars>>

OnConnectionClose(c) ==
    /\ LoopIdle /\ c \in connections
    /\ connections' = connections \ {c}
    /\ writing' = writing \cup {c}
    /\ onClosing' = onClosing + 1
    /\ PickOnClose(c)
    /\ UNCHANGED <<state, eventfdOpen, eventfdValid, pipeOpen, closeReq,
                   scheduled, batch, rr, picked, serverVars, fnVars>>

(***************************************************************************)
(* PickConnection, called by a handler on the loop thread: nullptr if no   *)
(* connection of the type is open; otherwise build the pick list from      *)
(* connections_by_type_ (in the hash set's order) if there is none, and    *)
(* return its entry at rr % n, advancing rr.                               *)
(***************************************************************************)
ByType == connections \cap Typed

PickConnection ==
    /\ LoopIdle
    /\ state \in {"Running", "Stopping"}
    /\ rr < MaxPicks
    /\ IF ByType = {}
          THEN picked' = NoOwner /\ UNCHANGED <<pickCached, forPick, rr>>
          ELSE \E built \in SetToSeqs(ByType) :
                 LET list == IF pickCached THEN forPick ELSE built
                 IN /\ pickCached' = TRUE /\ forPick' = list
                    /\ picked' = list[(rr % Cardinality(ByType)) + 1]
                    /\ rr' = rr + 1
    /\ UNCHANGED <<state, eventfdOpen, eventfdValid, pipeOpen, connections,
                   onClosing, writing, closeReq, scheduled, batch, serverVars, fnVars>>

(***************************************************************************)
(* Completion of that write: decrement the counter and, once stopping with *)
(* nothing left to return, close the pipe.                                 *)
(***************************************************************************)
PipeDrained(conns, closing) ==
    state = "Stopping" /\ conns = {} /\ closing = 0

WriteComplete(c) ==
    /\ LoopIdle /\ c \in writing
    /\ writing' = writing \ {c}
    /\ onClosing' = onClosing - 1
    /\ returned' = returned \cup {c}
    /\ pipeOpen' = IF PipeDrained(connections, onClosing') THEN FALSE
                                                            ELSE pipeOpen
    /\ UNCHANGED <<state, eventfdOpen, eventfdValid, connections, closeReq,
                   scheduled, batch, pickVars, accepting, accepted, toWorker, destroyed, stopRequested,
                   fnVars>>

(***************************************************************************)
(* The Close of the eventfd that StopInternal submitted completes, and its *)
(* callback sets eventfd_ to -1.                                           *)
(***************************************************************************)
EventfdClosed ==
    /\ LoopIdle /\ state # "Created" /\ ~eventfdOpen /\ eventfdValid
    /\ eventfdValid' = FALSE
    /\ UNCHANGED <<state, eventfdOpen, pipeOpen, connections, onClosing,
                   writing, closeReq, scheduled, batch, pickVars, serverVars, fnVars>>

(***************************************************************************)
(* EventLoopThreadMain leaves its loop once no operation is in flight: the *)
(* eventfd and pipe reads are gone, and so are all connections and writes.*)
(***************************************************************************)
ExitLoop ==
    /\ LoopIdle /\ state = "Stopping"
    /\ ~eventfdValid /\ ~pipeOpen
    /\ connections = {} /\ writing = {}
    /\ state' = "Stopped"
    /\ UNCHANGED <<eventfdOpen, eventfdValid, pipeOpen, connections,
                   onClosing, writing, closeReq, scheduled, batch, pickVars,
                   serverVars, fnVars>>

-----------------------------------------------------------------------------
(***************************************************************************)
(* Listening thread (spec.md 4.1, not under src/).                         *)
(***************************************************************************)
ServerAccept(c) ==
    /\ accepting
    /\ state # "Created"
    /\ c \notin accepted
    /\ accepted' = accepted \cup {c}
    /\ toWorker' = Append(toWorker, c)
    /\ UNCHANGED <<workerVars, accepting, returned, destroyed, stopRequested,
                   fnVars>>

\* Stop accepting, then IOWorker::ScheduleStop == ScheduleFunction(nullptr,
\* StopInternal).  Only StopInternal leaves kRunning, so the state_ test
\* and the push cannot be separated by a state change here.
ServerStop ==
    /\ accepting
    /\ state = "Running"
    /\ accepting' = FALSE
    /\ stopRequested' = TRUE
    /\ scheduled' = Append(scheduled, [fn |-> StopFn, owner |-> NoOwner])
    /\ UNCHANGED <<batch, state, eventfdOpen, eventfdValid, pipeOpen, connections,
                   onClosing, writing, closeReq, pickVars, accepted, toWorker, returned, destroyed,
                   fnVars>>

ServerDestroy(c) ==
    /\ c \in returned
    /\ returned' = returned \ {c}
    /\ destroyed' = destroyed \cup {c}
    /\ UNCHANGED <<workerVars, accepting, accepted, toWorker, stopRequested,
                   fnVars>>

\* The process has finished: the worker stopped, every returned pointer
\* was read, and no caller is still inside ScheduleFunction.
Terminated ==
    /\ state = "Stopped"
    /\ returned = {}
    /\ \A f \in Fns : fnState[f] \notin {"new", "checked"}
    /\ UNCHANGED vars

Next ==
    \/ Start
    \/ \E f \in Fns, o \in Owners : ScheduleCheck(f, o)
    \/ \E f \in Fns : ScheduleEnqueue(f)
    \/ \E f \in Fns : ScheduleInline(f)
    \/ RunScheduledFunctions
    \/ RunClosure
    \/ OnNewConnection
    \/ \E c \in Conns : OnConnectionClose(c)
    \/ \E c \in Conns : WriteComplete(c)
    \/ PickConnection
    \/ EventfdClosed
    \/ ExitLoop
    \/ \E c \in Conns : ServerAccept(c)
    \/ ServerStop
    \/ \E c \in Conns : ServerDestroy(c)
    \/ Terminated

(***************************************************************************)
(* The worker's loop handles every completion that is ready, a foreign     *)
(* thread that passed the state_ test goes on to push its closure, the     *)
(* listening thread keeps reading its pipe, and a connection asked to      *)
(* close does close.  Peer hang-ups, accepts and the stop are not forced.  *)
(***************************************************************************)
Fairness ==
    /\ WF_vars(Start)
    /\ WF_vars(RunScheduledFunctions)
    /\ WF_vars(RunClosure)
    /\ WF_vars(OnNewConnection)
    /\ WF_vars(ExitLoop)
    /\ WF_vars(EventfdClosed)
    /\ \A c \in Conns : WF_vars(WriteComplete(c))
    /\ \A c \in Conns : WF_vars(c \in closeReq /\ OnConnectionClose(c))
    /\ \A c \in Conns : WF_vars(ServerDestroy(c))
    /\ \A f \in Fns : WF_vars(ScheduleEnqueue(f))

Spec == Init /\ [][Next]_vars /\ Fairness

-----------------------------------------------------------------------------
(***************************************************************************)
(* Properties                                                              *)
(***************************************************************************)

\* Every connection object has exactly one holder at a time: not yet
\* created, in the pipe to the worker, live on the worker, being written
\* back, in the pipe to the server, or destroyed (spec 9: never two threads
\* observing the same handle as live).  Broken if OnConnectionClose kept the
\* connection in connections_ or a pointer were delivered twice.
SingleOwner ==
    LET places == <<Conns \ accepted, ToSet(toWorker), connections,
                    writing, returned, destroyed>>
    IN /\ IsInjective(toWorker)
       /\ \A i, j \in DOMAIN places :
             i # j => places[i] \cap places[j] = {}
       /\ UNION {places[i] : i \in DOMAIN places} = Conns

\* connections_on_closing_ counts exactly the pointer writes in flight, so
\* the test in the write callback (counter back to zero) means that every
\* closed connection has reached the listening thread.
ClosingCountExact == onClosing = Cardinality(writing)

\* The pipe to the listening thread is closed only when no connection is
\* live on the worker and no pointer write is in flight: closing it earlier
\* would lose a connection or fail the write (StopInternal, OnConnectionClose
\* write callback).
PipeClosedOnlyWhenDrained ==
    ~pipeOpen /\ state # "Created" => connections = {} /\ writing = {}

\* Once stop has been requested the worker reaches kStopped: every live
\* connection is closed and returned, both fds are closed, and the loop
\* exits (WaitForFinish returns).
StopCompletes == stopRequested ~> state = "Stopped"

\* A closure pushed before the batch holding the stop closure was taken
\* (so it is in the same batch as the stop closure, ahead of or behind it,
\* or in an earlier one) is eventually run, or skipped because its owner
\* closed: RunScheduledFunctions keeps running the batch after
\* StopInternal has moved state_ to kStopping.
StopTaken ==
    state # "Running" \/ \E i \in DOMAIN batch : batch[i].fn = StopFn

QueuedBeforeStopIsHandled ==
    \A f \in Fns :
        (f \in {scheduled[i].fn : i \in DOMAIN scheduled} /\ ~StopTaken)
            ~> fnState[f] \in {"ran", "ownerClosed"}

\* ScheduleFunction's DCHECK(eventfd_ >= 0) before eventfd_write: a
\* closure is pushed only while the eventfd is still open.  The state_
\* test was made before the mutex, so StopInternal and the completion of
\* the eventfd's Close can both run between the test and the push.
EnqueueSeesEventfd ==
    [][\A f \in Fns : fnState[f] = "checked" /\ fnState'[f] = "queued"
                        => eventfdValid]_vars

\* connections_for_pick_ agrees with connections_by_type_ whenever it
\* exists (the DCHECK_EQ on its size in PickConnection): OnNewConnection
\* extends it and OnConnectionClose drops it.
PickCacheExact ==
    pickCached => Len(forPick) = Cardinality(ByType) /\ ToSet(forPick) = ByType

\* Spec 8 "No-leak shutdown": when the worker has stopped, every connection
\* the listening thread handed to it has come back (is in the pipe to the
\* server or already destroyed).
NoLeakShutdown ==
    state = "Stopped" => accepted \subseteq returned \cup destroyed

=============================================================================
