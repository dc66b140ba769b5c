------------------------------ MODULE Storage ------------------------------
(***************************************************************************)
(* The shared-log storage node (src/src/log/storage.cpp) with the per-view *)
(* LogStorage it drives, the KV backend (src/src/log/db.cpp), and the      *)
(* peers that talk to it: engines (REPLICATE, READ_AT), the sequencer      *)
(* (METALOGS, fed by SHARD_PROGRESS) and the view watcher.                 *)
(*                                                                         *)
(* One sequencer per view, so a logspace is named by its view id.  Every   *)
(* handler runs on some IO worker: its first step holds core_mu_ (reader)  *)
(* and picks the logspace, its second holds that logspace's lock.  Other   *)
(* handlers and the view watcher interleave between the two.               *)
(*                                                                         *)
(* LogStorage, FutureRequests and StorageBase are not under src/; their    *)
(* operations are modelled from spec.md 4.3.                               *)
(***************************************************************************)
EXTENDS Naturals, Sequences, FiniteSets, SequencesExt

CONSTANTS
    MaxView,    \* views 1..MaxView are created, in order
    Member,     \* the views whose storage set contains this node
    MaxSeq,     \* positions 1..MaxSeq of each logspace
    Payloads,   \* record contents engines may replicate
    MsgIds,     \* slots for the messages peers send (bounds the run)
    None        \* no record / no payload

ASSUME Member \subseteq 1..MaxView /\ None \notin Payloads

ViewIds == 1..MaxView
Seqnums == 1..MaxSeq
Ops == {"REPLICATE", "READ_AT", "METALOGS"}
Pcs == {"unsent", "arrived", "parked", "replay", "applying", "pending", "done"}
Outs == {"none", "stored", "storeFailed", "ignored", "ok", "lost", "applied",
         "droppedNotMember"}
Msg == [op: Ops, view: ViewIds, seq: 0..MaxSeq, pay: Payloads \cup {None},
        ls: ViewIds,          \* the logspace the handler locked
        pc: Pcs, parked: BOOLEAN, out: Outs, rpay: Payloads \cup {None}]
Records == [ViewIds -> [Seqnums -> Payloads \cup {None}]]

VARIABLES
    \* Storage (storage.cpp)
    currentView,    \* current_view_->id(), 0 for nullptr
    logspaces,      \* views with a LogStorage in storage_collection_
    future,         \* future_requests_: parked messages per view
    replay,         \* ready requests handed to ProcessRequests, per view
    \* LogStorage per logspace
    live,           \* records held in memory
    metalogPos,     \* metalog position applied
    sealed,         \* Finalize has run
    sentProgress,   \* progress last grabbed for SHARD_PROGRESS
    finalSeen,      \* views whose OnViewFinalized has run
    \* KV backend (db.cpp)
    dbInstalled,    \* logspaces with a column family / DBM
    db,             \* their rows
    \* peers
    msgs,           \* messages and the fate of each
    zkView,         \* views created in the coordination service
    zkFinalPos,     \* final metalog position of each finalized view
    reported,       \* progress the sequencer has received
    committed,      \* metalog position the sequencer has issued
    replicated      \* payload an engine replicated at each position

storageVars == <<currentView, logspaces, future, replay>>
logVars == <<live, metalogPos, sealed, sentProgress, finalSeen>>
dbVars == <<dbInstalled, db>>
peerVars == <<zkView, zkFinalPos, reported, committed, replicated>>
vars == <<storageVars, logVars, dbVars, msgs, peerVars>>

NoRecords == [v \in ViewIds |-> [s \in Seqnums |-> None]]

TypeOK ==
    /\ currentView \in 0..MaxView
    /\ logspaces \subseteq ViewIds
    /\ future \in [ViewIds -> Seq(MsgIds)]
    /\ replay \in [ViewIds -> Seq(MsgIds)]
    /\ live \in Records
    /\ metalogPos \in [ViewIds -> 0..MaxSeq]
    /\ sealed \subseteq ViewIds
    /\ sentProgress \in [ViewIds -> 0..MaxSeq]
    /\ finalSeen \subseteq ViewIds
    /\ dbInstalled \subseteq ViewIds
    /\ db \in Records
    /\ msgs \in [MsgIds -> Msg]
    /\ zkView \in 0..MaxView
    /\ zkFinalPos \in [ViewIds -> 0..MaxSeq \cup {None}]
    /\ reported \in [ViewIds -> 0..MaxSeq]
    /\ committed \in [ViewIds -> 0..MaxSeq]
    /\ replicated \in Records

Init ==
    /\ currentView = 0
    /\ logspaces = {}
    /\ future = [v \in ViewIds |-> <<>>]
    /\ replay = [v \in ViewIds |-> <<>>]
    /\ live = NoRecords
    /\ metalogPos = [v \in ViewIds |-> 0]
    /\ sealed = {}
    /\ sentProgress = [v \in ViewIds |-> 0]
    /\ finalSeen = {}
    /\ dbInstalled = {}
    /\ db = NoRecords
    /\ msgs = [m \in MsgIds |-> [op |-> "READ_AT", view |-> 1, seq |-> 0,
                 pay |-> None, ls |-> 1, pc |-> "unsent", parked |-> FALSE,
                 out |-> "none", rpay |-> None]]
    /\ zkView = 0
    /\ zkFinalPos = [v \in ViewIds |-> None]
    /\ reported = [v \in ViewIds |-> 0]
    /\ committed = [v \in ViewIds |-> 0]
    /\ replicated = NoRecords

-----------------------------------------------------------------------------
(***************************************************************************)
(* KV backend (db.cpp).  Get of a logspace never installed is nullopt;     *)
(* PutBatch to one is logged and skipped.                                  *)
(***************************************************************************)
InstallLogSpace(v) == dbInstalled \cup {v}

DBGet(v, s) == IF v \in dbInstalled THEN db[v][s] ELSE None

\* Mutant: the write loop stops before the batch's last key.
PutBatchDropsLast(v, keys, vals) ==
    IF v \in dbInstalled /\ keys # {}
       THEN [db EXCEPT ![v] = [s \in Seqnums |->
                                 IF s \in keys \ {Max(keys)} THEN vals[s] ELSE @[s]]]
       ELSE db

PutBatch(v, keys, vals) ==
    IF v \in dbInstalled
       THEN [db EXCEPT ![v] = [s \in Seqnums |->
                                 IF s \in keys THEN vals[s] ELSE @[s]]]
       ELSE db

(***************************************************************************)
(* LogStorage (spec 4.3).                                                  *)
(***************************************************************************)
Stored(v, s) == live[v][s] # None \/ db[v][s] # None

\* Shard progress: the longest prefix of positions stored here.
Progress(v) == Max({k \in 0..MaxSeq : \A s \in 1..k : Stored(v, s)})

\* Outcome of a read of position s, given the logspace's records and
\* metalog position: in memory -> READ_OK; confirmed but evicted -> kLookupDB
\* then ProcessReadFromDB; beyond the position of a sealed logspace ->
\* kFailed; otherwise the read stays pending.
ReadResult(v, s, liveV, pos) ==
    IF s <= pos /\ liveV[s] # None THEN [out |-> "ok", rpay |-> liveV[s]]
    ELSE IF s <= pos /\ DBGet(v, s) # None
         THEN [out |-> "ok", rpay |-> DBGet(v, s)]
    ELSE [out |-> "lost", rpay |-> None]

Resolvable(s, pos, fin) == s <= pos \/ fin

\* PollReadResults + ProcessReadResults for logspace v after its metalog
\* position became pos (and it may be sealed): answer every pending read
\* that can now be answered.
PollReads(v, pos, fin) ==
    [m \in MsgIds |->
        IF /\ msgs[m].pc = "pending" /\ msgs[m].ls = v
           /\ Resolvable(msgs[m].seq, pos, fin)
        THEN LET r == ReadResult(v, msgs[m].seq, live[v], pos)
             IN [msgs[m] EXCEPT !.pc = "done", !.out = r.out, !.rpay = r.rpay]
        ELSE msgs[m]]

\* ProvideMetaLog: confirm positions up to pos and flush the newly
\* confirmed records to the backend in one batch.
NewlyConfirmed(v, pos) == {s \in Seqnums : metalogPos[v] < s /\ s <= pos}

ProvideMetaLog(v, pos) ==
    IF pos > metalogPos[v]
       THEN /\ db' = PutBatch(v, NewlyConfirmed(v, pos), live[v])
            /\ metalogPos' = [metalogPos EXCEPT ![v] = pos]
       ELSE UNCHANGED <<db, metalogPos>>

NewPos(v, pos) == IF pos > metalogPos[v] THEN pos ELSE metalogPos[v]

\* Mutant: the ring drops a record before its metalog has flushed it.
EvictEarly(v, s) ==
    /\ live[v][s] # None
    /\ live' = [live EXCEPT ![v][s] = None]
    /\ UNCHANGED <<storageVars, metalogPos, sealed, sentProgress, finalSeen,
                   dbVars, msgs, peerVars>>

\* The ring of recent records drops one that is already persisted.
Evict(v, s) ==
    /\ live[v][s] # None
    /\ s <= metalogPos[v]
    /\ live' = [live EXCEPT ![v][s] = None]
    /\ UNCHANGED <<storageVars, metalogPos, sealed, sentProgress, finalSeen,
                   dbVars, msgs, peerVars>>

-----------------------------------------------------------------------------
(***************************************************************************)
(* Storage handlers, first step (core_mu_ held as reader).                 *)
(***************************************************************************)
\* ONHOLD_IF_FROM_FUTURE_VIEW
FromFutureView(m) == currentView = 0 \/ msgs[m].view > currentView

\* IGNORE_IF_FROM_PAST_VIEW (not applied to READ_AT)
FromPastView(m) == currentView # 0 /\ msgs[m].view < currentView

SetMsg(m, pc, out, rpay) ==
    msgs' = [msgs EXCEPT ![m].pc = pc, ![m].out = out, ![m].rpay = rpay]

OnHold(m) ==
    /\ msgs[m].pc = "arrived"
    /\ FromFutureView(m)
    /\ future' = [future EXCEPT ![msgs[m].view] = Append(@, m)]
    /\ msgs' = [msgs EXCEPT ![m].pc = "parked", ![m].parked = TRUE]
    /\ UNCHANGED <<currentView, logspaces, replay, logVars, dbVars, peerVars>>

IgnorePast(m) ==
    /\ msgs[m].pc = "arrived"
    /\ ~FromFutureView(m)
    /\ msgs[m].op # "READ_AT"
    /\ FromPastView(m)
    /\ SetMsg(m, "done", "ignored", None)
    /\ UNCHANGED <<storageVars, logVars, dbVars, peerVars>>

\* The logspace the handler will lock (GetLogSpace / GetLogSpaceChecked).
\* Mutant: the request is served from the current view's logspace.
LogSpaceOfCurrent(m) == IF currentView = 0 THEN msgs[m].view ELSE currentView

LogSpaceOf(m) == msgs[m].view

\* READ_AT of a logspace not installed here goes straight to the backend.
ReadFromDB(m) ==
    /\ msgs[m].pc = "arrived"
    /\ ~FromFutureView(m)
    /\ msgs[m].op = "READ_AT"
    /\ LogSpaceOf(m) \notin logspaces
    /\ LET p == DBGet(LogSpaceOf(m), msgs[m].seq)
       IN SetMsg(m, "done", IF p = None THEN "lost" ELSE "ok", p)
    /\ UNCHANGED <<storageVars, logVars, dbVars, peerVars>>

GrabLogSpace(m) ==
    /\ msgs[m].pc = "arrived"
    /\ ~FromFutureView(m)
    /\ msgs[m].op = "READ_AT" => LogSpaceOf(m) \in logspaces
    /\ msgs[m].op # "READ_AT" => ~FromPastView(m)
    /\ msgs' = [msgs EXCEPT ![m].pc = "applying", ![m].ls = LogSpaceOf(m)]
    /\ UNCHANGED <<storageVars, logVars, dbVars, peerVars>>

(***************************************************************************)
(* Second step (the logspace's lock held), then ProcessReadResults.        *)
(***************************************************************************)
\* HandleReplicateRequest: Store rejects a position already present and
\* any record once the logspace is sealed.
Replicate(m) ==
    LET v == msgs[m].ls  s == msgs[m].seq
    IN /\ msgs[m].pc = "applying" /\ msgs[m].op = "REPLICATE"
       /\ IF ~Stored(v, s) /\ v \notin sealed
             THEN /\ live' = [live EXCEPT ![v][s] = msgs[m].pay]
                  /\ SetMsg(m, "done", "stored", None)
             ELSE /\ UNCHANGED live
                  /\ SetMsg(m, "done", "storeFailed", None)
       /\ UNCHANGED <<storageVars, metalogPos, sealed, sentProgress, finalSeen,
                      dbVars, peerVars>>

\* HandleReadAtRequest: ReadAt, then PollReadResults.
ReadAt(m) ==
    LET v == msgs[m].ls  s == msgs[m].seq
    IN /\ msgs[m].pc = "applying" /\ msgs[m].op = "READ_AT"
       /\ IF Resolvable(s, metalogPos[v], v \in sealed)
             THEN LET r == ReadResult(v, s, live[v], metalogPos[v])
                  IN SetMsg(m, "done", r.out, r.rpay)
             ELSE SetMsg(m, "pending", "none", None)
       /\ UNCHANGED <<storageVars, logVars, dbVars, peerVars>>

\* Mutant: the pending reads are polled before the metalog is applied.
MetaLogsPollFirst(m) ==
    LET v == msgs[m].ls
    IN /\ msgs[m].pc = "applying" /\ msgs[m].op = "METALOGS"
       /\ ProvideMetaLog(v, msgs[m].seq)
       /\ msgs' = [PollReads(v, metalogPos[v], v \in sealed) EXCEPT
                     ![m].pc = "done", ![m].out = "applied"]
       /\ UNCHANGED <<storageVars, live, sealed, sentProgress, finalSeen,
                      dbInstalled, peerVars>>

\* OnRecvNewMetaLogs: ProvideMetaLog, then PollReadResults.
MetaLogs(m) ==
    LET v == msgs[m].ls  pos == NewPos(v, msgs[m].seq)
    IN /\ msgs[m].pc = "applying" /\ msgs[m].op = "METALOGS"
       /\ ProvideMetaLog(v, msgs[m].seq)
       /\ msgs' = [PollReads(v, pos, v \in sealed) EXCEPT
                     ![m].pc = "done", ![m].out = "applied"]
       /\ UNCHANGED <<storageVars, live, sealed, sentProgress, finalSeen,
                      dbInstalled, peerVars>>

-----------------------------------------------------------------------------
(***************************************************************************)
(* View watcher callbacks (core_mu_ held as writer / reader).              *)
(***************************************************************************)
\* OnViewCreated: install the logspace if this node is a member, take the
\* requests parked for this view (dropped when not a member), publish the
\* view, and hand the ready requests to ProcessRequests on an IO worker.
OnViewCreated(v) ==
    /\ v = currentView + 1
    /\ v <= zkView
    /\ v > 1 => v - 1 \in finalSeen
    /\ LET mine == v \in Member
           ready == ToSet(future[v])
       IN /\ logspaces' = IF mine THEN logspaces \cup {v} ELSE logspaces
          /\ dbInstalled' = IF mine THEN InstallLogSpace(v) ELSE dbInstalled
          /\ future' = [future EXCEPT ![v] = <<>>]
          /\ replay' = [replay EXCEPT ![v] = IF mine THEN future[v] ELSE <<>>]
          /\ msgs' = [m \in MsgIds |->
                        IF m \notin ready THEN msgs[m]
                        ELSE IF mine THEN [msgs[m] EXCEPT !.pc = "replay"]
                        ELSE [msgs[m] EXCEPT !.pc = "done",
                                             !.out = "droppedNotMember"]]
    /\ currentView' = v
    /\ UNCHANGED <<logVars, db, peerVars>>

\* ProcessRequests: the ready requests go through MessageHandler one after
\* another, each from the start (the view guards are evaluated again).
ReplayInFlight(v) ==
    \E m \in MsgIds : /\ msgs[m].parked /\ msgs[m].view = v
                      /\ msgs[m].pc \in {"arrived", "applying"}

ProcessRequests(v) ==
    /\ replay[v] # <<>>
    /\ ~ReplayInFlight(v)
    /\ replay' = [replay EXCEPT ![v] = Tail(@)]
    /\ msgs' = [msgs EXCEPT ![Head(replay[v])].pc = "arrived"]
    /\ UNCHANGED <<currentView, logspaces, future, logVars, dbVars, peerVars>>

\* OnViewFinalized: Finalize each logspace of the view with the final
\* metalog position, which seals it.  No PollReadResults follows, so the
\* reads the logspace was holding stay pending.
OnViewFinalized(v) ==
    /\ v = currentView
    /\ zkFinalPos[v] # None
    /\ v \notin finalSeen
    /\ finalSeen' = finalSeen \cup {v}
    /\ IF v \in logspaces
          THEN /\ ProvideMetaLog(v, zkFinalPos[v])
               /\ sealed' = sealed \cup {v}
          ELSE UNCHANGED <<db, metalogPos, sealed>>
    /\ UNCHANGED <<storageVars, live, sentProgress, dbInstalled, msgs,
                   peerVars>>

\* SendShardProgressIfNeeded: report the progress of the current view's
\* logspace when it changed since the last report.
\* Mutant: the reported progress counts one position past the stored prefix.
SendShardProgressPastPrefix ==
    LET v == currentView
    IN /\ v \in logspaces
       /\ Progress(v) # sentProgress[v]
       /\ sentProgress' = [sentProgress EXCEPT ![v] = Progress(v)]
       /\ reported' = [reported EXCEPT ![v] = Progress(v) + 1]
       /\ UNCHANGED <<storageVars, live, metalogPos, sealed, finalSeen,
                      dbVars, msgs, zkView, zkFinalPos, committed, replicated>>

SendShardProgress ==
    LET v == currentView
    IN /\ v \in logspaces
       /\ Progress(v) # sentProgress[v]
       /\ sentProgress' = [sentProgress EXCEPT ![v] = Progress(v)]
       /\ reported' = [reported EXCEPT ![v] = Progress(v)]
       /\ UNCHANGED <<storageVars, live, metalogPos, sealed, finalSeen,
                      dbVars, msgs, zkView, zkFinalPos, committed, replicated>>

-----------------------------------------------------------------------------
(***************************************************************************)
(* Peers.                                                                  *)
(***************************************************************************)
Send(m, op, v, s, p) ==
    /\ msgs[m].pc = "unsent"
    /\ msgs' = [msgs EXCEPT ![m] = [op |-> op, view |-> v, seq |-> s,
                  pay |-> p, ls |-> v, pc |-> "arrived", parked |-> FALSE,
                  out |-> "none", rpay |-> None]]

\* An engine replicates a new record of a view it knows to this node.
EngineReplicate(m, v, s, p) ==
    /\ v <= zkView /\ v \in Member
    /\ replicated[v][s] = None
    /\ Send(m, "REPLICATE", v, s, p)
    /\ replicated' = [replicated EXCEPT ![v][s] = p]
    /\ UNCHANGED <<storageVars, logVars, dbVars, zkView, zkFinalPos,
                   reported, committed>>

\* Engines address a read by their own, possibly older, shard mapping, so a
\* READ_AT may name a logspace this node never held.
EngineReadAt(m, v, s) ==
    /\ v <= zkView
    /\ Send(m, "READ_AT", v, s, None)
    /\ UNCHANGED <<storageVars, logVars, dbVars, peerVars>>

\* The sequencer commits no further than the progress storage reported.
SequencerMetaLog(m, v, pos) ==
    /\ v <= zkView /\ v \in Member /\ zkFinalPos[v] = None
    /\ committed[v] < pos /\ pos <= reported[v]
    /\ Send(m, "METALOGS", v, pos, None)
    /\ committed' = [committed EXCEPT ![v] = pos]
    /\ UNCHANGED <<storageVars, logVars, dbVars, zkView, zkFinalPos,
                   reported, replicated>>

\* A view is finalized at the last committed position, then the next one
\* is created.
ZkFinalizeView ==
    /\ zkView >= 1 /\ zkFinalPos[zkView] = None
    /\ zkFinalPos' = [zkFinalPos EXCEPT ![zkView] = committed[zkView]]
    /\ UNCHANGED <<storageVars, logVars, dbVars, msgs, zkView, reported,
                   committed, replicated>>

ZkCreateView ==
    /\ zkView < MaxView
    /\ zkView > 0 => zkFinalPos[zkView] # None
    /\ zkView' = zkView + 1
    /\ UNCHANGED <<storageVars, logVars, dbVars, msgs, zkFinalPos, reported,
                   committed, replicated>>

Next ==
    \/ \E m \in MsgIds : \/ OnHold(m) \/ IgnorePast(m) \/ ReadFromDB(m)
                         \/ GrabLogSpace(m)
                         \/ Replicate(m) \/ ReadAt(m) \/ MetaLogs(m)
    \/ \E v \in ViewIds : OnViewCreated(v) \/ ProcessRequests(v)
                          \/ OnViewFinalized(v)
    \/ \E v \in ViewIds, s \in Seqnums : Evict(v, s)
    \/ SendShardProgress
    \/ \E m \in MsgIds, v \in ViewIds, s \in Seqnums :
          \/ \E p \in Payloads : EngineReplicate(m, v, s, p)
          \/ EngineReadAt(m, v, s)
          \/ SequencerMetaLog(m, v, s)
    \/ ZkFinalizeView
    \/ ZkCreateView

Spec == Init /\ [][Next]_vars

-----------------------------------------------------------------------------
(***************************************************************************)
(* Properties                                                              *)
(***************************************************************************)

\* Round trip (spec 8 and scenario 6): a READ_OK carries exactly the payload
\* the engine replicated at that position of that view, whether it was served
\* from memory, from the backend after eviction, or after a view change; and
\* DATA_LOST is answered only for a position the sequencer never committed
\* in that view (a committed record was reported stored here, is flushed by
\* PutBatch when its metalog arrives, and is found by ProcessReadFromDB once
\* evicted from memory).
ReadAnswerCorrect ==
    \A m \in MsgIds :
        LET r == msgs[m]
        IN /\ r.out = "ok" => r.rpay = replicated[r.view][r.seq]
           /\ r.out = "lost" => r.seq > committed[r.view]

\* No lost wake-up on metalogs: a READ_AT left pending in a logspace that
\* is still open waits for a position the logspace has not confirmed yet.
\* Reads are answered only when a metalog polls them, so a pending read
\* whose position is already confirmed (ReadAt racing OnRecvNewMetaLogs,
\* or a poll made before the metalog was applied) would never be answered.
\* Reads held by a sealed logspace are the finalization's hazard, not this
\* property's.
PendingReadsWait ==
    \A m \in MsgIds :
        msgs[m].pc = "pending" /\ msgs[m].ls \notin sealed =>
            msgs[m].seq > metalogPos[msgs[m].ls]

\* Spec 8 "parked-request drainage" and scenario 5: a message parked for a
\* future view is processed within that view once it is current, or dropped
\* because the node is not a member; it is never discarded as outdated.
ParkedProcessedInItsView ==
    \A m \in MsgIds : msgs[m].parked => msgs[m].out # "ignored"

\* The node implements the abstract logspace store: the record at a
\* position is the one in memory or, once evicted, the one in the backend;
\* it never changes or disappears once stored (the ring evicts only what
\* PutBatch flushed), the metalog position only confirms a stored prefix,
\* and Finalize seals.
Abstract == INSTANCE AbstractLog WITH
    Logs <- ViewIds, Positions <- Seqnums,
    recs <- [v \in ViewIds |-> [s \in Seqnums |->
                IF live[v][s] # None THEN live[v][s] ELSE db[v][s]]],
    conf <- metalogPos,
    closed <- sealed

LogRefined == Abstract!Spec

=============================================================================
