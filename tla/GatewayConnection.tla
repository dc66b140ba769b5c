------------------------- MODULE GatewayConnection -------------------------
(***************************************************************************)
(* The launcher's connection to the gateway                                *)
(* (src/src/launcher/gateway_connection.cpp): a libuv pipe that connects,  *)
(* writes the handshake, reads the handshake response and then a stream    *)
(* of fixed-size messages, and writes messages of its own.                 *)
(*                                                                         *)
(* The byte stream from the gateway is a sequence of pieces; every frame   *)
(* (the handshake response, then messages 1, 2, ...) is two pieces, and a  *)
(* read returns any non-empty prefix of what is in the pipe, so a frame    *)
(* can be split across reads.  libuv runs one callback at a time; a       *)
(* uv_close makes every pending request complete with an error before the  *)
(* close callback.  The Launcher (not under src/) decides whether to       *)
(* accept the response and may call ScheduleClose at any time.             *)
(***************************************************************************)
EXTENDS Naturals, Sequences

CONSTANTS
    MaxMsgs,    \* messages the gateway sends after its response
    MaxWrites   \* messages the launcher writes

Resp == 0                               \* frame id of the handshake response
Frames == {Resp} \cup 1..MaxMsgs
Piece == Frames \X {1, 2}
States == {"Created", "Handshake", "Running", "Closing", "Closed"}
Readers == {"none", "handshake", "message"}

VARIABLES
    state,          \* state_
    reading,        \* which read callback uv_read_start installed
    connectReq,     \* uv_pipe_connect pending
    hsWriteReq,     \* handshake uv_write pending
    writes,         \* message uv_writes pending
    writeBufs,      \* buffer_pool_ buffers held by message writes
    closeReq,       \* uv_close pending
    buf,            \* message_buffer_
    wire,           \* bytes in the pipe not yet read
    \* the peers
    gwHandshake,    \* the gateway has received the handshake
    gwSent,         \* messages the gateway has sent
    gwResponded,    \* the gateway has sent its handshake response
    verdict,        \* "none", "accepted", "rejected" by the launcher
    delivered,      \* messages handed to Launcher::OnRecvMessage
    written         \* messages the launcher has written

vars == <<state, reading, connectReq, hsWriteReq, writes, writeBufs, closeReq,
          buf, wire, gwHandshake, gwSent, gwResponded, verdict, delivered, written>>

TypeOK ==
    /\ state \in States
    /\ reading \in Readers
    /\ connectReq \in BOOLEAN /\ hsWriteReq \in BOOLEAN /\ closeReq \in BOOLEAN
    /\ writes \in 0..MaxWrites /\ writeBufs \in 0..MaxWrites
    /\ buf \in Seq(Piece) /\ wire \in Seq(Piece)
    /\ gwHandshake \in BOOLEAN /\ gwResponded \in BOOLEAN
    /\ gwSent \in 0..MaxMsgs
    /\ verdict \in {"none", "accepted", "rejected"}
    /\ delivered \in Seq(1..MaxMsgs)
    /\ written \in 0..MaxWrites

Init ==
    /\ state = "Created" /\ reading = "none"
    /\ connectReq = FALSE /\ hsWriteReq = FALSE /\ closeReq = FALSE
    /\ writes = 0 /\ writeBufs = 0
    /\ buf = <<>> /\ wire = <<>>
    /\ gwHandshake = FALSE /\ gwSent = 0 /\ gwResponded = FALSE
    /\ verdict = "none" /\ delivered = <<>> /\ written = 0

Open == state \in {"Handshake", "Running"}

-----------------------------------------------------------------------------
\* ScheduleClose, as the primed state it leaves: uv_close (which stops
\* reading) only from kHandshake or kRunning.
ScheduleClose ==
    IF Open
       THEN /\ state' = "Closing" /\ closeReq' = TRUE /\ reading' = "none"
       ELSE UNCHANGED <<state, closeReq, reading>>

\* Whole frames at the front of a buffer that starts on a frame boundary,
\* and what is left behind.
WholeFrames(b) == [i \in 1..(Len(b) \div 2) |-> b[2 * i - 1][1]]
Leftover(b) == SubSeq(b, 2 * (Len(b) \div 2) + 1, Len(b))

\* A read hands the callback a non-empty prefix of the pipe.
Chunks == {SubSeq(wire, 1, k) : k \in 1..Len(wire)}

Start ==
    /\ state = "Created"
    /\ state' = "Handshake" /\ connectReq' = TRUE
    /\ UNCHANGED <<reading, hsWriteReq, writes, writeBufs, closeReq, buf, wire,
                   gwHandshake, gwSent, gwResponded, verdict, delivered, written>>

ConnectCallback ==
    /\ connectReq
    /\ connectReq' = FALSE
    /\ \E ok \in IF state = "Closing" THEN {FALSE} ELSE BOOLEAN :
          IF ok THEN hsWriteReq' = TRUE /\ UNCHANGED <<state, closeReq, reading>>
                ELSE ScheduleClose /\ UNCHANGED hsWriteReq
    /\ UNCHANGED <<writes, writeBufs, buf, wire, gwHandshake, gwSent, gwResponded,
                   verdict, delivered, written>>

\* Mutant: the handshake write completes without starting to read.
WriteHandshakeCallbackNoRead ==
    /\ hsWriteReq
    /\ hsWriteReq' = FALSE
    /\ \E ok \in IF state = "Closing" THEN {FALSE} ELSE BOOLEAN :
          IF ok THEN gwHandshake' = TRUE /\ UNCHANGED <<state, closeReq, reading>>
                ELSE ScheduleClose /\ UNCHANGED gwHandshake
    /\ UNCHANGED <<connectReq, writes, writeBufs, buf, wire, gwSent, gwResponded,
                   verdict, delivered, written>>

WriteHandshakeCallback ==
    /\ hsWriteReq
    /\ hsWriteReq' = FALSE
    /\ \E ok \in IF state = "Closing" THEN {FALSE} ELSE BOOLEAN :
          IF ok THEN /\ reading' = "handshake" /\ gwHandshake' = TRUE
                     /\ UNCHANGED <<state, closeReq>>
                ELSE ScheduleClose /\ UNCHANGED gwHandshake
    /\ UNCHANGED <<connectReq, writes, writeBufs, buf, wire, gwSent, gwResponded,
                   verdict, delivered, written>>

\* RecvHandshakeResponse: stop reading; if the launcher accepts, read
\* messages from now on and enter kRunning.
RecvHandshakeResponse(accept) ==
    /\ verdict' = IF accept THEN "accepted" ELSE "rejected"
    /\ reading' = IF accept THEN "message" ELSE "none"
    /\ state' = IF accept THEN "Running" ELSE state

\* Mutant: the response is left in message_buffer_.
AfterResponseKept(b) == b

\* message_buffer_.ConsumeFront(expected_size) after the response.
AfterResponse(b) == SubSeq(b, 3, Len(b))

\* ReadHandshakeResponseCallback with a chunk: append it; once the whole
\* response is buffered, handle it, consume it, and hand every whole
\* message behind it to the launcher.
ReadHandshakeResponse ==
    /\ reading = "handshake"
    /\ \E chunk \in Chunks :
         LET b == buf \o chunk
         IN /\ wire' = SubSeq(wire, Len(chunk) + 1, Len(wire))
            /\ IF Len(b) >= 2
                  THEN LET rest == AfterResponse(b)
                       IN /\ \E accept \in BOOLEAN : RecvHandshakeResponse(accept)
                          /\ delivered' = delivered \o WholeFrames(rest)
                          /\ buf' = Leftover(rest)
                  ELSE /\ buf' = b
                       /\ UNCHANGED <<verdict, reading, state, delivered>>
    /\ UNCHANGED <<connectReq, hsWriteReq, writes, writeBufs, closeReq,
                   gwHandshake, gwSent, gwResponded, written>>

\* A read that fails (nread < 0: the gateway closed its end, or an I/O
\* error) closes the connection, in either read callback.
ReadError ==
    /\ reading # "none"
    /\ ScheduleClose
    /\ UNCHANGED <<connectReq, hsWriteReq, writes, writeBufs, buf, wire,
                   gwHandshake, gwSent, gwResponded, verdict, delivered, written>>

\* Mutant: ReadMessages keeps only whole messages and drops a partial one.
ReadMessageDropsPartial ==
    /\ reading = "message"
    /\ \E chunk \in Chunks :
         LET b == buf \o chunk
         IN /\ wire' = SubSeq(wire, Len(chunk) + 1, Len(wire))
            /\ delivered' = delivered \o WholeFrames(b)
            /\ buf' = <<>>
    /\ UNCHANGED <<state, reading, connectReq, hsWriteReq, writes, writeBufs,
                   closeReq, gwHandshake, gwSent, gwResponded, verdict, written>>

\* ReadMessageCallback: utils::ReadMessages hands every whole message to
\* the launcher and keeps a partial one buffered.
ReadMessage ==
    /\ reading = "message"
    /\ \E chunk \in Chunks :
         LET b == buf \o chunk
         IN /\ wire' = SubSeq(wire, Len(chunk) + 1, Len(wire))
            /\ delivered' = delivered \o WholeFrames(b)
            /\ buf' = Leftover(b)
    /\ UNCHANGED <<state, reading, connectReq, hsWriteReq, writes, writeBufs,
                   closeReq, gwHandshake, gwSent, gwResponded, verdict, written>>

\* WriteMessage, called by the launcher while the connection runs.
WriteMessage ==
    /\ state = "Running"
    /\ written < MaxWrites
    /\ writes' = writes + 1 /\ writeBufs' = writeBufs + 1
    /\ written' = written + 1
    /\ UNCHANGED <<state, reading, connectReq, hsWriteReq, closeReq, buf, wire,
                   gwHandshake, gwSent, gwResponded, verdict, delivered>>

\* Mutant: the buffer goes back to the pool only when the write succeeded.
WriteMessageCallbackLeaky ==
    /\ writes > 0
    /\ writes' = writes - 1
    /\ \E ok \in IF state = "Closing" THEN {FALSE} ELSE BOOLEAN :
          /\ writeBufs' = IF ok THEN writeBufs - 1 ELSE writeBufs
          /\ IF ok THEN UNCHANGED <<state, closeReq, reading>> ELSE ScheduleClose
    /\ UNCHANGED <<connectReq, hsWriteReq, buf, wire, gwHandshake, gwSent,
                   gwResponded, verdict, delivered, written>>

\* WriteMessageCallback: return the buffer and the request; close on error.
WriteMessageCallback ==
    /\ writes > 0
    /\ writes' = writes - 1 /\ writeBufs' = writeBufs - 1
    /\ \E ok \in IF state = "Closing" THEN {FALSE} ELSE BOOLEAN :
          IF ok THEN UNCHANGED <<state, closeReq, reading>> ELSE ScheduleClose
    /\ UNCHANGED <<connectReq, hsWriteReq, buf, wire, gwHandshake, gwSent,
                   gwResponded, verdict, delivered, written>>

\* CloseCallback runs after every cancelled request has completed.
CloseCallback ==
    /\ closeReq
    /\ ~connectReq /\ ~hsWriteReq /\ writes = 0
    /\ state' = "Closed" /\ closeReq' = FALSE
    /\ UNCHANGED <<reading, connectReq, hsWriteReq, writes, writeBufs, buf, wire,
                   gwHandshake, gwSent, gwResponded, verdict, delivered, written>>

-----------------------------------------------------------------------------
\* The launcher closes the connection (e.g. on shutdown).
LauncherClose ==
    /\ ScheduleClose
    /\ Open
    /\ UNCHANGED <<connectReq, hsWriteReq, writes, writeBufs, buf, wire,
                   gwHandshake, gwSent, gwResponded, verdict, delivered, written>>

\* The gateway answers the handshake once, then dispatches messages.
GatewayRespond ==
    /\ gwHandshake /\ ~gwResponded
    /\ gwResponded' = TRUE
    /\ wire' = wire \o <<<<Resp, 1>>, <<Resp, 2>>>>
    /\ UNCHANGED <<state, reading, connectReq, hsWriteReq, writes, writeBufs,
                   closeReq, buf, gwHandshake, gwSent, verdict, delivered, written>>

GatewaySend ==
    /\ gwResponded /\ gwSent < MaxMsgs
    /\ gwSent' = gwSent + 1
    /\ wire' = wire \o <<<<gwSent + 1, 1>>, <<gwSent + 1, 2>>>>
    /\ UNCHANGED <<state, reading, connectReq, hsWriteReq, writes, writeBufs,
                   closeReq, buf, gwHandshake, gwResponded, verdict, delivered,
                   written>>

Next ==
    \/ Start \/ ConnectCallback \/ WriteHandshakeCallback
    \/ ReadHandshakeResponse \/ ReadMessage \/ ReadError
    \/ WriteMessage \/ WriteMessageCallback \/ CloseCallback
    \/ LauncherClose \/ GatewayRespond \/ GatewaySend

\* libuv completes every request and delivers data that is in the pipe;
\* the gateway answers a handshake it received.  The launcher owes nothing,
\* and the gateway need not dispatch messages.
Fairness ==
    /\ WF_vars(GatewayRespond)
    /\ WF_vars(ConnectCallback) /\ WF_vars(WriteHandshakeCallback)
    /\ WF_vars(ReadHandshakeResponse) /\ WF_vars(ReadMessage)
    /\ WF_vars(WriteMessageCallback) /\ WF_vars(CloseCallback)

Spec == Init /\ [][Next]_vars /\ Fairness

-----------------------------------------------------------------------------
(***************************************************************************)
(* Properties                                                              *)
(***************************************************************************)

\* The launcher receives the gateway's messages exactly once and in order,
\* although frames are split across reads and the first messages arrive in
\* the same reads as the handshake response (the loop in
\* ReadHandshakeResponseCallback) before ReadMessages takes over the buffer.
DeliveredInOrder ==
    \A i \in 1..Len(delivered) : delivered[i] = i

\* Once the close callback has run, every buffer a message write took from
\* buffer_pool_ has been returned (WriteMessageCallback's finally block).
BuffersReturnedOnClose ==
    state = "Closed" => writeBufs = 0

\* A started connection does not hang in the handshake: it reaches
\* kRunning or kClosed unless the launcher rejected the response.
HandshakeResolves ==
    state = "Handshake" ~> (state \in {"Running", "Closed"} \/ verdict = "rejected")

\* RecvHandshakeResponse restarts reading and enters kRunning only when the
\* launcher accepts the response: no message reaches the launcher unless it
\* accepted the handshake.
MessagesOnlyAfterAccept ==
    Len(delivered) > 0 => verdict = "accepted"

====
