---------------------------- MODULE WorkerManager ----------------------------
(***************************************************************************)
(* The NodeJS binding of the worker library                               *)
(* (src/worker/nodejs/worker_manager.cpp).  JavaScript registers four      *)
(* callbacks, starts the library and forwards gateway data and function    *)
(* calls to it; the library answers through the four C++ callbacks the     *)
(* constructor installed, which call the registered JavaScript functions,  *)
(* or throw "... is not set" and return when none is registered.           *)
(*                                                                         *)
(* The library (worker_lib::Manager) is not in the repository: it is an    *)
(* environment that, once started, may send data, turn forwarded gateway   *)
(* data into incoming calls, and complete the outgoing calls it accepted,  *)
(* in any order.  Payloads are abstracted away; call handles are kept as   *)
(* integers of Width bits (uint32_t in the code) because JavaScript hands  *)
(* them back through Int32Value.                                           *)
(***************************************************************************)
EXTENDS Naturals, Integers, FiniteSets

CONSTANTS
    Width,          \* bits of a handle (32 in the code)
    Handles,        \* handles the library may choose
    MaxMsgs,        \* gateway messages JavaScript forwards
    MaxSends,       \* data sends by the library
    MaxOut,         \* outgoing calls JavaScript makes
    SetBeforeStart  \* JavaScript registers every callback before start()

Callbacks == {"sendGatewayData", "sendWatchdogData", "incomingFuncCall",
              "outcomingFuncCallComplete"}

ASSUME Handles \subseteq 0..(2^Width - 1)

VARIABLES
    cbSet,      \* callbacks whose Persistent is not empty
    started,    \* inner_->Start() was called
    libInput,   \* gateway data forwarded to the library, not yet acted on
    libIn,      \* incoming calls the library has outstanding
    jsIn,       \* handles (JavaScript Numbers) of incoming calls JS holds
    libOut,     \* outgoing calls the library has outstanding
    jsOut,      \* handles of outgoing calls JS is waiting on
    lost,       \* a library callback found no JavaScript function
    msgs, sends, outs

vars == <<cbSet, started, libInput, libIn, jsIn, libOut, jsOut, lost,
          msgs, sends, outs>>

TypeOK ==
    /\ cbSet \subseteq Callbacks /\ started \in BOOLEAN
    /\ libInput \in 0..MaxMsgs
    /\ libIn \subseteq Handles /\ jsIn \subseteq Handles
    /\ libOut \subseteq Handles /\ jsOut \subseteq Handles
    /\ lost \in BOOLEAN
    /\ msgs \in 0..MaxMsgs /\ sends \in 0..MaxSends /\ outs \in 0..MaxOut

\* New as a construct call: the constructor installs the four C++
\* callbacks on inner_; no JavaScript callback is registered yet.
Init ==
    /\ cbSet = {} /\ started = FALSE /\ libInput = 0
    /\ libIn = {} /\ jsIn = {} /\ libOut = {} /\ jsOut = {}
    /\ lost = FALSE /\ msgs = 0 /\ sends = 0 /\ outs = 0

-----------------------------------------------------------------------------
(* Conversions of a handle.  Nan::New(uint32_t) makes an exact Number;     *)
(* Int32Value is ECMAScript ToInt32 (modulo 2^Width, upper half negative); *)
(* the result is cast to uint32_t (modulo 2^Width).                        *)

\* Mutant: the handle is read with a saturating conversion to int32.
ToInt32Saturating(n) ==
    IF n >= 2^(Width - 1) THEN 2^(Width - 1) - 1 ELSE n

ToInt32(n) ==
    LET r == n % (2^Width)
    IN IF r >= 2^(Width - 1) THEN r - 2^Width ELSE r

ToUint32(i) == i % (2^Width)

-----------------------------------------------------------------------------
\* setSendGatewayDataCallback and the three others: Reset(callback).  A
\* call without a function throws a TypeError and changes nothing.
SetCallback(cb) ==
    /\ cbSet' = cbSet \cup {cb}
    /\ UNCHANGED <<started, libInput, libIn, jsIn, libOut, jsOut, lost,
                   msgs, sends, outs>>

\* start(): inner_->Start(), with no check that it was not called before.
Start ==
    /\ SetBeforeStart => cbSet = Callbacks
    /\ started' = TRUE
    /\ UNCHANGED <<cbSet, libInput, libIn, jsIn, libOut, jsOut, lost,
                   msgs, sends, outs>>

\* onRecvGatewayData(buffer): inner_->OnRecvGatewayData.
OnRecvGatewayData ==
    /\ msgs < MaxMsgs
    /\ libInput' = libInput + 1 /\ msgs' = msgs + 1
    /\ UNCHANGED <<cbSet, started, libIn, jsIn, libOut, jsOut, lost,
                   sends, outs>>

\* Mutant: the accepted handle is returned to JavaScript as an int32_t.
OnOutcomingFuncCallSigned ==
    /\ outs < MaxOut /\ outs' = outs + 1
    /\ \/ \E h \in Handles \ libOut :
              /\ libOut' = libOut \cup {h} /\ jsOut' = jsOut \cup {ToInt32(h)}
       \/ UNCHANGED <<libOut, jsOut>>
    /\ UNCHANGED <<cbSet, started, libInput, libIn, jsIn, lost, msgs, sends>>

\* onOutcomingFuncCall(name, input): the handle is returned only when the
\* library accepts the call; otherwise JavaScript gets undefined.
OnOutcomingFuncCall ==
    /\ outs < MaxOut /\ outs' = outs + 1
    /\ \/ \E h \in Handles \ libOut :
              /\ libOut' = libOut \cup {h} /\ jsOut' = jsOut \cup {h}
       \/ UNCHANGED <<libOut, jsOut>>
    /\ UNCHANGED <<cbSet, started, libInput, libIn, jsIn, lost, msgs, sends>>

\* The handle JavaScript passes back reaches the library as
\* static_cast<uint32_t>(Int32Value(handle)).
HandleFromJs(n) == ToUint32(ToInt32(n))

\* onIncomingFuncCallComplete(handle, success, [output]): the library
\* completes the call named by the converted handle.
OnIncomingFuncCallComplete(n) ==
    /\ n \in jsIn
    /\ jsIn' = jsIn \ {n}
    /\ libIn' = libIn \ {HandleFromJs(n)}
    /\ UNCHANGED <<cbSet, started, libInput, libOut, jsOut, lost,
                   msgs, sends, outs>>

-----------------------------------------------------------------------------
(* The library's calls into the binding.                                   *)

\* SendGatewayDataCallback / SendWatchdogDataCallback: the data reaches
\* JavaScript, or the callback is not set and it is dropped.
SendDataCallback(cb) ==
    /\ started /\ sends < MaxSends
    /\ sends' = sends + 1
    /\ lost' = (lost \/ cb \notin cbSet)
    /\ UNCHANGED <<cbSet, started, libInput, libIn, jsIn, libOut, jsOut,
                   msgs, outs>>

\* The library dispatches forwarded gateway data as an incoming call and
\* IncomingFuncCallCallback hands JavaScript Nan::New(handle), or drops it.
IncomingFuncCallCallback(h) ==
    /\ started /\ libInput > 0 /\ h \notin libIn
    /\ libInput' = libInput - 1
    /\ libIn' = libIn \cup {h}
    /\ IF "incomingFuncCall" \in cbSet
          THEN jsIn' = jsIn \cup {h} /\ UNCHANGED lost
          ELSE lost' = TRUE /\ UNCHANGED jsIn
    /\ UNCHANGED <<cbSet, started, libOut, jsOut, msgs, sends, outs>>

\* OutcomingFuncCallCompleteCallback for an outstanding outgoing call.
OutcomingFuncCallCompleteCallback(h) ==
    /\ started /\ h \in libOut
    /\ libOut' = libOut \ {h}
    /\ IF "outcomingFuncCallComplete" \in cbSet
          THEN jsOut' = jsOut \ {h} /\ UNCHANGED lost
          ELSE lost' = TRUE /\ UNCHANGED jsOut
    /\ UNCHANGED <<cbSet, started, libInput, libIn, jsIn, msgs, sends, outs>>

Next ==
    \/ \E cb \in Callbacks : SetCallback(cb)
    \/ Start \/ OnRecvGatewayData \/ OnOutcomingFuncCall
    \/ \E n \in jsIn : OnIncomingFuncCallComplete(n)
    \/ \E cb \in {"sendGatewayData", "sendWatchdogData"} : SendDataCallback(cb)
    \/ \E h \in Handles : IncomingFuncCallCallback(h)
                          \/ OutcomingFuncCallCompleteCallback(h)

Spec == Init /\ [][Next]_vars

-----------------------------------------------------------------------------
\* Nothing the library hands the binding is lost, and both sides agree on
\* the calls in flight: JavaScript holds exactly the incoming calls the
\* library has outstanding, so the handle it passes back (through a Number
\* and Int32Value) names the call it completes, and it waits on exactly the
\* outgoing calls the library has still to complete.
CallsAgree ==
    /\ ~lost
    /\ jsIn = libIn
    /\ jsOut = libOut

====
