--------------------------- MODULE Recorder_proof ---------------------------
(***************************************************************************)
(* Proofs about Recorder and OutputLife: for every number of recordings    *)
(* and of failures, and for commands that come from buttons or hotkeys.    *)
(***************************************************************************)
EXTENDS Recorder, TLAPS, SequenceTheorems

-----------------------------------------------------------------------------
(* The types that TypeOK leaves open *)

Api == [at : {"idle", "hook", "activate", "reset", "flags", "release", "wait", "join"},
        out : Outputs \cup {0}, force : BOOLEAN, then : {"idle", "release", "wait"}]
Signal == [out : Outputs, code : {Success, EncodeError}]
Told == Seq({Success, EncodeError})
Muxer == [active : BOOLEAN, capturing : BOOLEAN, stopping : BOOLEAN]
Caller == [at : {"out", "end", "create", "signal", "leave"},
           why : {"none", "stop", "failed stop", "failure", "error"}]

Types ==
  /\ TypeOK
  /\ api \in Api /\ signals \in Seq(Signal)
  /\ told \in [Outputs -> Told]
  /\ failed \subseteq Outputs /\ errored \subseteq Outputs /\ early \subseteq Outputs
  /\ recordingActive \in BOOLEAN /\ overtaken \in BOOLEAN
  /\ exiting \in {"no", "window", "libobs", "gone"}

-----------------------------------------------------------------------------
(* The inductive invariant: where the user's thread may be, ...             *)

Starting(o) == api.out = o /\ api.at \in {"hook", "activate"}
Untouched(o) ==
  /\ ~active[o] /\ ~data_active[o] /\ ~connected[o] /\ ~Inside(o) /\ full_stop[o] = "no"
  /\ end_thread[o] = "none" /\ ~mux[o].active /\ Len(told[o]) = 0
  /\ o \notin failed \cup errored \cup early

ApiInv ==
  /\ api.at = "idle" => api = Idle
  /\ api.at # "idle" => api.out \in Outputs /\ life[api.out] = "live"
  /\ api.at \in {"hook", "activate"} => api.out = recordOutput /\ exiting = "no"
  /\ api.at \in {"reset", "flags"} /\ ~api.force => active[api.out] \/ end_thread[api.out] # "none"
  /\ exiting = "no" => /\ api.at \notin {"release", "wait", "join"} /\ api.then = "idle"
                       /\ \A o \in Outputs : life[o] # "destroyed"

(* ... and what holds of an output.  Only the newest may be active; before  *)
(* it is made nothing is at work for it; its session runs, ends and is told *)
(* of once; whoever waits for the event of an output will see it.           *)
Created(o) == life[o] = "none" <=> o > recordOutput
Fresh(o) == life[o] = "none" => Untouched(o) /\ stop_code[o] = Success
Only(o) == o < recordOutput => ~active[o]
Begin(o) ==
  /\ Starting(o) => /\ ~active[o] /\ data_active[o] /\ end_thread[o] = "none"
                    /\ mux[o].stopping => o \in errored
  /\ Starting(o) /\ api.at = "hook" => ~connected[o] /\ mux[o].active /\ o \notin errored \cup early
Once(o) ==
  /\ mux[o].active => /\ data_active[o] /\ ~Inside(o) /\ stop_code[o] = Success
                      /\ Len(told[o]) = 0 /\ o \notin failed
  /\ data_active[o] => /\ end_thread[o] = "none" /\ callback[o].at \notin {"create", "signal"}
                       /\ Len(told[o]) # 0 => o \in early
  /\ callback[o].at = "create" => active[o] /\ end_thread[o] = "none"
  /\ Inside(o) <=> callback[o].why # "none"
  /\ callback[o].at = "end" /\ callback[o].why # "failure" => data_active[o]
  /\ callback[o].why = "error" => o \in errored
  /\ full_stop[o] # "no" <=> o \in errored
  /\ ~data_active[o] /\ callback[o].at # "create" => end_thread[o] # "none" \/ Untouched(o)
Ending(o) ==
  /\ end_thread[o] \in {"encoders", "active"} => active[o]
  /\ ~active[o] => Starting(o) \/ Untouched(o) \/ end_thread[o] \in {"event", "flag", "done"}
  /\ active[o] => end_thread[o] \in {"none", "encoders", "active"}
  /\ end_thread[o] \in {"active", "event", "flag", "done"} =>
       ~connected[o] /\ (o \notin errored => ~Inside(o))
Leaving(o) ==
  /\ api.out = o /\ ((api.at = "flags" /\ api.then = "wait") \/ api.at = "wait") =>
       (stopping_event[o] => ~active[o] \/ end_thread[o] # "none")
  /\ api.out = o /\ api.at = "join" => ~active[o] \/ end_thread[o] # "none"
  /\ life[o] = "destroyed" => /\ end_thread[o] \in {"none", "done"} /\ ~Starting(o)
                              /\ end_thread[o] = "none" => Untouched(o)
Event(o) ==
  /\ api.at = "flags" /\ api.out = o /\ mux[o].active /\ o \notin errored => ~stopping_event[o]
  /\ o \notin errored /\ mux[o].stopping /\ mux[o].active => ~stopping_event[o]
  /\ o \notin errored /\ callback[o].why \in {"stop", "failed stop"} => ~stopping_event[o] /\ active[o]

(* The callback has yet to signal the "stop". *)
Before(o) == callback[o].at \in {"end", "create", "signal"}
Telling(o) ==
  /\ callback[o].why \in {"stop", "failed stop"} => stop_code[o] = Success
  /\ Len(told[o]) \in {0, 1, 2} /\ (Len(told[o]) = 2 => told[o][1] = Success)
  /\ Before(o) /\ Len(told[o]) # 0 =>
       /\ callback[o].why = "failure" /\ Len(told[o]) = 1 /\ told[o][1] = Success
       /\ exiting = "no" => stop_code[o] = EncodeError
       /\ o \notin errored => ~stopping_event[o]
  /\ callback[o].at = "leave" /\ callback[o].why = "failed stop" =>
       Len(told[o]) = 1 /\ told[o][1] = Success
  /\ Len(told[o]) = 0 => end_thread[o] = "none" \/ callback[o].at = "signal"
  /\ Len(told[o]) = 2 /\ told[o][2] = Success => exiting # "no"
  /\ Before(o) /\ callback[o].why = "failure" /\ exiting = "no" /\ o \notin errored =>
       stop_code[o] = EncodeError
  /\ o \in failed \ errored /\ exiting = "no" =>
       \/ callback[o].why = "failed stop"
       \/ callback[o].why = "failure" /\ Before(o)
       \/ Len(told[o]) # 0 /\ told[o][Len(told[o])] = EncodeError

OInv(o) ==
  /\ Created(o) /\ Fresh(o) /\ Only(o) /\ Begin(o) /\ Once(o) /\ Ending(o) /\ Leaving(o)
  /\ Event(o) /\ Telling(o)

(* What the window shows, as long as no start overtook a "stop". *)
Shown ==
  exiting = "no" /\ ~overtaken /\ early = {} =>
    /\ \A o \in Outputs : o # recordOutput => ~Inside(o)
    /\ recordOutput = 0 => signals = << >> /\ ~recordingActive
    /\ recordOutput # 0 =>
         /\ Len(signals) <= Len(told[recordOutput])
         /\ recordingActive <=> /\ active[recordOutput] \/ end_thread[recordOutput] # "none"
                                /\ Len(told[recordOutput]) = Len(signals)

Inv == Types /\ ApiInv /\ (\A o \in Outputs : OInv(o)) /\ Shown

-----------------------------------------------------------------------------
(* What the updates of a field do to it and to the others *)

LEMMA MuxFields ==
  ASSUME mux \in [Outputs -> Muxer], NEW o \in Outputs, NEW b \in BOOLEAN
  PROVE  /\ mux' = [mux EXCEPT ![o].active = b] =>
              mux'[o].active = b /\ mux'[o].stopping = mux[o].stopping
         /\ mux' = [mux EXCEPT ![o].stopping = b] =>
              mux'[o].active = mux[o].active /\ mux'[o].stopping = b
         /\ mux' = [mux EXCEPT ![o].capturing = b] =>
              mux'[o].active = mux[o].active /\ mux'[o].stopping = mux[o].stopping
         /\ mux' = MuxStopped(o) =>
              mux'[o].active = mux[o].active /\ mux'[o].stopping = TRUE
<1>1. mux' = [mux EXCEPT ![o].active = b] => mux'[o].active = b /\ mux'[o].stopping = mux[o].stopping
  BY DEF Muxer
<1>2. mux' = [mux EXCEPT ![o].stopping = b] => mux'[o].active = mux[o].active /\ mux'[o].stopping = b
  BY DEF Muxer
<1>3. mux' = [mux EXCEPT ![o].capturing = b] =>
        mux'[o].active = mux[o].active /\ mux'[o].stopping = mux[o].stopping
  BY DEF Muxer
<1>4. ASSUME mux' = MuxStopped(o)
      PROVE  mux'[o].active = mux[o].active /\ mux'[o].stopping = TRUE
  <2>1. mux' = [mux EXCEPT ![o].stopping = TRUE, ![o].capturing = FALSE]
    BY <1>4 DEF MuxStopped
  <2>2. mux'[o].active = mux[o].active
    BY <2>1 DEF Muxer
  <2>3. mux'[o].stopping = TRUE
    BY <2>1 DEF Muxer
  <2> QED BY <2>2, <2>3
<1> QED BY <1>1, <1>2, <1>3, <1>4

LEMMA CallbackFields ==
  ASSUME callback \in [Outputs -> Caller], NEW o \in Outputs
  PROVE  /\ \A why : Enter(o, why) => callback'[o].at = "end" /\ callback'[o].why = why
         /\ \A step : At(o, step) => callback'[o].at = step /\ callback'[o].why = callback[o].why
         /\ callback' = [callback EXCEPT ![o] = Out] => callback'[o].at = "out" /\ callback'[o].why = "none"
<1>1. ASSUME NEW why, Enter(o, why)
      PROVE  callback'[o].at = "end" /\ callback'[o].why = why
  BY <1>1 DEF Enter
<1>2. ASSUME NEW step, At(o, step)
      PROVE  callback'[o].at = step /\ callback'[o].why = callback[o].why
  <2>1. callback' = [callback EXCEPT ![o].at = step]
    BY <1>2 DEF At
  <2> QED BY <2>1 DEF Caller
<1>3. callback' = [callback EXCEPT ![o] = Out] => callback'[o].at = "out" /\ callback'[o].why = "none"
  BY DEF Out
<1> QED BY <1>1, <1>2, <1>3

-----------------------------------------------------------------------------
(* Steps of an output's threads leave the other outputs alone. *)

Same(q) ==
  /\ life'[q] = life[q] /\ active'[q] = active[q] /\ data_active'[q] = data_active[q]
  /\ stop_code'[q] = stop_code[q] /\ stopping_event'[q] = stopping_event[q]
  /\ mux'[q] = mux[q] /\ connected'[q] = connected[q] /\ callback'[q] = callback[q]
  /\ full_stop'[q] = full_stop[q] /\ end_thread'[q] = end_thread[q] /\ told'[q] = told[q]
  /\ q \in failed' <=> q \in failed
  /\ q \in errored' <=> q \in errored
  /\ q \in early' <=> q \in early

(* An output stays as it is as long as no one touches it. *)
LEMMA Unaffected ==
  ASSUME NEW q \in Outputs, OInv(q), Same(q), UNCHANGED <<api, exiting, recordOutput>>
  PROVE  OInv(q)'
<1> USE DEF OInv, Same, Out, Success, EncodeError
<1>1. Created(q)'
  BY DEF Created
<1>2. Fresh(q)'
  BY DEF Fresh, Untouched, Inside
<1>3. Begin(q)'
  BY DEF Begin, Starting
<1>4. Once(q)'
  BY DEF Once, Untouched, Inside
<1>5. Ending(q)'
  BY DEF Ending, Starting, Untouched, Inside
<1>6. Leaving(q)'
  BY DEF Leaving, Starting, Untouched, Inside
<1>7. Only(q)'
  BY DEF Only
<1>8. Event(q)'
  BY DEF Event
<1>9. Telling(q)'
  BY DEF Telling, Before
<1> QED BY <1>1, <1>2, <1>3, <1>4, <1>5, <1>6, <1>7, <1>8, <1>9

(* A thread of one output touches no other. *)
LEMMA Others ==
  ASSUME Types, NEW o \in Outputs, Threads(o), NEW q \in Outputs, q # o
  PROVE  Same(q) /\ UNCHANGED <<api, exiting, recordOutput>>
<1> USE DEF Types, TypeOK, Same, Enter, At, flags, history, windowVars, SignalStop
<1>1. CASE PacketStops(o)
  BY <1>1 DEF PacketStops, Threads
<1>2. CASE WriteFails(o)
  BY <1>2 DEF WriteFails, Threads
<1>3. CASE EncoderFails(o)
  BY <1>3 DEF EncoderFails, CodeAfterForce, Threads
<1>4. CASE FullStopReset(o)
  BY <1>4 DEF FullStopReset, Threads
<1>5. CASE FullStopFlags(o)
  BY <1>5 DEF FullStopFlags, MuxStopped, Threads
<1>6. CASE FullStopPacket(o)
  BY <1>6 DEF FullStopPacket, Threads
<1>7. CASE FullStopDetach(o)
  BY <1>7 DEF FullStopDetach, Threads
<1>8. CASE EndNothing(o)
  BY <1>8 DEF EndNothing, Threads
<1>9. CASE EndDataCapture(o)
  BY <1>9 DEF EndDataCapture, Threads
<1>10. CASE CreateEndThread(o)
  BY <1>10 DEF CreateEndThread, Threads
<1>11. CASE SignalEnd(o)
  BY <1>11 DEF SignalEnd, Threads
<1>12. CASE Leave(o)
  BY <1>12 DEF Leave, Threads
<1>13. CASE StopEncoders(o)
  BY <1>13 DEF StopEncoders, Threads
<1>14. CASE ClearActive(o)
  BY <1>14 DEF ClearActive, Threads
<1>15. CASE SignalEvent(o)
  BY <1>15 DEF SignalEvent, Threads
<1>16. CASE ClearEnding(o)
  BY <1>16 DEF ClearEnding, Threads
<1> QED BY <1>1, <1>2, <1>3, <1>4, <1>5, <1>6, <1>7, <1>8, <1>9, <1>10, <1>11, <1>12, <1>13, <1>14,
           <1>15, <1>16 DEF Threads, CallbackSteps, EndThread
(* signal_stop() adds one code to what was told. *)
LEMMA SignalFields ==
  ASSUME told \in [Outputs -> Told], stop_code \in [Outputs -> {Success, EncodeError}],
         NEW o \in Outputs, SignalStop(o)
  PROVE  /\ Len(told'[o]) = Len(told[o]) + 1 /\ told'[o][Len(told[o]) + 1] = stop_code[o]
         /\ Len(told[o]) = 1 => told'[o][1] = told[o][1]
         /\ stop_code'[o] = Success
<1>1. told'[o] = Append(told[o], stop_code[o]) /\ stop_code'[o] = Success
  BY DEF SignalStop
<1>2. told[o] \in Seq({Success, EncodeError}) /\ stop_code[o] \in {Success, EncodeError}
  BY DEF Told
<1> QED BY <1>1, <1>2, AppendProperties

(* A step of an output's thread preserves what holds of that output. *)
LEMMA Own ==
  ASSUME Inv, NEW o \in Outputs, Threads(o)
  PROVE  OInv(o)'
<1>a. OInv(o) /\ ApiInv /\ UNCHANGED windowVars
  BY DEF Inv, Threads
<1>b. /\ TypeOK /\ mux \in [Outputs -> Muxer] /\ callback \in [Outputs -> Caller]
      /\ told \in [Outputs -> Told] /\ stop_code[o] \in {Success, EncodeError}
  BY DEF Inv, Types, TypeOK, Muxer, Caller
<1>c. /\ recordOutput \in Nat /\ o \in Nat /\ Len(told[o]) \in Nat
      /\ callback[o].at \in {"out", "end", "create", "signal", "leave"}
      /\ callback[o].why \in {"none", "stop", "failed stop", "failure", "error"}
      /\ end_thread[o] \in {"none", "encoders", "active", "event", "flag", "done"}
      /\ full_stop[o] \in {"no", "reset", "flags", "packet", "detach", "done"}
  <2>1. recordOutput \in Outputs \cup {0} /\ told[o] \in Seq({Success, EncodeError})
    BY <1>b DEF TypeOK, Told
  <2>2. recordOutput \in Nat /\ o \in Nat
    BY <2>1, MaxOutputsAssumption DEF Outputs
  <2>3. Len(told[o]) \in Nat
    BY <2>1, LenProperties
  <2>4. /\ callback[o].at \in {"out", "end", "create", "signal", "leave"}
        /\ callback[o].why \in {"none", "stop", "failed stop", "failure", "error"}
    BY <1>b DEF Caller
  <2>5. /\ end_thread[o] \in {"none", "encoders", "active", "event", "flag", "done"}
        /\ full_stop[o] \in {"no", "reset", "flags", "packet", "detach", "done"}
    BY <1>b DEF TypeOK
  <2> QED BY <2>2, <2>3, <2>4, <2>5
<1>1. CASE PacketStops(o)
  <2>1. /\ connected[o] /\ mux[o].active /\ ~Inside(o) /\ mux[o].stopping
        /\ mux'[o].active = FALSE /\ mux'[o].stopping = TRUE
        /\ callback'[o].at = "end" /\ callback'[o].why = "stop"
        /\ UNCHANGED <<life, flags, connected, full_stop, end_thread, api, told, history>>
    BY <1>b, MuxFields, CallbackFields, <1>1, ZenonT(30) DEF PacketStops, MayCall, TypeOK
  <2> QED BY <1>a, <1>c, <2>1, ZenonT(40) DEF OInv, Created, Fresh, Only, Begin, Once, Ending, Leaving, Event,
             Telling, Starting, Untouched, Inside, Before, ApiInv, windowVars, Success,
             EncodeError, flags, history
<1>2. CASE WriteFails(o)
  <2>1. /\ connected[o] /\ mux[o].active /\ ~Inside(o)
        /\ mux'[o].active = FALSE /\ mux'[o].stopping = mux[o].stopping
        /\ callback'[o].at = "end" /\ failed' = failed \cup {o}
        /\ mux[o].stopping => callback'[o].why = "failed stop" /\ stop_code'[o] = stop_code[o]
        /\ ~mux[o].stopping => callback'[o].why = "failure" /\ stop_code'[o] = EncodeError
        /\ UNCHANGED <<life, active, data_active, stopping_event, ending, connected, full_stop,
                       end_thread, api, told, errored, early>>
    <3>1. mux'[o].active = FALSE /\ mux'[o].stopping = mux[o].stopping
      BY <1>b, <1>2, MuxFields DEF WriteFails
    <3>2. callback'[o].at = "end"
      BY <1>b, <1>2, CallbackFields DEF WriteFails
    <3>3. mux[o].stopping => callback'[o].why = "failed stop" /\ stop_code'[o] = stop_code[o]
      BY <1>b, <1>2, CallbackFields DEF WriteFails
    <3>4. ~mux[o].stopping => callback'[o].why = "failure" /\ stop_code'[o] = EncodeError
      BY <1>b, <1>2, CallbackFields DEF WriteFails, TypeOK
    <3> QED BY <3>1, <3>2, <3>3, <3>4, <1>2 DEF WriteFails, MayCall
  <2> QED BY <1>a, <1>c, <2>1, ZenonT(40) DEF OInv, Created, Fresh, Only, Begin, Once, Ending, Leaving, Event,
             Telling, Starting, Untouched, Inside, Before, ApiInv, windowVars, Success, EncodeError
<1>3. CASE EncoderFails(o)
  <2>1. /\ connected[o] /\ full_stop[o] = "no" /\ full_stop'[o] = "reset"
        /\ stop_code'[o] = IF stopping_event[o] THEN Success ELSE stop_code[o]
        /\ errored' = errored \cup {o}
        /\ UNCHANGED <<life, active, data_active, stopping_event, ending, mux, connected, callback,
                       end_thread, api, told, failed, early>>
    BY <1>b, MuxFields, CallbackFields, <1>3 DEF EncoderFails, CodeAfterForce, TypeOK
  <2> QED BY <1>a, <1>c, <2>1, ZenonT(40) DEF OInv, Created, Fresh, Only, Begin, Once, Ending, Leaving, Event,
             Telling, Starting, Untouched, Inside, Before, ApiInv, windowVars, Success, EncodeError
<1>4. CASE FullStopReset(o)
  <2>1. /\ full_stop[o] = "reset" /\ full_stop'[o] = "flags" /\ stopping_event'[o] = FALSE
        /\ UNCHANGED <<life, active, data_active, stop_code, ending, mux, connected, callback,
                       end_thread, api, told, history>>
    BY <1>b, MuxFields, CallbackFields, <1>4 DEF FullStopReset, TypeOK
  <2>2. Created(o)'
    BY <1>a, <1>c, <2>1 DEF OInv, Created, windowVars, flags, history
  <2>3. Fresh(o)'
    BY <1>a, <1>c, <2>1 DEF OInv, Fresh, Untouched, Inside, windowVars, flags, history
  <2>4. Only(o)'
    BY <1>a, <1>c, <2>1 DEF OInv, Only, windowVars, flags, history
  <2>5. Begin(o)'
    BY <1>a, <1>c, <2>1 DEF OInv, Begin, Once, Starting, Inside, windowVars, flags, history
  <2>6. Once(o)'
    BY <1>a, <1>c, <2>1 DEF OInv, Once, Ending, Begin, Starting, Untouched, Inside, windowVars,
       flags, history
  <2>7. Ending(o)'
    BY <1>a, <1>c, <2>1 DEF OInv, Ending, Once, Begin, Starting, Untouched, Inside, windowVars,
       flags, history
  <2>8. Leaving(o)'
    BY <1>a, <1>c, <2>1 DEF OInv, Leaving, Once, Starting, Untouched, Inside, windowVars, flags,
       history
  <2>9. Event(o)'
    BY <1>a, <1>c, <2>1 DEF OInv, Event, Once, Inside, windowVars, flags, history
  <2>10. Telling(o)'
    BY <1>a, <1>c, <2>1 DEF OInv, Telling, Event, Once, Before, Inside, windowVars, flags, history
  <2> QED BY <2>2, <2>3, <2>4, <2>5, <2>6, <2>7, <2>8, <2>9, <2>10 DEF OInv
<1>5. CASE FullStopFlags(o)
  <2>1. /\ full_stop[o] = "flags" /\ full_stop'[o] = "packet"
        /\ mux'[o].active = mux[o].active /\ mux'[o].stopping = TRUE
        /\ UNCHANGED <<life, flags, connected, callback, end_thread, api, told, history>>
    BY <1>b, MuxFields, CallbackFields, <1>5 DEF FullStopFlags, TypeOK
  <2>2. Created(o)'
    BY <1>a, <1>c, <2>1 DEF OInv, Created, windowVars, flags, history
  <2>3. Fresh(o)'
    BY <1>a, <1>c, <2>1 DEF OInv, Fresh, Untouched, Inside, windowVars, flags, history
  <2>4. Only(o)'
    BY <1>a, <1>c, <2>1 DEF OInv, Only, windowVars, flags, history
  <2>5. Begin(o)'
    BY <1>a, <1>c, <2>1 DEF OInv, Begin, Once, Starting, Inside, windowVars, flags, history
  <2>6. Once(o)'
    BY <1>a, <1>c, <2>1 DEF OInv, Once, Ending, Begin, Starting, Untouched, Inside, windowVars,
       flags, history
  <2>7. Ending(o)'
    BY <1>a, <1>c, <2>1 DEF OInv, Ending, Once, Begin, Starting, Untouched, Inside, windowVars,
       flags, history
  <2>8. Leaving(o)'
    BY <1>a, <1>c, <2>1 DEF OInv, Leaving, Once, Starting, Untouched, Inside, windowVars, flags,
       history
  <2>9. Event(o)'
    BY <1>a, <1>c, <2>1 DEF OInv, Event, Once, Inside, windowVars, flags, history
  <2>10. Telling(o)'
    BY <1>a, <1>c, <2>1 DEF OInv, Telling, Event, Once, Before, Inside, windowVars, flags, history
  <2> QED BY <2>2, <2>3, <2>4, <2>5, <2>6, <2>7, <2>8, <2>9, <2>10 DEF OInv
<1>6. CASE FullStopPacket(o)
  <2>1. /\ full_stop[o] = "packet" /\ ~Inside(o) /\ full_stop'[o] = "detach"
        /\ mux'[o].active = FALSE /\ mux'[o].stopping = mux[o].stopping
        /\ mux[o].active => /\ stop_code'[o] = EncodeError
                            /\ callback'[o].at = "end" /\ callback'[o].why = "error"
        /\ ~mux[o].active => stop_code'[o] = stop_code[o] /\ callback'[o] = callback[o]
        /\ UNCHANGED <<life, active, data_active, stopping_event, ending, connected, end_thread, api,
                       told, history>>
    <3>1. full_stop'[o] = "detach"
      BY <1>b, <1>6 DEF FullStopPacket, TypeOK
    <3>2. mux'[o].active = FALSE /\ mux'[o].stopping = mux[o].stopping
      BY <1>b, <1>6, MuxFields DEF FullStopPacket, Muxer
    <3>3. mux[o].active => callback'[o].at = "end" /\ callback'[o].why = "error"
      BY <1>b, <1>6, CallbackFields DEF FullStopPacket
    <3>4. mux[o].active => stop_code'[o] = EncodeError
      BY <1>b, <1>6 DEF FullStopPacket, TypeOK
    <3> QED BY <3>1, <3>2, <3>3, <3>4, <1>6 DEF FullStopPacket
  <2>2. Created(o)'
    BY <1>a, <1>c, <2>1 DEF OInv, Created, windowVars, history
  <2>3. Fresh(o)'
    BY <1>a, <1>c, <2>1 DEF OInv, Fresh, Untouched, Inside, windowVars, history
  <2>4. Only(o)'
    BY <1>a, <1>c, <2>1 DEF OInv, Only, windowVars, history
  <2>5. Begin(o)'
    BY <1>a, <1>c, <2>1 DEF OInv, Begin, Once, Starting, Inside, windowVars, history
  <2>6. Once(o)'
    BY <1>a, <1>c, <2>1 DEF OInv, Once, Ending, Begin, Starting, Untouched, Inside, windowVars,
       history
  <2>7. Ending(o)'
    BY <1>a, <1>c, <2>1 DEF OInv, Ending, Once, Begin, Starting, Untouched, Inside, windowVars,
       history
  <2>8. Leaving(o)'
    BY <1>a, <1>c, <2>1 DEF OInv, Leaving, Once, Starting, Untouched, Inside, windowVars, history
  <2>9. Event(o)'
    BY <1>a, <1>c, <2>1 DEF OInv, Event, Once, Inside, windowVars, history
  <2>10. Telling(o)'
    BY <1>a, <1>c, <2>1 DEF OInv, Telling, Event, Once, Before, Inside, windowVars, history
  <2> QED BY <2>2, <2>3, <2>4, <2>5, <2>6, <2>7, <2>8, <2>9, <2>10 DEF OInv
<1>7. CASE FullStopDetach(o)
  <2>1. /\ full_stop[o] = "detach" /\ full_stop'[o] = "done" /\ callback[o].why # "error"
        /\ connected'[o] = FALSE
        /\ UNCHANGED <<life, flags, mux, callback, end_thread, api, told, history>>
    BY <1>b, MuxFields, CallbackFields, <1>7 DEF FullStopDetach, TypeOK
  <2>2. Created(o)'
    BY <1>a, <1>c, <2>1 DEF OInv, Created, windowVars, flags, history
  <2>3. Fresh(o)'
    BY <1>a, <1>c, <2>1 DEF OInv, Fresh, Untouched, Inside, windowVars, flags, history
  <2>4. Only(o)'
    BY <1>a, <1>c, <2>1 DEF OInv, Only, windowVars, flags, history
  <2>5. Begin(o)'
    BY <1>a, <1>c, <2>1 DEF OInv, Begin, Once, Starting, Inside, windowVars, flags, history
  <2>6. Once(o)'
    BY <1>a, <1>c, <2>1 DEF OInv, Once, Ending, Begin, Starting, Untouched, Inside, windowVars,
       flags, history
  <2>7. Ending(o)'
    BY <1>a, <1>c, <2>1 DEF OInv, Ending, Once, Begin, Starting, Untouched, Inside, windowVars,
       flags, history
  <2>8. Leaving(o)'
    BY <1>a, <1>c, <2>1 DEF OInv, Leaving, Once, Starting, Untouched, Inside, windowVars, flags,
       history
  <2>9. Event(o)'
    BY <1>a, <1>c, <2>1 DEF OInv, Event, Once, Inside, windowVars, flags, history
  <2>10. Telling(o)'
    BY <1>a, <1>c, <2>1 DEF OInv, Telling, Event, Once, Before, Inside, windowVars, flags, history
  <2> QED BY <2>2, <2>3, <2>4, <2>5, <2>6, <2>7, <2>8, <2>9, <2>10 DEF OInv
<1>8. CASE EndNothing(o)
  <2>1. /\ callback[o].at = "end" /\ ~(active[o] /\ data_active[o])
        /\ Len(told'[o]) = Len(told[o]) + 1 /\ told'[o][Len(told[o]) + 1] = stop_code[o]
        /\ Len(told[o]) = 1 => told'[o][1] = told[o][1]
        /\ stop_code'[o] = Success /\ stopping_event'[o] = TRUE
        /\ callback'[o].at = "leave" /\ callback'[o].why = callback[o].why
        /\ o \in early' <=> o \in early \/ data_active[o]
        /\ UNCHANGED <<life, active, data_active, ending, mux, connected, full_stop, end_thread, api,
                       failed, errored>>
    <3>1. /\ Len(told'[o]) = Len(told[o]) + 1 /\ told'[o][Len(told[o]) + 1] = stop_code[o]
          /\ Len(told[o]) = 1 => told'[o][1] = told[o][1]
          /\ stop_code'[o] = Success
      BY <1>b, <1>8, SignalFields DEF EndNothing, TypeOK
    <3>2. stopping_event'[o] = TRUE
      BY <1>b, <1>8 DEF EndNothing, TypeOK
    <3>3. callback'[o].at = "leave" /\ callback'[o].why = callback[o].why
      BY <1>b, <1>8, CallbackFields DEF EndNothing
    <3>4. o \in early' <=> o \in early \/ data_active[o]
      BY <1>8 DEF EndNothing
    <3> QED BY <3>1, <3>2, <3>3, <3>4, <1>8 DEF EndNothing
  <2>2. Created(o)'
    BY <1>a, <1>c, <2>1, <1>b DEF OInv, Created, windowVars
  <2>3. Fresh(o)'
    BY <1>a, <1>c, <2>1, <1>b DEF OInv, Fresh, Untouched, Inside, windowVars
  <2>4. Only(o)'
    BY <1>a, <1>c, <2>1, <1>b DEF OInv, Only, windowVars
  <2>5. Begin(o)'
    BY <1>a, <1>c, <2>1, <1>b DEF OInv, Begin, Once, Starting, Inside, windowVars
  <2>6. Once(o)'
    BY <1>a, <1>c, <2>1, <1>b DEF OInv, Once, Ending, Begin, Starting, Untouched, Inside, windowVars
  <2>7. Ending(o)'
    BY <1>a, <1>c, <2>1, <1>b DEF OInv, Ending, Once, Begin, Starting, Untouched, Inside, windowVars
  <2>8. Leaving(o)'
    BY <1>a, <1>c, <2>1, <1>b DEF OInv, Leaving, Once, Starting, Untouched, Inside, windowVars
  <2>9. Event(o)'
    BY <1>a, <1>c, <2>1, <1>b DEF OInv, Event, Once, Inside, windowVars
  <2>10. Telling(o)'
    <3>1. Telling(o) /\ Before(o)
      BY <1>a, <2>1 DEF OInv, Before
    <3>2. \/ Len(told[o]) = 0 /\ Len(told'[o]) = 1 /\ told'[o][1] = stop_code[o]
          \/ /\ Len(told[o]) = 1 /\ Len(told'[o]) = 2 /\ told'[o][1] = Success
             /\ told'[o][2] = stop_code[o] /\ callback[o].why = "failure"
             /\ exiting = "no" => stop_code[o] = EncodeError
      <4>1. CASE Len(told[o]) = 0
        <5>1. Len(told[o]) + 1 = 1
          BY <4>1
        <5> QED BY <4>1, <5>1, <2>1
      <4>2. CASE Len(told[o]) # 0
        <5>1. /\ Len(told[o]) = 1 /\ told[o][1] = Success /\ callback[o].why = "failure"
              /\ exiting = "no" => stop_code[o] = EncodeError
          BY <3>1, <4>2 DEF Telling
        <5>2. Len(told[o]) + 1 = 2
          BY <5>1
        <5> QED BY <5>1, <5>2, <2>1
      <4> QED BY <4>1, <4>2
    <3>3. callback'[o].at = "leave" /\ UNCHANGED exiting
      BY <1>a, <2>1 DEF windowVars
    <3>4. Len(told'[o]) = 1 \/ (Len(told'[o]) = 2 /\ told'[o][1] = Success)
      BY <3>2
    <3>5. callback'[o].why = "failed stop" => Len(told'[o]) = 1 /\ told'[o][1] = Success
      BY <3>1, <3>2, <2>1 DEF Telling
    <3>6. Len(told'[o]) = 2 /\ told'[o][2] = Success => exiting # "no"
      BY <3>2 DEF Success, EncodeError
    <3>7. o \in failed' \ errored' /\ exiting = "no" =>
            callback'[o].why = "failed stop" \/ told'[o][Len(told'[o])] = EncodeError
      BY <3>1, <3>2, <2>1 DEF Telling, history
    <3>8. callback'[o].why \in {"stop", "failed stop"} => stop_code'[o] = Success
      BY <2>1
    <3>9. Len(told'[o]) # 0
      BY <3>4
    <3>10. Len(told'[o]) \in {0, 1, 2}
      BY <3>4
    <3>11. Len(told'[o]) = 2 => told'[o][1] = Success
      BY <3>4
    <3> QED BY <3>3, <3>5, <3>6, <3>7, <3>8, <3>9, <3>10, <3>11 DEF Telling, Before
  <2> QED BY <2>2, <2>3, <2>4, <2>5, <2>6, <2>7, <2>8, <2>9, <2>10 DEF OInv
<1>9. CASE EndDataCapture(o)
  <2>1. /\ callback[o].at = "end" /\ active[o] /\ data_active[o] /\ data_active'[o] = FALSE
        /\ callback'[o].at = "create" /\ callback'[o].why = callback[o].why
        /\ UNCHANGED <<life, active, stop_code, stopping_event, ending, mux, connected, full_stop,
                       end_thread, api, told, history>>
    BY <1>b, MuxFields, CallbackFields, <1>9 DEF EndDataCapture, TypeOK
  <2> QED BY <1>a, <1>c, <2>1, ZenonT(40) DEF OInv, Created, Fresh, Only, Begin, Once, Ending, Leaving, Event,
             Telling, Starting, Untouched, Inside, Before, ApiInv, windowVars, Success,
             EncodeError, history
<1>10. CASE CreateEndThread(o)
  <2>1. /\ callback[o].at = "create" /\ end_thread'[o] = "encoders"
        /\ callback'[o].at = "signal" /\ callback'[o].why = callback[o].why
        /\ UNCHANGED <<life, active, data_active, stop_code, stopping_event, mux, connected, full_stop,
                       api, told, history>>
    BY <1>b, MuxFields, CallbackFields, <1>10 DEF CreateEndThread, TypeOK
  <2> QED BY <1>a, <1>c, <2>1, ZenonT(40) DEF OInv, Created, Fresh, Only, Begin, Once, Ending, Leaving, Event,
             Telling, Starting, Untouched, Inside, Before, ApiInv, windowVars, Success,
             EncodeError, history
<1>11. CASE SignalEnd(o)
  <2>1. /\ callback[o].at = "signal"
        /\ Len(told'[o]) = Len(told[o]) + 1 /\ told'[o][Len(told[o]) + 1] = stop_code[o]
        /\ Len(told[o]) = 1 => told'[o][1] = told[o][1]
        /\ stop_code'[o] = Success
        /\ callback'[o].at = "leave" /\ callback'[o].why = callback[o].why
        /\ UNCHANGED <<life, active, data_active, stopping_event, ending, mux, connected, full_stop,
                       end_thread, api, history>>
    <3>1. /\ Len(told'[o]) = Len(told[o]) + 1 /\ told'[o][Len(told[o]) + 1] = stop_code[o]
          /\ Len(told[o]) = 1 => told'[o][1] = told[o][1]
          /\ stop_code'[o] = Success
      BY <1>b, <1>11, SignalFields DEF SignalEnd, TypeOK
    <3>2. callback'[o].at = "leave" /\ callback'[o].why = callback[o].why
      BY <1>b, <1>11, CallbackFields DEF SignalEnd
    <3> QED BY <3>1, <3>2, <1>11 DEF SignalEnd
  <2>2. Created(o)'
    BY <1>a, <1>c, <2>1, <1>b DEF OInv, Created, windowVars, history
  <2>3. Fresh(o)'
    BY <1>a, <1>c, <2>1, <1>b DEF OInv, Fresh, Untouched, Inside, windowVars, history
  <2>4. Only(o)'
    BY <1>a, <1>c, <2>1, <1>b DEF OInv, Only, windowVars, history
  <2>5. Begin(o)'
    BY <1>a, <1>c, <2>1, <1>b DEF OInv, Begin, Once, Starting, Inside, windowVars, history
  <2>6. Once(o)'
    BY <1>a, <1>c, <2>1, <1>b DEF OInv, Once, Ending, Begin, Starting, Untouched, Inside,
       windowVars, history
  <2>7. Ending(o)'
    BY <1>a, <1>c, <2>1, <1>b DEF OInv, Ending, Once, Begin, Starting, Untouched, Inside,
       windowVars, history
  <2>8. Leaving(o)'
    BY <1>a, <1>c, <2>1, <1>b DEF OInv, Leaving, Once, Starting, Untouched, Inside, windowVars,
       history
  <2>9. Event(o)'
    BY <1>a, <1>c, <2>1, <1>b DEF OInv, Event, Once, Inside, windowVars, history
  <2>10. Telling(o)'
    <3>1. Telling(o) /\ Before(o)
      BY <1>a, <2>1 DEF OInv, Before
    <3>2. \/ Len(told[o]) = 0 /\ Len(told'[o]) = 1 /\ told'[o][1] = stop_code[o]
          \/ /\ Len(told[o]) = 1 /\ Len(told'[o]) = 2 /\ told'[o][1] = Success
             /\ told'[o][2] = stop_code[o] /\ callback[o].why = "failure"
             /\ exiting = "no" => stop_code[o] = EncodeError
      <4>1. CASE Len(told[o]) = 0
        <5>1. Len(told[o]) + 1 = 1
          BY <4>1
        <5> QED BY <4>1, <5>1, <2>1
      <4>2. CASE Len(told[o]) # 0
        <5>1. /\ Len(told[o]) = 1 /\ told[o][1] = Success /\ callback[o].why = "failure"
              /\ exiting = "no" => stop_code[o] = EncodeError
          BY <3>1, <4>2 DEF Telling
        <5>2. Len(told[o]) + 1 = 2
          BY <5>1
        <5> QED BY <5>1, <5>2, <2>1
      <4> QED BY <4>1, <4>2
    <3>3. callback'[o].at = "leave" /\ UNCHANGED exiting
      BY <1>a, <2>1 DEF windowVars
    <3>4. Len(told'[o]) = 1 \/ (Len(told'[o]) = 2 /\ told'[o][1] = Success)
      BY <3>2
    <3>5. callback'[o].why = "failed stop" => Len(told'[o]) = 1 /\ told'[o][1] = Success
      BY <3>1, <3>2, <2>1 DEF Telling
    <3>6. Len(told'[o]) = 2 /\ told'[o][2] = Success => exiting # "no"
      BY <3>2 DEF Success, EncodeError
    <3>7. o \in failed' \ errored' /\ exiting = "no" =>
            callback'[o].why = "failed stop" \/ told'[o][Len(told'[o])] = EncodeError
      BY <3>1, <3>2, <2>1 DEF Telling, history
    <3>8. callback'[o].why \in {"stop", "failed stop"} => stop_code'[o] = Success
      BY <2>1
    <3>9. Len(told'[o]) # 0
      BY <3>4
    <3>10. Len(told'[o]) \in {0, 1, 2}
      BY <3>4
    <3>11. Len(told'[o]) = 2 => told'[o][1] = Success
      BY <3>4
    <3> QED BY <3>3, <3>5, <3>6, <3>7, <3>8, <3>9, <3>10, <3>11 DEF Telling, Before
  <2> QED BY <2>2, <2>3, <2>4, <2>5, <2>6, <2>7, <2>8, <2>9, <2>10 DEF OInv
<1>12. CASE Leave(o)
  <2>1. /\ callback[o].at = "leave"
        /\ \/ /\ callback[o].why \in {"stop", "error"}
              /\ mux'[o].active = mux[o].active /\ mux'[o].stopping = FALSE
              /\ callback'[o].at = "out" /\ callback'[o].why = "none"
              /\ UNCHANGED stop_code
           \/ /\ callback[o].why = "failed stop"
              /\ mux'[o].active = mux[o].active /\ mux'[o].stopping = FALSE
              /\ stop_code'[o] = EncodeError
              /\ callback'[o].at = "end" /\ callback'[o].why = "failure"
           \/ /\ callback[o].why = "failure"
              /\ mux'[o].active = mux[o].active /\ mux'[o].stopping = mux[o].stopping
              /\ callback'[o].at = "out" /\ callback'[o].why = "none"
              /\ UNCHANGED stop_code
        /\ UNCHANGED <<life, active, data_active, stopping_event, ending, connected, full_stop,
                       end_thread, api, told, history>>
    BY <1>b, MuxFields, CallbackFields, <1>12 DEF Leave, TypeOK
  <2>2. Created(o)'
    BY <1>a, <1>c, <2>1 DEF OInv, Created, windowVars, history
  <2>3. Fresh(o)'
    BY <1>a, <1>c, <2>1 DEF OInv, Fresh, Untouched, Inside, windowVars, history
  <2>4. Only(o)'
    BY <1>a, <1>c, <2>1 DEF OInv, Only, windowVars, history
  <2>5. Begin(o)'
    BY <1>a, <1>c, <2>1 DEF OInv, Begin, Once, Starting, Inside, windowVars, history
  <2>6. Once(o)'
    BY <1>a, <1>c, <2>1 DEF OInv, Once, Ending, Begin, Starting, Untouched, Inside, windowVars,
       history
  <2>7. Ending(o)'
    BY <1>a, <1>c, <2>1 DEF OInv, Ending, Once, Begin, Starting, Untouched, Inside, windowVars,
       history
  <2>8. Leaving(o)'
    BY <1>a, <1>c, <2>1 DEF OInv, Leaving, Once, Starting, Untouched, Inside, windowVars, history
  <2>9. Event(o)'
    BY <1>a, <1>c, <2>1 DEF OInv, Event, Once, Inside, windowVars, history
  <2>10. Telling(o)'
    BY <1>a, <1>c, <2>1 DEF OInv, Telling, Event, Once, Before, Inside, windowVars, history
  <2> QED BY <2>2, <2>3, <2>4, <2>5, <2>6, <2>7, <2>8, <2>9, <2>10 DEF OInv
<1>13. CASE StopEncoders(o)
  <2>1. /\ end_thread[o] = "encoders" /\ end_thread'[o] = "active"
        /\ ~Inside(o) \/ callback[o].why = "error"
        /\ connected'[o] = FALSE
        /\ UNCHANGED <<life, flags, mux, callback, full_stop, api, told, history>>
    BY <1>b, MuxFields, CallbackFields, <1>13 DEF StopEncoders, EncodersIdle, TypeOK
  <2> QED BY <1>a, <1>c, <2>1, ZenonT(40) DEF OInv, Created, Fresh, Only, Begin, Once, Ending, Leaving, Event,
             Telling, Starting, Untouched, Inside, Before, ApiInv, windowVars, Success,
             EncodeError, flags, history
<1>14. CASE ClearActive(o)
  <2>1. /\ end_thread[o] = "active" /\ end_thread'[o] = "event" /\ active'[o] = FALSE
        /\ UNCHANGED <<life, data_active, stop_code, stopping_event, ending, mux, connected, callback,
                       full_stop, api, told, history>>
    BY <1>b, MuxFields, CallbackFields, <1>14 DEF ClearActive, TypeOK
  <2> QED BY <1>a, <1>c, <2>1, ZenonT(40) DEF OInv, Created, Fresh, Only, Begin, Once, Ending, Leaving, Event,
             Telling, Starting, Untouched, Inside, Before, ApiInv, windowVars, Success,
             EncodeError, history
<1>15. CASE SignalEvent(o)
  <2>1. /\ end_thread[o] = "event" /\ end_thread'[o] = "flag" /\ stopping_event'[o] = TRUE
        /\ UNCHANGED <<life, active, data_active, stop_code, ending, mux, connected, callback,
                       full_stop, api, told, history>>
    BY <1>b, MuxFields, CallbackFields, <1>15 DEF SignalEvent, TypeOK
  <2> QED BY <1>a, <1>c, <2>1, ZenonT(40) DEF OInv, Created, Fresh, Only, Begin, Once, Ending, Leaving, Event,
             Telling, Starting, Untouched, Inside, Before, ApiInv, windowVars, Success,
             EncodeError, history
<1>16. CASE ClearEnding(o)
  <2>1. /\ end_thread[o] = "flag" /\ end_thread'[o] = "done"
        /\ UNCHANGED <<life, active, data_active, stop_code, stopping_event, mux, connected, callback,
                       full_stop, api, told, history>>
    BY <1>b, MuxFields, CallbackFields, <1>16 DEF ClearEnding, TypeOK
  <2> QED BY <1>a, <1>c, <2>1, ZenonT(40) DEF OInv, Created, Fresh, Only, Begin, Once, Ending, Leaving, Event,
             Telling, Starting, Untouched, Inside, Before, ApiInv, windowVars, Success,
             EncodeError, history
<1> QED BY <1>1, <1>2, <1>3, <1>4, <1>5, <1>6, <1>7, <1>8, <1>9, <1>10, <1>11, <1>12, <1>13, <1>14,
           <1>15, <1>16 DEF Threads, CallbackSteps, EndThread

-----------------------------------------------------------------------------
(* The same of the steps of the user's thread *)

LEMMA ApiFields ==
  ASSUME api \in Api
  PROVE  /\ \A step : api' = [api EXCEPT !.at = step] =>
              /\ api'.at = step /\ api'.out = api.out
              /\ api'.force = api.force /\ api'.then = api.then
         /\ api' = Idle => /\ api'.at = "idle" /\ api'.out = 0
                           /\ api'.force = FALSE /\ api'.then = "idle"
         /\ \A o, then : api' = Forced(o, then) => /\ api'.at = "reset" /\ api'.out = o
                                                   /\ api'.force = TRUE /\ api'.then = then
<1>1. ASSUME NEW step, api' = [api EXCEPT !.at = step]
      PROVE  api'.at = step /\ api'.out = api.out /\ api'.force = api.force /\ api'.then = api.then
  BY <1>1 DEF Api
<1>2. ASSUME api' = Idle
      PROVE  api'.at = "idle" /\ api'.out = 0 /\ api'.force = FALSE /\ api'.then = "idle"
  BY <1>2 DEF Idle
<1>3. ASSUME NEW o, NEW then, api' = Forced(o, then)
      PROVE  api'.at = "reset" /\ api'.out = o /\ api'.force = TRUE /\ api'.then = then
  BY <1>3 DEF Forced
<1> QED BY <1>1, <1>2, <1>3

(* An output the user's thread is not at, before and after the step *)
LEMMA Elsewhere ==
  ASSUME NEW q \in Outputs, OInv(q), Same(q), api.out # q, api'.out # q,
         exiting' = "no" => exiting = "no", UNCHANGED recordOutput
  PROVE  OInv(q)'
<1> USE DEF OInv, Same, Success, EncodeError
<1>1. Created(q)'
  BY DEF Created
<1>2. Fresh(q)'
  BY DEF Fresh, Untouched, Inside
<1>3. Only(q)'
  BY DEF Only
<1>4. Begin(q)'
  BY DEF Begin, Starting
<1>5. Once(q)'
  BY DEF Once, Untouched, Inside
<1>6. Ending(q)'
  BY DEF Ending, Starting, Untouched, Inside
<1>7. Leaving(q)'
  BY DEF Leaving, Starting, Untouched, Inside
<1>8. Event(q)'
  BY DEF Event
<1>9. Telling(q)'
  BY DEF Telling, Before
<1> QED BY <1>1, <1>2, <1>3, <1>4, <1>5, <1>6, <1>7, <1>8, <1>9

(* The output it is at *)
LEMMA HookOwn ==
  ASSUME Inv, HookDataCapture, UNCHANGED windowVars, NEW q \in Outputs
  PROVE  OInv(q)'
<1>1. OInv(q) /\ ApiInv /\ TypeOK /\ api \in Api
  BY DEF Inv, Types
<1>2. api.out \in Outputs /\ api'.at = "activate" /\ api'.out = api.out /\ connected'[api.out] = TRUE
  BY <1>1, ApiFields DEF HookDataCapture, ApiInv, TypeOK
<1>3. CASE q # api.out
  <2>1. Same(q)
    BY <1>1, <1>3 DEF HookDataCapture, Same, flags, threads, history, TypeOK
  <2> QED BY <1>1, <1>2, <1>3, <2>1, Elsewhere DEF windowVars
<1>4. CASE q = api.out
  <2> USE DEF OInv, HookDataCapture, flags, threads, history, windowVars
  <2>1. Created(q)' /\ Fresh(q)' /\ Only(q)'
    BY <1>1, <1>2, <1>4 DEF Created, Fresh, Only, Untouched, Inside, ApiInv
  <2>2. Begin(q)'
    BY <1>1, <1>2, <1>4 DEF Begin, Starting
  <2>3. Once(q)'
    BY <1>1, <1>2, <1>4 DEF Once, Untouched, Inside, Begin, Starting
  <2>4. Ending(q)'
    BY <1>1, <1>2, <1>4 DEF Ending, Untouched, Inside, Begin, Starting
  <2>5. Leaving(q)'
    BY <1>1, <1>2, <1>4 DEF Leaving, Begin, Starting, ApiInv
  <2>6. Event(q)' /\ Telling(q)'
    BY <1>1, <1>2, <1>4 DEF Event, Telling, Before
  <2> QED BY <2>1, <2>2, <2>3, <2>4, <2>5, <2>6
<1> QED BY <1>3, <1>4

LEMMA OutputsNat == 0 \notin Outputs /\ (\A o \in Outputs : o \in Nat)
  BY MaxOutputsAssumption DEF Outputs

LEMMA ActivateOwn ==
  ASSUME Inv, Activate, UNCHANGED <<recordOutput, exiting>>, NEW q \in Outputs
  PROVE  OInv(q)'
<1>1. OInv(q) /\ ApiInv /\ TypeOK /\ api \in Api /\ q # 0
  BY OutputsNat DEF Inv, Types
<1>2. /\ api.out \in Outputs /\ api.at = "activate" /\ api'.at = "idle" /\ api'.out = 0
      /\ api.out = recordOutput /\ active'[api.out] = TRUE /\ UNCHANGED <<exiting, recordOutput>>
  BY <1>1, ApiFields DEF Activate, ApiInv, TypeOK
<1>3. CASE q # api.out
  <2>1. Same(q)
    BY <1>1, <1>2, <1>3 DEF Activate, Same, flags, threads, history, TypeOK
  <2> QED BY <1>1, <1>2, <1>3, <2>1, Elsewhere DEF windowVars
<1>4. CASE q = api.out
  <2> USE DEF OInv, Activate, flags, threads, history
  <2>1. Created(q)'
    BY <1>1, <1>2, <1>4, OutputsNat DEF Created, ApiInv, Begin
  <2>2. Fresh(q)'
    BY <1>1, <1>2, <1>4, OutputsNat DEF Fresh, Untouched, Inside, ApiInv, Begin
  <2>3. Only(q)'
    BY <1>1, <1>2, <1>4, OutputsNat DEF Only, ApiInv, Begin
  <2>4. Begin(q)'
    BY <1>1, <1>2, <1>4, OutputsNat DEF Begin, Starting, ApiInv, Begin
  <2>5. Once(q)'
    BY <1>1, <1>2, <1>4, OutputsNat DEF Once, Untouched, Inside, Begin, Starting, ApiInv, Begin
  <2>6. Ending(q)'
    BY <1>1, <1>2, <1>4, OutputsNat DEF Ending, Untouched, Inside, Begin, Starting, ApiInv, Begin
  <2>7. Leaving(q)'
    BY <1>1, <1>2, <1>4, OutputsNat DEF Leaving, Starting, Untouched, Inside, Begin, Ending,
       ApiInv, Begin
  <2>8. Event(q)'
    BY <1>1, <1>2, <1>4, OutputsNat DEF Event, ApiInv, Begin
  <2>9. Telling(q)'
    BY <1>1, <1>2, <1>4, OutputsNat DEF Telling, Before, ApiInv, Begin
  <2> QED BY <2>1, <2>2, <2>3, <2>4, <2>5, <2>6, <2>7, <2>8, <2>9
<1> QED BY <1>3, <1>4

LEMMA StopOwn ==
  ASSUME Inv, Stop(recordOutput), UNCHANGED windowVars, NEW q \in Outputs
  PROVE  OInv(q)'
<1>1. OInv(q) /\ ApiInv /\ TypeOK /\ api \in Api /\ q # 0
  BY OutputsNat DEF Inv, Types
<1>2. /\ api.at = "idle" /\ api'.at = "reset" /\ api'.out = recordOutput /\ api'.then = "idle"
      /\ UNCHANGED <<exiting, recordOutput>>
  BY <1>1 DEF Stop, Idle, windowVars
<1>3. CASE q # recordOutput
  <2>1. Same(q)
    BY <1>1, <1>2, <1>3 DEF Stop, Same, flags, threads, history, TypeOK
  <2> QED BY <1>1, <1>2, <1>3, <2>1, Elsewhere DEF windowVars, ApiInv, Idle
<1>4. CASE q = recordOutput
  <2> USE DEF OInv, Stop, flags, threads, history
  <2>1. Created(q)'
    BY <1>1, <1>2, <1>4, OutputsNat DEF Created
  <2>2. Fresh(q)'
    BY <1>1, <1>2, <1>4, OutputsNat DEF Fresh, Untouched, Inside
  <2>3. Only(q)'
    BY <1>1, <1>2, <1>4, OutputsNat DEF Only
  <2>4. Begin(q)'
    BY <1>1, <1>2, <1>4, OutputsNat DEF Begin, Starting
  <2>5. Once(q)'
    BY <1>1, <1>2, <1>4, OutputsNat DEF Once, Untouched, Inside, Begin, Starting
  <2>6. Ending(q)'
    BY <1>1, <1>2, <1>4, OutputsNat DEF Ending, Untouched, Inside, Begin, Starting
  <2>7. Leaving(q)'
    BY <1>1, <1>2, <1>4, OutputsNat DEF Leaving, Starting, Untouched, Inside, Begin, Ending
  <2>8. Event(q)'
    BY <1>1, <1>2, <1>4, OutputsNat DEF Event
  <2>9. Telling(q)'
    BY <1>1, <1>2, <1>4, OutputsNat DEF Telling, Before
  <2> QED BY <2>1, <2>2, <2>3, <2>4, <2>5, <2>6, <2>7, <2>8, <2>9
<1> QED BY <1>3, <1>4

LEMMA ResetOwn ==
  ASSUME Inv, ResetEvent, UNCHANGED windowVars, NEW q \in Outputs
  PROVE  OInv(q)'
<1>1. OInv(q) /\ ApiInv /\ TypeOK /\ api \in Api /\ q # 0
  BY OutputsNat DEF Inv, Types
<1>2. /\ api.out \in Outputs /\ api.at = "reset" /\ UNCHANGED <<exiting, recordOutput>>
      /\ \/ api'.at = "idle" /\ api'.out = 0 /\ UNCHANGED stopping_event
         \/ /\ api'.at = "flags" /\ api'.out = api.out /\ api'.then = api.then
            /\ stopping_event'[api.out] = FALSE
  BY <1>1, ApiFields DEF ResetEvent, ApiInv, TypeOK, windowVars
<1>3. CASE q # api.out
  <2>1. Same(q)
    BY <1>1, <1>2, <1>3 DEF ResetEvent, Same, flags, threads, history, TypeOK
  <2> QED BY <1>1, <1>2, <1>3, <2>1, Elsewhere DEF windowVars
<1>4. CASE q = api.out
  <2> USE DEF OInv, ResetEvent, flags, threads, history
  <2>1. Created(q)'
    BY <1>1, <1>2, <1>4, OutputsNat DEF Created
  <2>2. Fresh(q)'
    BY <1>1, <1>2, <1>4, OutputsNat DEF Fresh, Untouched, Inside
  <2>3. Only(q)'
    BY <1>1, <1>2, <1>4, OutputsNat DEF Only
  <2>4. Begin(q)'
    BY <1>1, <1>2, <1>4, OutputsNat DEF Begin, Starting
  <2>5. Once(q)'
    BY <1>1, <1>2, <1>4, OutputsNat DEF Once, Untouched, Inside, Begin, Starting
  <2>6. Ending(q)'
    BY <1>1, <1>2, <1>4, OutputsNat DEF Ending, Untouched, Inside, Begin, Starting
  <2>7. Leaving(q)'
    BY <1>1, <1>2, <1>4, OutputsNat DEF Leaving, Starting, Untouched, Inside, Begin, Ending
  <2>8. Event(q)'
    BY <1>1, <1>2, <1>4, OutputsNat DEF Event
  <2>9. Telling(q)'
    BY <1>1, <1>2, <1>4, OutputsNat DEF Telling, Before
  <2> QED BY <2>1, <2>2, <2>3, <2>4, <2>5, <2>6, <2>7, <2>8, <2>9
<1> QED BY <1>3, <1>4

LEMMA MuxStopOwn ==
  ASSUME Inv, MuxStop, UNCHANGED windowVars, NEW q \in Outputs
  PROVE  OInv(q)'
<1>1. OInv(q) /\ ApiInv /\ TypeOK /\ api \in Api /\ q # 0
  BY OutputsNat DEF Inv, Types
<1>2. /\ api.out \in Outputs /\ api.at = "flags" /\ UNCHANGED <<exiting, recordOutput>>
      /\ mux'[api.out].active = mux[api.out].active
      /\ mux'[api.out].stopping \in {mux[api.out].stopping, TRUE}
      /\ \/ api'.at = "idle" /\ api'.out = 0
         \/ api'.at = api.then /\ api'.out = api.out /\ api.then \in {"release", "wait"}
  <2>1. api.out \in Outputs /\ api.at = "flags" /\ UNCHANGED <<exiting, recordOutput>>
    BY <1>1 DEF MuxStop, ApiInv, windowVars
  <2>2. mux \in [Outputs -> Muxer]
    BY <1>1 DEF TypeOK, Muxer
  <2>3. mux' = mux \/ mux' = MuxStopped(api.out)
    BY DEF MuxStop
  <2>4. /\ mux'[api.out].active = mux[api.out].active
        /\ mux'[api.out].stopping \in {mux[api.out].stopping, TRUE}
    BY <2>1, <2>2, <2>3, MuxFields
  <2>5. \/ api'.at = "idle" /\ api'.out = 0
        \/ api'.at = api.then /\ api'.out = api.out /\ api.then \in {"release", "wait"}
    <3>1. api.then \in {"idle", "release", "wait"}
      BY <1>1 DEF Api
    <3> QED BY <1>1, <3>1, ApiFields DEF MuxStop, Return
  <2> QED BY <2>1, <2>4, <2>5
<1>3. CASE q # api.out
  <2>1. Same(q)
    BY <1>1, <1>2, <1>3 DEF MuxStop, MuxStopped, Same, flags, threads, history, TypeOK
  <2> QED BY <1>1, <1>2, <1>3, <2>1, Elsewhere DEF windowVars
<1>4. CASE q = api.out
  <2> USE DEF OInv, MuxStop, flags, threads, history
  <2>1. Created(q)'
    BY <1>1, <1>2, <1>4, OutputsNat DEF Created
  <2>2. Fresh(q)'
    BY <1>1, <1>2, <1>4, OutputsNat DEF Fresh, Untouched, Inside
  <2>3. Only(q)'
    BY <1>1, <1>2, <1>4, OutputsNat DEF Only
  <2>4. Begin(q)'
    BY <1>1, <1>2, <1>4, OutputsNat DEF Begin, Starting
  <2>5. Once(q)'
    BY <1>1, <1>2, <1>4, OutputsNat DEF Once, Untouched, Inside, Begin, Starting
  <2>6. Ending(q)'
    BY <1>1, <1>2, <1>4, OutputsNat DEF Ending, Untouched, Inside, Begin, Starting
  <2>7. Leaving(q)'
    BY <1>1, <1>2, <1>4, OutputsNat DEF Leaving, Starting, Untouched, Inside, Begin, Ending
  <2>8. Event(q)'
    BY <1>1, <1>2, <1>4, OutputsNat DEF Event
  <2>9. Telling(q)'
    BY <1>1, <1>2, <1>4, OutputsNat DEF Telling, Before
  <2> QED BY <2>1, <2>2, <2>3, <2>4, <2>5, <2>6, <2>7, <2>8, <2>9
<1> QED BY <1>3, <1>4

LEMMA ReleaseOwn ==
  ASSUME Inv, Release, UNCHANGED windowVars, NEW q \in Outputs
  PROVE  OInv(q)'
<1>1. OInv(q) /\ ApiInv /\ TypeOK /\ api \in Api /\ q # 0
  BY OutputsNat DEF Inv, Types
<1>2. /\ api.out \in Outputs /\ api.at = "release" /\ api'.out = api.out
      /\ api'.at = "reset" \/ (api'.at = "wait" /\ ~active[api.out])
      /\ UNCHANGED <<exiting, recordOutput>>
  BY <1>1, ApiFields DEF Release, ApiInv, windowVars
<1>3. CASE q # api.out
  <2>1. Same(q)
    BY <1>1, <1>2, <1>3 DEF Release, Same, flags, threads, history, TypeOK
  <2> QED BY <1>1, <1>2, <1>3, <2>1, Elsewhere DEF windowVars
<1>4. CASE q = api.out
  <2> USE DEF OInv, Release, flags, threads, history
  <2>1. Created(q)'
    BY <1>1, <1>2, <1>4, OutputsNat DEF Created
  <2>2. Fresh(q)'
    BY <1>1, <1>2, <1>4, OutputsNat DEF Fresh, Untouched, Inside
  <2>3. Only(q)'
    BY <1>1, <1>2, <1>4, OutputsNat DEF Only
  <2>4. Begin(q)'
    BY <1>1, <1>2, <1>4, OutputsNat DEF Begin, Starting
  <2>5. Once(q)'
    BY <1>1, <1>2, <1>4, OutputsNat DEF Once, Untouched, Inside, Begin, Starting
  <2>6. Ending(q)'
    BY <1>1, <1>2, <1>4, OutputsNat DEF Ending, Untouched, Inside, Begin, Starting
  <2>7. Leaving(q)'
    BY <1>1, <1>2, <1>4, OutputsNat DEF Leaving, Starting, Untouched, Inside, Begin, Ending
  <2>8. Event(q)'
    BY <1>1, <1>2, <1>4, OutputsNat DEF Event
  <2>9. Telling(q)'
    BY <1>1, <1>2, <1>4, OutputsNat DEF Telling, Before
  <2> QED BY <2>1, <2>2, <2>3, <2>4, <2>5, <2>6, <2>7, <2>8, <2>9
<1> QED BY <1>3, <1>4

LEMMA WaitOwn ==
  ASSUME Inv, WaitStopped, UNCHANGED windowVars, NEW q \in Outputs
  PROVE  OInv(q)'
<1>1. OInv(q) /\ ApiInv /\ TypeOK /\ api \in Api /\ q # 0
  BY OutputsNat DEF Inv, Types
<1>2. /\ api.out \in Outputs /\ api.at = "wait" /\ stopping_event[api.out]
      /\ api'.out = api.out /\ api'.at = "join" /\ UNCHANGED <<exiting, recordOutput>>
  BY <1>1, ApiFields DEF WaitStopped, ApiInv, windowVars
<1>3. CASE q # api.out
  <2>1. Same(q)
    BY <1>1, <1>2, <1>3 DEF WaitStopped, Same, flags, threads, history, TypeOK
  <2> QED BY <1>1, <1>2, <1>3, <2>1, Elsewhere DEF windowVars
<1>4. CASE q = api.out
  <2> USE DEF OInv, WaitStopped, flags, threads, history
  <2>1. Created(q)'
    BY <1>1, <1>2, <1>4, OutputsNat DEF Created
  <2>2. Fresh(q)'
    BY <1>1, <1>2, <1>4, OutputsNat DEF Fresh, Untouched, Inside
  <2>3. Only(q)'
    BY <1>1, <1>2, <1>4, OutputsNat DEF Only
  <2>4. Begin(q)'
    BY <1>1, <1>2, <1>4, OutputsNat DEF Begin, Starting
  <2>5. Once(q)'
    BY <1>1, <1>2, <1>4, OutputsNat DEF Once, Untouched, Inside, Begin, Starting
  <2>6. Ending(q)'
    BY <1>1, <1>2, <1>4, OutputsNat DEF Ending, Untouched, Inside, Begin, Starting
  <2>7. Leaving(q)'
    BY <1>1, <1>2, <1>4, OutputsNat DEF Leaving, Starting, Untouched, Inside, Begin, Ending
  <2>8. Event(q)'
    BY <1>1, <1>2, <1>4, OutputsNat DEF Event
  <2>9. Telling(q)'
    BY <1>1, <1>2, <1>4, OutputsNat DEF Telling, Before
  <2> QED BY <2>1, <2>2, <2>3, <2>4, <2>5, <2>6, <2>7, <2>8, <2>9
<1> QED BY <1>3, <1>4

LEMMA DestroyOwn ==
  ASSUME Inv, Destroy, UNCHANGED windowVars, NEW q \in Outputs
  PROVE  OInv(q)'
<1>1. OInv(q) /\ ApiInv /\ TypeOK /\ api \in Api /\ q # 0
  BY OutputsNat DEF Inv, Types
<1>2. /\ api.out \in Outputs /\ api.at = "join" /\ life[api.out] = "live"
      /\ end_thread[api.out] \in {"none", "done"} /\ life'[api.out] = "destroyed"
      /\ api'.out = 0 /\ api'.at = "idle" /\ UNCHANGED <<exiting, recordOutput>>
  <2>1. api.out \in Outputs /\ api.at = "join" /\ life[api.out] = "live"
    BY <1>1 DEF Destroy, ApiInv
  <2>2. end_thread[api.out] \in {"none", "done"}
    BY <1>1, <2>1 DEF Destroy, TypeOK
  <2>3. life'[api.out] = "destroyed" /\ UNCHANGED <<exiting, recordOutput>>
    BY <1>1, <2>1 DEF Destroy, TypeOK, windowVars
  <2> QED BY <1>1, <2>1, <2>2, <2>3, ApiFields DEF Destroy
<1>3. CASE q # api.out
  <2>1. Same(q)
    BY <1>1, <1>2, <1>3 DEF Destroy, Same, flags, threads, history, TypeOK
  <2> QED BY <1>1, <1>2, <1>3, <2>1, Elsewhere DEF windowVars
<1>4. CASE q = api.out
  <2> USE DEF OInv, Destroy, flags, threads, history
  <2>1. Created(q)'
    BY <1>1, <1>2, <1>4, OutputsNat DEF Created
  <2>2. Fresh(q)'
    BY <1>1, <1>2, <1>4, OutputsNat DEF Fresh, Untouched, Inside
  <2>3. Only(q)'
    BY <1>1, <1>2, <1>4, OutputsNat DEF Only
  <2>4. Begin(q)'
    BY <1>1, <1>2, <1>4, OutputsNat DEF Begin, Starting
  <2>5. Once(q)'
    BY <1>1, <1>2, <1>4, OutputsNat DEF Once, Untouched, Inside, Begin, Starting
  <2>6. Ending(q)'
    BY <1>1, <1>2, <1>4, OutputsNat DEF Ending, Untouched, Inside, Begin, Starting
  <2>7. Leaving(q)'
    BY <1>1, <1>2, <1>4, OutputsNat DEF Leaving, Starting, Untouched, Inside, Begin, Ending
  <2>8. Event(q)'
    BY <1>1, <1>2, <1>4, OutputsNat DEF Event
  <2>9. Telling(q)'
    BY <1>1, <1>2, <1>4, OutputsNat DEF Telling, Before
  <2> QED BY <2>1, <2>2, <2>3, <2>4, <2>5, <2>6, <2>7, <2>8, <2>9
<1> QED BY <1>3, <1>4

(* The outputs before one that is made *)
LEMMA Earlier ==
  ASSUME Inv, StartRecording, NEW q \in Outputs, q # NextOutput, Same(q), api'.out = NextOutput
  PROVE  OInv(q)'
<1>1. OInv(q) /\ ApiInv /\ api = Idle /\ recordOutput' = recordOutput + 1 /\ UNCHANGED exiting
  BY DEF Inv, StartRecording, Start, StartFails, NextOutput
<1>2. recordOutput \in Nat /\ q \in Nat
  <2>1. recordOutput \in Outputs \cup {0}
    BY DEF Inv, Types, TypeOK
  <2> QED BY <2>1, MaxOutputsAssumption DEF Outputs
<1>3. api.out = 0 /\ api.at = "idle" /\ api.out # q /\ api'.out # q
  BY <1>1, <1>2, OutputsNat DEF Idle
<1> USE DEF OInv, Same, Success, EncodeError
<1>4. Created(q)'
  BY <1>1, <1>2 DEF Created, NextOutput
<1>5. Fresh(q)'
  BY <1>1 DEF Fresh, Untouched, Inside
<1>6. Only(q)'
  <2>1. q < recordOutput' => q < recordOutput \/ q = recordOutput
    BY <1>1, <1>2
  <2>2. q = recordOutput => ~active[q]
    BY OutputsNat DEF StartRecording, RecordingActive
  <2> QED BY <1>1, <2>1, <2>2 DEF Only
<1>7. Begin(q)'
  BY <1>3 DEF Begin, Starting
<1>8. Once(q)'
  BY <1>1 DEF Once, Untouched, Inside
<1>9. Ending(q)'
  BY <1>1, <1>3 DEF Ending, Starting, Untouched, Inside
<1>10. Leaving(q)'
  BY <1>1, <1>3 DEF Leaving, Starting, Untouched, Inside
<1>11. Event(q)'
  BY <1>1, <1>3 DEF Event
<1>12. Telling(q)'
  BY <1>1 DEF Telling, Before
<1> QED BY <1>4, <1>5, <1>6, <1>7, <1>8, <1>9, <1>10, <1>11, <1>12

(* An output that is made and started, or fails to *)
LEMMA StartOwn ==
  ASSUME Inv, StartRecording, NEW q \in Outputs
  PROVE  OInv(q)'
<1>1. OInv(q) /\ ApiInv /\ TypeOK /\ NextOutput \in Outputs /\ recordOutput' = NextOutput /\ UNCHANGED exiting
  BY DEF Inv, Types, StartRecording
<1>2. recordOutput \in Nat /\ q \in Nat /\ NextOutput > recordOutput
  <2>1. recordOutput \in Outputs \cup {0}
    BY <1>1 DEF TypeOK
  <2> QED BY <2>1, MaxOutputsAssumption DEF Outputs, NextOutput
<1>3. CASE Start(NextOutput)
  <2>1. /\ life'[NextOutput] = "live" /\ mux'[NextOutput].active = TRUE /\ mux'[NextOutput].stopping = FALSE
        /\ data_active'[NextOutput] = TRUE /\ api'.at = "hook" /\ api'.out = NextOutput
        /\ life[NextOutput] = "none"
    BY <1>1, <1>3 DEF Start, Idle, TypeOK
  <2>2. CASE q # NextOutput
    <3>1. Same(q)
      BY <1>1, <1>3, <2>2 DEF Start, Same, flags, threads, history, TypeOK
    <3> QED BY <2>1, <2>2, <3>1, Earlier
  <2>3. CASE q = NextOutput
    <3> USE DEF OInv, Start, flags, threads, history
    <3>1. Created(q)'
      BY <1>1, <1>2, <1>3, <2>1, <2>3 DEF Created, NextOutput, Untouched, Inside
    <3>2. Fresh(q)'
      BY <1>1, <1>2, <1>3, <2>1, <2>3 DEF Fresh, Untouched, Inside, Created
    <3>3. Only(q)'
      BY <1>1, <1>2, <1>3, <2>1, <2>3 DEF Only, Untouched, Inside
    <3>4. Begin(q)'
      BY <1>1, <1>2, <1>3, <2>1, <2>3 DEF Begin, Starting, Fresh, Created, Untouched, Inside
    <3>5. Once(q)'
      BY <1>1, <1>2, <1>3, <2>1, <2>3 DEF Once, Untouched, Inside, Begin, Starting, Fresh, Created
    <3>6. Ending(q)'
      BY <1>1, <1>2, <1>3, <2>1, <2>3 DEF Ending, Untouched, Inside, Begin, Starting, Fresh, Created
    <3>7. Leaving(q)'
      BY <1>1, <1>2, <1>3, <2>1, <2>3 DEF Leaving, Starting, Untouched, Inside, Begin, Ending,
         Fresh, Created
    <3>8. Event(q)'
      BY <1>1, <1>2, <1>3, <2>1, <2>3 DEF Event, Fresh, Created, Untouched, Inside
    <3>9. Telling(q)'
      BY <1>1, <1>2, <1>3, <2>1, <2>3 DEF Telling, Before, Fresh, Created, Untouched, Inside
    <3> QED BY <3>1, <3>2, <3>3, <3>4, <3>5, <3>6, <3>7, <3>8, <3>9
  <2> QED BY <2>2, <2>3
<1>4. CASE StartFails(NextOutput)
  <2>1. /\ life'[NextOutput] = "live" /\ api'.at = "reset" /\ api'.out = NextOutput
        /\ life[NextOutput] = "none"
    BY <1>1, <1>4 DEF StartFails, Forced, TypeOK
  <2>2. CASE q # NextOutput
    <3>1. Same(q)
      BY <1>1, <1>4, <2>2 DEF StartFails, Same, flags, threads, history, TypeOK
    <3> QED BY <2>1, <2>2, <3>1, Earlier
  <2>3. CASE q = NextOutput
    <3> USE DEF OInv, StartFails, flags, threads, history
    <3>1. Created(q)'
      BY <1>1, <1>2, <1>4, <2>1, <2>3 DEF Created, NextOutput, Untouched, Inside
    <3>2. Fresh(q)'
      BY <1>1, <1>2, <1>4, <2>1, <2>3 DEF Fresh, Untouched, Inside, Created
    <3>3. Only(q)'
      BY <1>1, <1>2, <1>4, <2>1, <2>3 DEF Only, Untouched, Inside
    <3>4. Begin(q)'
      BY <1>1, <1>2, <1>4, <2>1, <2>3 DEF Begin, Starting, Fresh, Created, Untouched, Inside
    <3>5. Once(q)'
      BY <1>1, <1>2, <1>4, <2>1, <2>3 DEF Once, Untouched, Inside, Begin, Starting, Fresh, Created
    <3>6. Ending(q)'
      BY <1>1, <1>2, <1>4, <2>1, <2>3 DEF Ending, Untouched, Inside, Begin, Starting, Fresh, Created
    <3>7. Leaving(q)'
      BY <1>1, <1>2, <1>4, <2>1, <2>3 DEF Leaving, Starting, Untouched, Inside, Begin, Ending,
         Fresh, Created
    <3>8. Event(q)'
      BY <1>1, <1>2, <1>4, <2>1, <2>3 DEF Event, Fresh, Created, Untouched, Inside
    <3>9. Telling(q)'
      BY <1>1, <1>2, <1>4, <2>1, <2>3 DEF Telling, Before, Fresh, Created, Untouched, Inside
    <3> QED BY <3>1, <3>2, <3>3, <3>4, <3>5, <3>6, <3>7, <3>8, <3>9
  <2> QED BY <2>2, <2>3
<1> QED BY <1>3, <1>4 DEF StartRecording

(* The output the window leaves behind, and those obs_shutdown() finds *)
LEMMA ExitOwn ==
  ASSUME Inv, Exit, NEW q \in Outputs
  PROVE  OInv(q)'
<1>1. /\ OInv(q) /\ ApiInv /\ TypeOK /\ q # 0 /\ api.at = "idle" /\ api.out = 0
      /\ exiting = "no" /\ exiting' # "no" /\ UNCHANGED recordOutput
  BY OutputsNat DEF Inv, Types, Exit, Idle
<1>2. CASE recordOutput = 0
  <2>1. Same(q) /\ UNCHANGED api
    BY <1>2 DEF Exit, lifeVars, flags, threads, history, Same
  <2> QED BY <1>1, <2>1, Elsewhere
<1>3. CASE recordOutput # 0
  <2>1. ForceStop(recordOutput, "release") /\ api'.at = "reset" /\ api'.out = recordOutput /\ api'.then = "release"
    BY <1>3 DEF Exit, ForceStop, Forced
  <2>2. CASE q # recordOutput
    <3>1. Same(q)
      BY <1>1, <2>1, <2>2 DEF ForceStop, CodeAfterForce, Same, flags, threads, history, TypeOK
    <3> QED BY <1>1, <2>1, <2>2, <3>1, Elsewhere
  <2>3. CASE q = recordOutput
    <3>1. stop_code'[q] = IF stopping_event[q] THEN Success ELSE stop_code[q]
      BY <1>1, <2>1, <2>3 DEF ForceStop, CodeAfterForce, TypeOK
    <3> USE DEF OInv, ForceStop, flags, threads, history
    <3>2. Created(q)'
      BY <1>1, <2>1, <2>3, <3>1 DEF Created
    <3>3. Fresh(q)'
      BY <1>1, <2>1, <2>3, <3>1 DEF Fresh, Untouched, Inside
    <3>4. Only(q)'
      BY <1>1, <2>1, <2>3, <3>1 DEF Only
    <3>5. Begin(q)'
      BY <1>1, <2>1, <2>3, <3>1 DEF Begin, Starting
    <3>6. Once(q)'
      BY <1>1, <2>1, <2>3, <3>1 DEF Once, Untouched, Inside, Begin, Starting
    <3>7. Ending(q)'
      BY <1>1, <2>1, <2>3, <3>1 DEF Ending, Untouched, Inside, Begin, Starting
    <3>8. Leaving(q)'
      BY <1>1, <2>1, <2>3, <3>1 DEF Leaving, Starting, Untouched, Inside, Begin, Ending
    <3>9. Event(q)'
      BY <1>1, <2>1, <2>3, <3>1 DEF Event
    <3>10. Telling(q)'
      BY <1>1, <2>1, <2>3, <3>1 DEF Telling, Before
    <3> QED BY <3>2, <3>3, <3>4, <3>5, <3>6, <3>7, <3>8, <3>9, <3>10
  <2> QED BY <2>2, <2>3
<1> QED BY <1>2, <1>3

LEMMA ShutDownOwn ==
  ASSUME Inv, ShutDown, NEW q \in Outputs
  PROVE  OInv(q)'
<1>1. /\ OInv(q) /\ ApiInv /\ TypeOK /\ q # 0 /\ api.at = "idle" /\ api.out = 0
      /\ exiting # "no" /\ exiting' # "no" /\ UNCHANGED recordOutput
  BY OutputsNat DEF Inv, Types, ShutDown, Idle
<1>2. CASE LeftBehind = {}
  <2>1. Same(q) /\ UNCHANGED api
    BY <1>2 DEF ShutDown, lifeVars, flags, threads, history, Same
  <2> QED BY <1>1, <2>1, Elsewhere
<1>3. CASE LeftBehind # {}
  <2>1. PICK o \in LeftBehind : api' = [Idle EXCEPT !.at = "release", !.out = o]
    BY <1>3 DEF ShutDown
  <2>2. Same(q) /\ api'.at = "release" /\ api'.out = o /\ life[o] = "live"
    BY <1>3, <2>1 DEF ShutDown, flags, threads, history, Same, Idle, LeftBehind
  <2>3. CASE q # o
    BY <1>1, <2>2, <2>3, Elsewhere
  <2>4. CASE q = o
    <3> USE DEF OInv, Same
    <3>1. Created(q)'
      BY <1>1, <2>2, <2>4 DEF Created
    <3>2. Fresh(q)'
      BY <1>1, <2>2, <2>4 DEF Fresh, Untouched, Inside
    <3>3. Only(q)'
      BY <1>1, <2>2, <2>4 DEF Only
    <3>4. Begin(q)'
      BY <1>1, <2>2, <2>4 DEF Begin, Starting
    <3>5. Once(q)'
      BY <1>1, <2>2, <2>4 DEF Once, Untouched, Inside, Begin, Starting
    <3>6. Ending(q)'
      BY <1>1, <2>2, <2>4 DEF Ending, Untouched, Inside, Begin, Starting
    <3>7. Leaving(q)'
      BY <1>1, <2>2, <2>4 DEF Leaving, Starting, Untouched, Inside, Begin, Ending
    <3>8. Event(q)'
      BY <1>1, <2>2, <2>4 DEF Event
    <3>9. Telling(q)'
      BY <1>1, <2>2, <2>4, ZenonT(30) DEF Telling, Before
    <3> QED BY <3>1, <3>2, <3>3, <3>4, <3>5, <3>6, <3>7, <3>8, <3>9
  <2> QED BY <2>3, <2>4
<1> QED BY <1>2, <1>3
-----------------------------------------------------------------------------
(* The types *)

(* The types of what has no records in it *)
Rest == /\ life \in [Outputs -> {"none", "live", "destroyed"}]
        /\ active \in [Outputs -> BOOLEAN] /\ data_active \in [Outputs -> BOOLEAN]
        /\ stop_code \in [Outputs -> {Success, EncodeError}]
        /\ stopping_event \in [Outputs -> BOOLEAN] /\ ending \in [Outputs -> BOOLEAN]
        /\ connected \in [Outputs -> BOOLEAN]
        /\ full_stop \in [Outputs -> {"no", "reset", "flags", "packet", "detach", "done"}]
        /\ end_thread \in [Outputs -> {"none", "encoders", "active", "event", "flag", "done"}]
        /\ failed \subseteq Outputs /\ errored \subseteq Outputs /\ early \subseteq Outputs
Joined(o) == ending[o] = (end_thread[o] \in {"encoders", "active", "event", "flag"})
Shell == /\ recordOutput \in Outputs \cup {0} /\ recordingActive \in BOOLEAN /\ overtaken \in BOOLEAN
         /\ exiting \in {"no", "window", "libobs", "gone"}
Parts == /\ Rest /\ mux \in [Outputs -> Muxer] /\ callback \in [Outputs -> Caller] /\ api \in Api
         /\ signals \in Seq(Signal) /\ told \in [Outputs -> Told] /\ \A o \in Outputs : Joined(o)
         /\ Shell

(* The types again, in the groups that the steps change *)
LEMMA TypesParts == Types <=> Parts
<1>1. Types => Parts
  BY DEF Types, Parts, TypeOK, Rest, Shell, Joined, Muxer, Caller
<1>2. ASSUME Parts PROVE Types
  <2>1. api.out \in Outputs \cup {0}
    BY <1>2 DEF Parts, Api
  <2>2. \A i \in DOMAIN signals : signals[i].out \in Outputs
    <3>1. \A i \in 1 .. Len(signals) : signals[i] \in Signal
      BY <1>2, ElementOfSeq DEF Parts
    <3> QED BY <1>2, <3>1, LenProperties DEF Parts, Signal
  <2> QED BY <1>2, <2>1, <2>2 DEF Types, Parts, TypeOK, Rest, Shell, Joined, Muxer, Caller
<1> QED BY <1>1, <1>2

(* Updates of one field keep the type. *)
LEMMA MuxTyped ==
  ASSUME mux \in [Outputs -> Muxer], NEW o \in Outputs, NEW b \in BOOLEAN
  PROVE  /\ [mux EXCEPT ![o].active = b] \in [Outputs -> Muxer]
         /\ [mux EXCEPT ![o].stopping = b] \in [Outputs -> Muxer]
         /\ [mux EXCEPT ![o].capturing = b] \in [Outputs -> Muxer]
         /\ MuxStopped(o) \in [Outputs -> Muxer]
<1>1. [mux EXCEPT ![o].active = b] \in [Outputs -> Muxer]
  BY DEF Muxer
<1>2. [mux EXCEPT ![o].stopping = b] \in [Outputs -> Muxer]
  BY DEF Muxer
<1>3. [mux EXCEPT ![o].capturing = b] \in [Outputs -> Muxer]
  BY DEF Muxer
<1>4. MuxStopped(o) \in [Outputs -> Muxer]
  BY DEF Muxer, MuxStopped
<1> QED BY <1>1, <1>2, <1>3, <1>4

LEMMA CallbackTyped ==
  ASSUME callback \in [Outputs -> Caller], NEW o \in Outputs
  PROVE  /\ \A why \in {"stop", "failed stop", "failure", "error"} :
              Enter(o, why) => callback' \in [Outputs -> Caller]
         /\ \A step \in {"create", "signal", "leave"} :
              At(o, step) => callback' \in [Outputs -> Caller]
         /\ [callback EXCEPT ![o] = Out] \in [Outputs -> Caller]
<1>1. ASSUME NEW why \in {"stop", "failed stop", "failure", "error"}, Enter(o, why)
      PROVE  callback' \in [Outputs -> Caller]
  BY <1>1 DEF Enter, Caller
<1>2. ASSUME NEW step \in {"create", "signal", "leave"}, At(o, step)
      PROVE  callback' \in [Outputs -> Caller]
  BY <1>2 DEF At, Caller
<1>3. [callback EXCEPT ![o] = Out] \in [Outputs -> Caller]
  BY DEF Out, Caller
<1> QED BY <1>1, <1>2, <1>3

(* signal_stop() *)
LEMMA SignalTyped ==
  ASSUME Parts, NEW o \in Outputs, SignalStop(o)
  PROVE  /\ signals' \in Seq(Signal) /\ told' \in [Outputs -> Told]
         /\ stop_code' \in [Outputs -> {Success, EncodeError}]
<1>1. stop_code[o] \in {Success, EncodeError} /\ told[o] \in Told
  BY DEF Parts, Rest
<1>2. [out |-> o, code |-> stop_code[o]] \in Signal
  BY <1>1 DEF Signal
<1>3. signals' \in Seq(Signal)
  BY <1>2, AppendProperties DEF SignalStop, Parts
<1>4. Append(told[o], stop_code[o]) \in Told
  BY <1>1, AppendProperties DEF Told
<1>5. told' \in [Outputs -> Told]
  BY <1>4 DEF SignalStop, Parts
<1> QED BY <1>3, <1>5 DEF SignalStop, Parts, Rest

LEMMA ThreadTypes ==
  ASSUME Parts, NEW o \in Outputs, Threads(o)
  PROVE  Parts'
<1>a. UNCHANGED windowVars /\ UNCHANGED api
  BY DEF Threads, PacketStops, WriteFails, EncoderFails, CallbackSteps, EndThread, FullStopReset,
     FullStopFlags,
         FullStopPacket, FullStopDetach, EndNothing, EndDataCapture, CreateEndThread, SignalEnd, Leave,
         StopEncoders, ClearActive, SignalEvent, ClearEnding
<1>b. Shell' /\ api' \in Api
  BY <1>a DEF Parts, Shell, windowVars, Api
<1>1. CASE PacketStops(o)
  <2>1. Rest'
    BY <1>1 DEF PacketStops, Parts, Rest, flags, history
  <2>2. mux' \in [Outputs -> Muxer]
    BY <1>1, MuxTyped DEF PacketStops, Parts
  <2>3. callback' \in [Outputs -> Caller]
    BY <1>1, CallbackTyped DEF PacketStops, Parts
  <2>4. signals' \in Seq(Signal) /\ told' \in [Outputs -> Told]
    BY <1>1 DEF PacketStops, Parts
  <2>5. \A q \in Outputs : Joined(q)'
    BY <1>1 DEF PacketStops, Parts, Rest, Joined, flags, history
  <2> QED BY <1>b, <2>1, <2>2, <2>3, <2>4, <2>5 DEF Parts
<1>2. CASE WriteFails(o)
  <2>1. Rest'
    BY <1>2 DEF WriteFails, Parts, Rest, flags, history
  <2>2. mux' \in [Outputs -> Muxer]
    BY <1>2, MuxTyped DEF WriteFails, Parts
  <2>3. callback' \in [Outputs -> Caller]
    BY <1>2, CallbackTyped DEF WriteFails, Parts
  <2>4. signals' \in Seq(Signal) /\ told' \in [Outputs -> Told]
    BY <1>2 DEF WriteFails, Parts
  <2>5. \A q \in Outputs : Joined(q)'
    BY <1>2 DEF WriteFails, Parts, Rest, Joined, flags, history
  <2> QED BY <1>b, <2>1, <2>2, <2>3, <2>4, <2>5 DEF Parts
<1>3. CASE EncoderFails(o)
  <2>1. Rest'
    BY <1>3 DEF EncoderFails, CodeAfterForce, Parts, Rest, flags, history
  <2>2. mux' \in [Outputs -> Muxer]
    BY <1>3, MuxTyped DEF EncoderFails, Parts
  <2>3. callback' \in [Outputs -> Caller]
    BY <1>3, CallbackTyped DEF EncoderFails, Parts
  <2>4. signals' \in Seq(Signal) /\ told' \in [Outputs -> Told]
    BY <1>3 DEF EncoderFails, Parts
  <2>5. \A q \in Outputs : Joined(q)'
    BY <1>3 DEF EncoderFails, Parts, Rest, Joined, flags, history
  <2> QED BY <1>b, <2>1, <2>2, <2>3, <2>4, <2>5 DEF Parts
<1>4. CASE FullStopReset(o)
  <2>1. Rest'
    BY <1>4 DEF FullStopReset, Parts, Rest, flags, history
  <2>2. mux' \in [Outputs -> Muxer]
    BY <1>4, MuxTyped DEF FullStopReset, Parts
  <2>3. callback' \in [Outputs -> Caller]
    BY <1>4, CallbackTyped DEF FullStopReset, Parts
  <2>4. signals' \in Seq(Signal) /\ told' \in [Outputs -> Told]
    BY <1>4 DEF FullStopReset, Parts
  <2>5. \A q \in Outputs : Joined(q)'
    BY <1>4 DEF FullStopReset, Parts, Rest, Joined, flags, history
  <2> QED BY <1>b, <2>1, <2>2, <2>3, <2>4, <2>5 DEF Parts
<1>5. CASE FullStopFlags(o)
  <2>1. Rest'
    BY <1>5 DEF FullStopFlags, Parts, Rest, flags, history
  <2>2. mux' \in [Outputs -> Muxer]
    BY <1>5, MuxTyped DEF FullStopFlags, Parts
  <2>3. callback' \in [Outputs -> Caller]
    BY <1>5, CallbackTyped DEF FullStopFlags, Parts
  <2>4. signals' \in Seq(Signal) /\ told' \in [Outputs -> Told]
    BY <1>5 DEF FullStopFlags, Parts
  <2>5. \A q \in Outputs : Joined(q)'
    BY <1>5 DEF FullStopFlags, Parts, Rest, Joined, flags, history
  <2> QED BY <1>b, <2>1, <2>2, <2>3, <2>4, <2>5 DEF Parts
<1>6. CASE FullStopPacket(o)
  <2>1. Rest'
    BY <1>6 DEF FullStopPacket, Parts, Rest, flags, history
  <2>2. mux' \in [Outputs -> Muxer]
    BY <1>6, MuxTyped DEF FullStopPacket, Parts
  <2>3. callback' \in [Outputs -> Caller]
    BY <1>6, CallbackTyped DEF FullStopPacket, Parts
  <2>4. signals' \in Seq(Signal) /\ told' \in [Outputs -> Told]
    BY <1>6 DEF FullStopPacket, Parts
  <2>5. \A q \in Outputs : Joined(q)'
    BY <1>6 DEF FullStopPacket, Parts, Rest, Joined, flags, history
  <2> QED BY <1>b, <2>1, <2>2, <2>3, <2>4, <2>5 DEF Parts
<1>7. CASE FullStopDetach(o)
  <2>1. Rest'
    BY <1>7 DEF FullStopDetach, Parts, Rest, flags, history
  <2>2. mux' \in [Outputs -> Muxer]
    BY <1>7, MuxTyped DEF FullStopDetach, Parts
  <2>3. callback' \in [Outputs -> Caller]
    BY <1>7, CallbackTyped DEF FullStopDetach, Parts
  <2>4. signals' \in Seq(Signal) /\ told' \in [Outputs -> Told]
    BY <1>7 DEF FullStopDetach, Parts
  <2>5. \A q \in Outputs : Joined(q)'
    BY <1>7 DEF FullStopDetach, Parts, Rest, Joined, flags, history
  <2> QED BY <1>b, <2>1, <2>2, <2>3, <2>4, <2>5 DEF Parts
<1>8. CASE EndNothing(o)
  <2>1. Rest'
    BY <1>8, SignalTyped DEF EndNothing, Parts, Rest, flags, history
  <2>2. mux' \in [Outputs -> Muxer]
    BY <1>8, MuxTyped DEF EndNothing, Parts
  <2>3. callback' \in [Outputs -> Caller]
    BY <1>8, CallbackTyped DEF EndNothing, Parts
  <2>4. signals' \in Seq(Signal) /\ told' \in [Outputs -> Told]
    BY <1>8, SignalTyped DEF EndNothing, Parts
  <2>5. \A q \in Outputs : Joined(q)'
    BY <1>8 DEF EndNothing, Parts, Rest, Joined, flags, history
  <2> QED BY <1>b, <2>1, <2>2, <2>3, <2>4, <2>5 DEF Parts
<1>9. CASE EndDataCapture(o)
  <2>1. Rest'
    BY <1>9 DEF EndDataCapture, Parts, Rest, flags, history
  <2>2. mux' \in [Outputs -> Muxer]
    BY <1>9, MuxTyped DEF EndDataCapture, Parts
  <2>3. callback' \in [Outputs -> Caller]
    BY <1>9, CallbackTyped DEF EndDataCapture, Parts
  <2>4. signals' \in Seq(Signal) /\ told' \in [Outputs -> Told]
    BY <1>9 DEF EndDataCapture, Parts
  <2>5. \A q \in Outputs : Joined(q)'
    BY <1>9 DEF EndDataCapture, Parts, Rest, Joined, flags, history
  <2> QED BY <1>b, <2>1, <2>2, <2>3, <2>4, <2>5 DEF Parts
<1>10. CASE CreateEndThread(o)
  <2>1. Rest'
    BY <1>10 DEF CreateEndThread, Parts, Rest, flags, history
  <2>2. mux' \in [Outputs -> Muxer]
    BY <1>10, MuxTyped DEF CreateEndThread, Parts
  <2>3. callback' \in [Outputs -> Caller]
    BY <1>10, CallbackTyped DEF CreateEndThread, Parts
  <2>4. signals' \in Seq(Signal) /\ told' \in [Outputs -> Told]
    BY <1>10 DEF CreateEndThread, Parts
  <2>5. \A q \in Outputs : Joined(q)'
    BY <1>10 DEF CreateEndThread, Parts, Rest, Joined, flags, history
  <2> QED BY <1>b, <2>1, <2>2, <2>3, <2>4, <2>5 DEF Parts
<1>11. CASE SignalEnd(o)
  <2>1. Rest'
    BY <1>11, SignalTyped DEF SignalEnd, Parts, Rest, flags, history
  <2>2. mux' \in [Outputs -> Muxer]
    BY <1>11, MuxTyped DEF SignalEnd, Parts
  <2>3. callback' \in [Outputs -> Caller]
    BY <1>11, CallbackTyped DEF SignalEnd, Parts
  <2>4. signals' \in Seq(Signal) /\ told' \in [Outputs -> Told]
    BY <1>11, SignalTyped DEF SignalEnd, Parts
  <2>5. \A q \in Outputs : Joined(q)'
    BY <1>11 DEF SignalEnd, Parts, Rest, Joined, flags, history
  <2> QED BY <1>b, <2>1, <2>2, <2>3, <2>4, <2>5 DEF Parts
<1>12. CASE Leave(o)
  <2>1. Rest'
    BY <1>12 DEF Leave, Parts, Rest, flags, history
  <2>2. mux' \in [Outputs -> Muxer]
    <3>1. \/ mux' = [mux EXCEPT ![o].stopping = FALSE]
          \/ mux' = [mux EXCEPT ![o].capturing = FALSE]
      BY <1>12 DEF Leave
    <3> QED BY <3>1, MuxTyped DEF Parts
  <2>3. callback' \in [Outputs -> Caller]
    BY <1>12, CallbackTyped DEF Leave, Parts
  <2>4. signals' \in Seq(Signal) /\ told' \in [Outputs -> Told]
    BY <1>12 DEF Leave, Parts
  <2>5. \A q \in Outputs : Joined(q)'
    BY <1>12 DEF Leave, Parts, Rest, Joined, flags, history
  <2> QED BY <1>b, <2>1, <2>2, <2>3, <2>4, <2>5 DEF Parts
<1>13. CASE StopEncoders(o)
  <2>1. Rest'
    BY <1>13 DEF StopEncoders, Parts, Rest, flags, history
  <2>2. mux' \in [Outputs -> Muxer]
    BY <1>13, MuxTyped DEF StopEncoders, Parts
  <2>3. callback' \in [Outputs -> Caller]
    BY <1>13, CallbackTyped DEF StopEncoders, Parts
  <2>4. signals' \in Seq(Signal) /\ told' \in [Outputs -> Told]
    BY <1>13 DEF StopEncoders, Parts
  <2>5. \A q \in Outputs : Joined(q)'
    BY <1>13 DEF StopEncoders, Parts, Rest, Joined, flags, history
  <2> QED BY <1>b, <2>1, <2>2, <2>3, <2>4, <2>5 DEF Parts
<1>14. CASE ClearActive(o)
  <2>1. Rest'
    BY <1>14 DEF ClearActive, Parts, Rest, flags, history
  <2>2. mux' \in [Outputs -> Muxer]
    BY <1>14, MuxTyped DEF ClearActive, Parts
  <2>3. callback' \in [Outputs -> Caller]
    BY <1>14, CallbackTyped DEF ClearActive, Parts
  <2>4. signals' \in Seq(Signal) /\ told' \in [Outputs -> Told]
    BY <1>14 DEF ClearActive, Parts
  <2>5. \A q \in Outputs : Joined(q)'
    BY <1>14 DEF ClearActive, Parts, Rest, Joined, flags, history
  <2> QED BY <1>b, <2>1, <2>2, <2>3, <2>4, <2>5 DEF Parts
<1>15. CASE SignalEvent(o)
  <2>1. Rest'
    BY <1>15 DEF SignalEvent, Parts, Rest, flags, history
  <2>2. mux' \in [Outputs -> Muxer]
    BY <1>15, MuxTyped DEF SignalEvent, Parts
  <2>3. callback' \in [Outputs -> Caller]
    BY <1>15, CallbackTyped DEF SignalEvent, Parts
  <2>4. signals' \in Seq(Signal) /\ told' \in [Outputs -> Told]
    BY <1>15 DEF SignalEvent, Parts
  <2>5. \A q \in Outputs : Joined(q)'
    BY <1>15 DEF SignalEvent, Parts, Rest, Joined, flags, history
  <2> QED BY <1>b, <2>1, <2>2, <2>3, <2>4, <2>5 DEF Parts
<1>16. CASE ClearEnding(o)
  <2>1. Rest'
    BY <1>16 DEF ClearEnding, Parts, Rest, flags, history
  <2>2. mux' \in [Outputs -> Muxer]
    BY <1>16, MuxTyped DEF ClearEnding, Parts
  <2>3. callback' \in [Outputs -> Caller]
    BY <1>16, CallbackTyped DEF ClearEnding, Parts
  <2>4. signals' \in Seq(Signal) /\ told' \in [Outputs -> Told]
    BY <1>16 DEF ClearEnding, Parts
  <2>5. \A q \in Outputs : Joined(q)'
    <3> SUFFICES ASSUME NEW q \in Outputs PROVE Joined(q)'
      OBVIOUS
    <3>1. CASE q = o
      <4>1. ending'[q] = FALSE /\ end_thread'[q] = "done"
        BY <1>16, <3>1 DEF ClearEnding, Parts, Rest
      <4>2. end_thread'[q] \notin {"encoders", "active", "event", "flag"}
        BY <4>1
      <4>3. (end_thread'[q] \in {"encoders", "active", "event", "flag"}) = FALSE
        BY <4>2
      <4>4. (ending[q])' = FALSE
        BY <4>1
      <4> QED BY <4>3, <4>4 DEF Joined
    <3>2. CASE q # o
      BY <1>16, <3>2 DEF ClearEnding, Parts, Rest, Joined
    <3> QED BY <3>1, <3>2
  <2> QED BY <1>b, <2>1, <2>2, <2>3, <2>4, <2>5 DEF Parts
<1> QED BY <1>1, <1>2, <1>3, <1>4, <1>5, <1>6, <1>7, <1>8, <1>9, <1>10, <1>11, <1>12, <1>13, <1>14,
           <1>15, <1>16 DEF Threads, CallbackSteps, EndThread

LEMMA ApiTyped ==
  ASSUME Parts
  PROVE  /\ Idle \in Api
         /\ \A o \in Outputs, then \in {"idle", "release", "wait"} : Forced(o, then) \in Api
         /\ \A step \in {"activate", "flags", "wait", "join"} : [api EXCEPT !.at = step] \in Api
         /\ Return(api.then) \in Api
<1>1. Idle \in Api
  BY DEF Idle, Api
<1>2. \A o \in Outputs, then \in {"idle", "release", "wait"} : Forced(o, then) \in Api
  BY DEF Forced, Api
<1>3. \A step \in {"activate", "flags", "wait", "join", "release"} : [api EXCEPT !.at = step] \in Api
  BY DEF Parts, Api
<1>4. api.then \in {"idle", "release", "wait"}
  BY DEF Parts, Api
<1> QED BY <1>1, <1>2, <1>3, <1>4 DEF Return

LEMMA WindowTypes ==
  ASSUME Parts, ApiInv, ApiSteps \/ Activate
  PROVE  /\ Rest' /\ mux' \in [Outputs -> Muxer] /\ callback' \in [Outputs -> Caller] /\ api' \in Api
         /\ signals' \in Seq(Signal) /\ told' \in [Outputs -> Told] /\ \A o \in Outputs : Joined(o)'
<1> USE DEF flags, threads, history
<1>a. api.at # "idle" => api.out \in Outputs
  BY DEF ApiInv
<1>1. CASE HookDataCapture
  BY <1>1, <1>a, ApiTyped DEF HookDataCapture, Parts, Rest, Joined
<1>2. CASE Activate
  BY <1>2, <1>a, ApiTyped DEF Activate, Parts, Rest, Joined
<1>3. CASE ResetEvent
  BY <1>3, <1>a, ApiTyped DEF ResetEvent, Parts, Rest, Joined
<1>4. CASE MuxStop
  BY <1>4, <1>a, ApiTyped, MuxTyped DEF MuxStop, Parts, Rest, Joined
<1>5. CASE Release
  BY <1>5, <1>a, ApiTyped DEF Release, Parts, Rest, Joined
<1>6. CASE WaitStopped
  BY <1>6, <1>a, ApiTyped DEF WaitStopped, Parts, Rest, Joined
<1>7. CASE Destroy
  BY <1>7, <1>a, ApiTyped DEF Destroy, Parts, Rest, Joined
<1> QED BY <1>1, <1>2, <1>3, <1>4, <1>5, <1>6, <1>7 DEF ApiSteps

LEMMA TypesNext == Inv /\ [Next]_vars => Types'
<1> SUFFICES ASSUME Parts, ApiInv, [Next]_vars PROVE Parts'
  <2>1. Parts' => Types'
    <3>1. (Parts <=> Types)'
      BY TypesParts, PTL
    <3> QED BY <3>1
  <2> QED BY <2>1, TypesParts DEF Inv
<1> USE DEF flags, threads, history
<1>a. 0 \notin Outputs /\ (recordOutput \in Outputs \/ recordOutput = 0)
  BY OutputsNat DEF Parts, Shell
<1>1. CASE StartRecording
  <2>1. Shell'
    BY <1>1 DEF StartRecording, Parts, Shell
  <2>2. NextOutput \in Outputs
    BY <1>1 DEF StartRecording
  <2>3. CASE Start(NextOutput)
    <3>1. [active |-> TRUE, capturing |-> TRUE, stopping |-> FALSE] \in Muxer
      BY DEF Muxer
    <3>2. [Idle EXCEPT !.at = "hook", !.out = NextOutput] \in Api
      BY <2>2 DEF Idle, Api
    <3> QED BY <2>1, <2>2, <2>3, <3>1, <3>2 DEF Start, Parts, Rest, Joined
  <2>4. CASE StartFails(NextOutput)
    BY <2>1, <2>2, <2>4, ApiTyped DEF StartFails, Parts, Rest, Joined
  <2> QED BY <1>1, <2>3, <2>4 DEF StartRecording
<1>2. CASE StopRecording
  <2>1. Stop(recordOutput) /\ UNCHANGED windowVars /\ recordOutput \in Outputs
    BY <1>2, <1>a DEF StopRecording, RecordingActive
  <2>2. [at |-> "reset", out |-> recordOutput, force |-> FALSE, then |-> "idle"] \in Api
    BY <2>1 DEF Api
  <2> QED BY <2>1, <2>2 DEF Stop, Parts, Rest, Joined, Shell, windowVars
<1>3. CASE Exit
  <2>1. Shell'
    BY <1>3 DEF Exit, Parts, Shell
  <2>2. CASE recordOutput = 0
    BY <1>3, <2>1, <2>2 DEF Exit, lifeVars, Parts, Rest, Joined
  <2>3. CASE recordOutput \in Outputs
    <3>1. ForceStop(recordOutput, "release")
      BY <1>3, <1>a, <2>3 DEF Exit
    <3>2. stop_code' \in [Outputs -> {Success, EncodeError}]
      BY <3>1 DEF ForceStop, CodeAfterForce, Parts, Rest
    <3> QED BY <2>1, <2>3, <3>1, <3>2, ApiTyped DEF ForceStop, Parts, Rest, Joined
  <2> QED BY <1>a, <2>2, <2>3
<1>4. CASE Started
  <2>1. Shell'
    BY <1>4 DEF Started, Parts, Shell
  <2> QED BY <1>4, <2>1, WindowTypes DEF Started, Parts
<1>5. CASE ApiSteps /\ UNCHANGED windowVars
  <2>1. Shell'
    BY <1>5 DEF windowVars, Parts, Shell
  <2> QED BY <1>5, <2>1, WindowTypes DEF Parts
<1>6. CASE RecordingStopped
  <2>1. signals' \in Seq(Signal)
    BY <1>6, HeadTailProperties DEF RecordingStopped, Parts
  <2> QED BY <1>6, <2>1 DEF RecordingStopped, ShownAfter, Parts, Rest, Joined, Shell
<1>7. CASE ShutDown
  <2>1. Shell'
    BY <1>7 DEF ShutDown, Parts, Shell
  <2>2. CASE LeftBehind = {}
    BY <1>7, <2>1, <2>2 DEF ShutDown, lifeVars, Parts, Rest, Joined
  <2>3. CASE LeftBehind # {}
    <3>1. PICK o \in LeftBehind : api' = [Idle EXCEPT !.at = "release", !.out = o]
      BY <1>7, <2>3 DEF ShutDown
    <3>2. api' \in Api
      BY <3>1 DEF Idle, Api, LeftBehind
    <3> QED BY <1>7, <2>1, <2>3, <3>2 DEF ShutDown, Parts, Rest, Joined
  <2> QED BY <2>2, <2>3
<1>8. ASSUME NEW o \in Outputs, Threads(o) PROVE Parts'
  BY <1>8, ThreadTypes
<1>9. CASE UNCHANGED vars
  BY <1>9 DEF vars, lifeVars, windowVars, Parts, Rest, Joined, Shell
<1> QED BY <1>1, <1>2, <1>3, <1>4, <1>5, <1>6, <1>7, <1>8, <1>9 DEF Next, WindowSteps

-----------------------------------------------------------------------------
(* Where the user's thread is *)

LEMMA InitInv == Init => Inv
<1> SUFFICES ASSUME Init PROVE Inv
  OBVIOUS
<1> USE DEF Init, LifeInit
<1>1. Types
  <2>1. Rest /\ Shell
    BY DEF Rest, Shell
  <2>4. signals \in Seq(Signal)
    OBVIOUS
  <2>5. ASSUME NEW o \in Outputs PROVE Joined(o)
    <3>1. ending[o] = FALSE /\ end_thread[o] \notin {"encoders", "active", "event", "flag"}
      OBVIOUS
    <3>2. (end_thread[o] \in {"encoders", "active", "event", "flag"}) = FALSE
      BY <3>1
    <3> QED BY <3>1, <3>2 DEF Joined
  <2>2. [active |-> FALSE, capturing |-> FALSE, stopping |-> FALSE] \in Muxer /\ Out \in Caller /\ Idle \in Api
    BY DEF Muxer, Caller, Api, Out, Idle
  <2>3. << >> \in Told
    BY DEF Told
  <2> QED BY <2>1, <2>2, <2>3, <2>4, <2>5, TypesParts DEF Parts
<1>2. ApiInv
  BY DEF ApiInv, Idle
<1>3. ASSUME NEW o \in Outputs PROVE OInv(o)
  <2>1. o > recordOutput /\ ~(o < recordOutput) /\ o \in Nat
    BY <1>3, MaxOutputsAssumption DEF Outputs
  <2>2. callback[o].at = "out" /\ callback[o].why = "none" /\ mux[o].active = FALSE /\ mux[o].stopping = FALSE
        /\ api.out = 0 /\ api.at = "idle"
    BY DEF Out, Idle
  <2>3. Untouched(o)
    BY <2>2 DEF Untouched, Inside
  <2>4. Created(o) /\ Fresh(o) /\ Only(o)
    BY <2>1, <2>3 DEF Created, Fresh, Only
  <2>5. Begin(o) /\ Once(o) /\ Ending(o) /\ Leaving(o) /\ Event(o)
    BY <2>2, <2>3 DEF Begin, Once, Ending, Leaving, Event, Starting, Inside
  <2>6. Telling(o)
    <3>1. Len(told[o]) = 0 /\ o \notin failed
      BY <2>3 DEF Untouched
    <3>2. end_thread[o] = "none"
      OBVIOUS
    <3>3. Len(told[o]) # 2 /\ Len(told[o]) \in {0, 1, 2}
      BY <3>1
    <3> HIDE DEF Init, LifeInit
    <3> QED BY <2>2, <3>1, <3>2, <3>3 DEF Telling, Before
  <2> QED BY <2>4, <2>5, <2>6 DEF OInv
<1>4. Shown
  BY DEF Shown, Inside, Out
<1> QED BY <1>1, <1>2, <1>3, <1>4 DEF Inv

(* An output that was active or was ending stays so or is ending. *)
LEMMA StaysBegun ==
  ASSUME Inv, NEW o \in Outputs, Threads(o), NEW q \in Outputs,
         active[q] \/ end_thread[q] # "none"
  PROVE  active'[q] \/ end_thread'[q] # "none"
<1>1. CASE q # o
  BY <1>1, Others DEF Inv, Same
<1>2. CASE q = o
  <2>1. TypeOK
    BY DEF Inv, Types
  <2>2. CASE CreateEndThread(o)
    BY <1>2, <2>1, <2>2 DEF CreateEndThread, TypeOK
  <2>3. CASE EndThread(o)
    BY <1>2, <2>1, <2>3 DEF EndThread, StopEncoders, ClearActive, SignalEvent, ClearEnding, TypeOK,
       flags
  <2>4. CASE ~CreateEndThread(o) /\ ~EndThread(o)
    <3>1. UNCHANGED <<active, end_thread>>
      BY <2>4 DEF Threads, PacketStops, WriteFails, EncoderFails, CallbackSteps, FullStopReset,
         FullStopFlags,
         FullStopPacket, FullStopDetach, EndNothing, EndDataCapture, SignalEnd, Leave, flags
    <3> QED BY <3>1
  <2> QED BY <2>2, <2>3, <2>4
<1> QED BY <1>1, <1>2

LEMMA ApiNext == Inv /\ [Next]_vars => ApiInv'
<1> SUFFICES ASSUME Inv, [Next]_vars PROVE ApiInv'
  OBVIOUS
<1>a. ApiInv /\ TypeOK /\ api \in Api
  BY DEF Inv, Types
<1>b. 0 \notin Outputs /\ (recordOutput \in Outputs \/ recordOutput = 0)
  BY <1>a, OutputsNat DEF TypeOK
<1> USE DEF ApiInv
<1>1. CASE StartRecording
  <2>1. NextOutput \in Outputs /\ recordOutput' = NextOutput /\ UNCHANGED exiting /\ exiting = "no"
    BY <1>1 DEF StartRecording
  <2>2. CASE Start(NextOutput)
    <3>1. /\ api'.at = "hook" /\ api'.out = NextOutput /\ api'.then = "idle" /\ life'[NextOutput] = "live"
          /\ \A o \in Outputs : life'[o] # "destroyed"
      BY <1>a, <2>1, <2>2 DEF Start, Idle, TypeOK
    <3> QED BY <2>1, <3>1
  <2>3. CASE StartFails(NextOutput)
    <3>1. /\ api'.at = "reset" /\ api'.out = NextOutput /\ api'.then = "idle" /\ life'[NextOutput] = "live"
          /\ api'.force = TRUE /\ \A o \in Outputs : life'[o] # "destroyed"
      BY <1>a, <2>1, <2>3 DEF StartFails, Forced, TypeOK
    <3> QED BY <2>1, <3>1
  <2> QED BY <1>1, <2>2, <2>3 DEF StartRecording
<1>2. CASE StopRecording
  <2>1. Stop(recordOutput) /\ UNCHANGED windowVars /\ recordOutput \in Outputs /\ exiting = "no"
    BY <1>2, <1>b DEF StopRecording, RecordingActive
  <2>2. api'.at = "reset" /\ api'.out = recordOutput /\ api'.then = "idle" /\ active'[recordOutput]
        /\ UNCHANGED life
    BY <2>1 DEF Stop, flags
  <2>3. life[recordOutput] = "live"
    <3>1. OInv(recordOutput)
      BY <2>1 DEF Inv
    <3>2. life[recordOutput] # "none"
      BY <2>1, <3>1 DEF OInv, Fresh, Untouched, Stop
    <3>3. life[recordOutput] # "destroyed"
      BY <1>a, <2>1
    <3>4. life[recordOutput] \in {"none", "live", "destroyed"}
      BY <1>a, <2>1 DEF TypeOK
    <3> QED BY <3>2, <3>3, <3>4
  <2> QED BY <1>a, <2>1, <2>2, <2>3 DEF windowVars
<1>3. CASE Exit
  <2>1. exiting' # "no" /\ api = Idle
    BY <1>3 DEF Exit
  <2>2. CASE recordOutput = 0
    BY <1>3, <1>a, <2>1, <2>2 DEF Exit, lifeVars, flags, threads, history, Idle
  <2>3. CASE recordOutput \in Outputs
    <3>1. ForceStop(recordOutput, "release")
      BY <1>3, <1>b, <2>3 DEF Exit
    <3>2. /\ api'.at = "reset" /\ api'.out = recordOutput /\ api'.force = TRUE
          /\ UNCHANGED life
      BY <3>1 DEF ForceStop, Forced
    <3>3. life[recordOutput] = "live"
      <4>1. OInv(recordOutput)
        BY <2>3 DEF Inv
      <4>2. life[recordOutput] # "none"
        <5>1. ~(recordOutput > recordOutput)
          BY <2>3, OutputsNat
        <5> QED BY <4>1, <5>1 DEF OInv, Created
      <4>3. life[recordOutput] # "destroyed"
        BY <1>3, <1>a, <2>3 DEF Exit
      <4>4. life[recordOutput] \in {"none", "live", "destroyed"}
        BY <1>a, <2>3 DEF TypeOK
      <4> QED BY <4>2, <4>3, <4>4
    <3> QED BY <2>1, <2>3, <3>2, <3>3
  <2> QED BY <1>b, <2>2, <2>3
<1>4. CASE Started
  BY <1>4, <1>a DEF Started, Activate, Idle
<1>5. CASE ApiSteps /\ UNCHANGED windowVars
  <2> USE DEF flags, threads, history, windowVars
  <2>1. CASE HookDataCapture
    BY <1>a, <1>5, <2>1, ApiFields DEF HookDataCapture
  <2>2. CASE ResetEvent
    BY <1>a, <1>5, <2>2, ApiFields, ZenonT(30) DEF ResetEvent
  <2>3. CASE MuxStop
    <3>1. api.then \in {"idle", "release", "wait"}
      BY <1>a DEF Api
    <3>2. CASE api.then = "idle"
      BY <1>a, <1>5, <2>3, <3>2, ApiFields DEF MuxStop, Return
    <3>3. CASE api.then # "idle"
      BY <1>a, <1>5, <2>3, <3>1, <3>3, ApiFields DEF MuxStop, Return
    <3> QED BY <3>2, <3>3
  <2>4. CASE Release
    BY <1>a, <1>5, <2>4, ApiFields DEF Release
  <2>5. CASE WaitStopped
    BY <1>a, <1>5, <2>5, ApiFields DEF WaitStopped
  <2>6. CASE Destroy
    BY <1>a, <1>5, <2>6, ApiFields DEF Destroy
  <2> QED BY <1>5, <2>1, <2>2, <2>3, <2>4, <2>5, <2>6 DEF ApiSteps
<1>6. CASE RecordingStopped
  BY <1>6, <1>a DEF RecordingStopped, threads, flags
<1>7. CASE ShutDown
  <2>1. exiting' # "no" /\ api = Idle
    BY <1>7 DEF ShutDown
  <2>2. CASE LeftBehind = {}
    BY <1>7, <1>a, <2>1, <2>2 DEF ShutDown, lifeVars, flags, threads, history, Idle
  <2>3. CASE LeftBehind # {}
    <3>1. PICK o \in LeftBehind : api' = [Idle EXCEPT !.at = "release", !.out = o]
      BY <1>7, <2>3 DEF ShutDown
    <3>2. api'.at = "release" /\ api'.out = o /\ o \in Outputs /\ life'[o] = "live"
      BY <1>7, <2>3, <3>1 DEF ShutDown, Idle, LeftBehind
    <3> QED BY <2>1, <3>2
  <2> QED BY <2>2, <2>3
<1>8. ASSUME NEW o \in Outputs, Threads(o) PROVE ApiInv'
  <2>1. UNCHANGED <<api, life, recordOutput, exiting>>
    BY <1>8 DEF Threads, windowVars, PacketStops, WriteFails, EncoderFails, CallbackSteps,
       EndThread,
         FullStopReset, FullStopFlags, FullStopPacket, FullStopDetach, EndNothing, EndDataCapture,
         CreateEndThread, SignalEnd, Leave, StopEncoders, ClearActive, SignalEvent, ClearEnding
  <2>2. api.at \in {"reset", "flags"} /\ ~api.force => active'[api.out] \/ end_thread'[api.out] # "none"
    <3>1. SUFFICES ASSUME api.at \in {"reset", "flags"}, ~api.force
                   PROVE  active'[api.out] \/ end_thread'[api.out] # "none"
      OBVIOUS
    <3>2. api.out \in Outputs /\ (active[api.out] \/ end_thread[api.out] # "none")
      BY <1>a, <3>1
    <3> QED BY <1>8, <3>2, StaysBegun
  <2> QED BY <1>a, <2>1, <2>2
<1>9. CASE UNCHANGED vars
  BY <1>9, <1>a DEF vars, lifeVars, flags, threads, history, windowVars
<1> QED BY <1>1, <1>2, <1>3, <1>4, <1>5, <1>6, <1>7, <1>8, <1>9 DEF Next, WindowSteps

-----------------------------------------------------------------------------
(* What the window shows *)

(* No callback of an output before the newest can begin. *)
LEMMA OldQuiet ==
  ASSUME Inv, NEW o \in Outputs, o # recordOutput
  PROVE  ~active[o] /\ ~connected[o] /\ ~mux[o].active
<1>1. OInv(o) /\ ApiInv
  BY DEF Inv
<1>2. ~active[o]
  <2>1. o < recordOutput \/ o > recordOutput
    <3>1. recordOutput \in Outputs \cup {0}
      BY DEF Inv, Types, TypeOK
    <3> QED BY <3>1, MaxOutputsAssumption DEF Outputs
  <2> QED BY <1>1, <2>1 DEF OInv, Only, Created, Fresh, Untouched
<1>3. ~Starting(o)
  BY <1>1 DEF ApiInv, Starting
<1>4. Untouched(o) \/ end_thread[o] \in {"event", "flag", "done"}
  BY <1>1, <1>2, <1>3 DEF OInv, Ending
<1>5. ~connected[o]
  BY <1>1, <1>4 DEF OInv, Ending, Untouched
<1>6. ~mux[o].active
  BY <1>1, <1>4 DEF OInv, Once, Untouched
<1> QED BY <1>2, <1>5, <1>6

(* A "stop" is told and queued in one; the thread that ends the capture     *)
(* takes over when the output stops being active.                          *)
LEMMA ThreadShown ==
  ASSUME Inv, NEW o \in Outputs, Threads(o)
  PROVE  Shown'
<1>1. UNCHANGED <<exiting, overtaken, recordOutput, recordingActive>> /\ early \subseteq early'
  BY DEF Threads, windowVars, PacketStops, WriteFails, EncoderFails, CallbackSteps, EndThread,
         FullStopReset, FullStopFlags, FullStopPacket, FullStopDetach, EndNothing, EndDataCapture,
         CreateEndThread, SignalEnd, Leave, StopEncoders, ClearActive, SignalEvent, ClearEnding, history
<1>2. SUFFICES ASSUME exiting = "no", ~overtaken, early' = {}
      PROVE  /\ \A q \in Outputs : q # recordOutput => ~Inside(q)'
             /\ recordOutput = 0 => signals' = << >> /\ ~recordingActive
             /\ recordOutput # 0 =>
                  /\ Len(signals') <= Len(told'[recordOutput])
                  /\ recordingActive <=> /\ active'[recordOutput] \/ end_thread'[recordOutput] # "none"
                                         /\ Len(told'[recordOutput]) = Len(signals')
  BY <1>1 DEF Shown, Inside
<1>3. /\ \A q \in Outputs : q # recordOutput => ~Inside(q)
      /\ recordOutput = 0 => signals = << >> /\ ~recordingActive
      /\ recordOutput # 0 =>
           /\ Len(signals) <= Len(told[recordOutput])
           /\ recordingActive <=> /\ active[recordOutput] \/ end_thread[recordOutput] # "none"
                                  /\ Len(told[recordOutput]) = Len(signals)
  <2>1. early = {}
    BY <1>1, <1>2
  <2> QED BY <1>2, <2>1 DEF Shown, Inv
<1>4. TypeOK /\ OInv(o)
  BY DEF Inv, Types
<1>5. ASSUME NEW q \in Outputs, q # recordOutput PROVE ~Inside(q)'
  <2>1. ~Inside(q)
    BY <1>3, <1>5
  <2>2. CASE q # o
    BY <2>1, <2>2, Others DEF Inv, Same, Inside
  <2>3. CASE q = o
    <3>1. ~connected[o] /\ ~mux[o].active /\ callback[o].at = "out"
      BY <1>5, <2>1, <2>3, OldQuiet DEF Inside
    <3>2. UNCHANGED callback
      BY <3>1 DEF Threads, MayCall, PacketStops, WriteFails, EncoderFails, CallbackSteps, EndThread,
         FullStopReset, FullStopFlags, FullStopPacket, FullStopDetach, EndNothing, EndDataCapture,
         CreateEndThread, SignalEnd, Leave, StopEncoders, ClearActive, SignalEvent, ClearEnding
    <3> QED BY <2>1, <2>3, <3>2 DEF Inside
  <2> QED BY <2>2, <2>3
(* A "stop" is signalled, by the newest output then. *)
<1>6. CASE EndNothing(o) \/ SignalEnd(o)
  <2>1. Inside(o) /\ o = recordOutput
    BY <1>3, <1>6 DEF EndNothing, SignalEnd, Inside
  <2>2. SignalStop(o) /\ UNCHANGED <<active, end_thread>>
    BY <1>6 DEF EndNothing, SignalEnd
  <2>3. Len(signals') = Len(signals) + 1 /\ Len(signals) \in Nat
    BY <2>2, AppendProperties, LenProperties DEF SignalStop, Inv, Types, Signal
  <2>4. Len(told'[o]) = Len(told[o]) + 1
    <3>1. told \in [Outputs -> Told] /\ stop_code \in [Outputs -> {Success, EncodeError}]
      BY DEF Inv, Types, TypeOK
    <3> QED BY <2>2, <3>1, SignalFields
  <2>5. Len(told[o]) \in Nat
    <3>1. told[o] \in Seq({Success, EncodeError})
      BY DEF Inv, Types, Told
    <3> QED BY <3>1, LenProperties
  <2>6. recordOutput # 0
    BY <2>1, OutputsNat
  <2> QED BY <1>3, <1>5, <2>1, <2>2, <2>3, <2>4, <2>5, <2>6
<1>7. CASE ~EndNothing(o) /\ ~SignalEnd(o)
  <2>1. UNCHANGED <<signals, told>>
    BY <1>7 DEF Threads, PacketStops, WriteFails, EncoderFails, CallbackSteps, EndThread,
         FullStopReset, FullStopFlags, FullStopPacket, FullStopDetach, EndDataCapture,
         CreateEndThread, Leave, StopEncoders, ClearActive, SignalEvent, ClearEnding
  <2>2. recordOutput # 0 => /\ recordOutput \in Outputs
                            /\ active'[recordOutput] \/ end_thread'[recordOutput] # "none"
                                <=> active[recordOutput] \/ end_thread[recordOutput] # "none"
    <3> SUFFICES ASSUME recordOutput # 0
                 PROVE  /\ recordOutput \in Outputs
                        /\ active'[recordOutput] \/ end_thread'[recordOutput] # "none"
                            <=> active[recordOutput] \/ end_thread[recordOutput] # "none"
      OBVIOUS
    <3>1. recordOutput \in Outputs
      BY <1>4 DEF TypeOK
    <3>2. CASE recordOutput # o
      BY <3>1, <3>2, Others DEF Inv, Same
    <3>3. CASE recordOutput = o
      <4>1. CASE CreateEndThread(o)
        BY <1>4, <3>1, <3>3, <4>1, StaysBegun DEF CreateEndThread, OInv, Once
      <4>2. CASE EndThread(o)
        BY <1>4, <3>1, <3>3, <4>2, StaysBegun DEF EndThread, StopEncoders, ClearActive,
           SignalEvent, ClearEnding
      <4>3. CASE ~CreateEndThread(o) /\ ~EndThread(o)
        <5>1. UNCHANGED <<active, end_thread>>
          BY <1>7, <4>3 DEF Threads, PacketStops, WriteFails, EncoderFails, CallbackSteps,
             FullStopReset,
             FullStopFlags, FullStopPacket, FullStopDetach, EndDataCapture, Leave, flags
        <5> QED BY <3>1, <5>1
      <4> QED BY <4>1, <4>2, <4>3
    <3> QED BY <3>2, <3>3
  <2> QED BY <1>3, <1>5, <2>1, <2>2
<1> QED BY <1>6, <1>7

LEMMA ShownNext == Inv /\ [Next]_vars => Shown'
<1> SUFFICES ASSUME Inv, [Next]_vars PROVE Shown'
  OBVIOUS
<1>a. TypeOK /\ Shown /\ (recordOutput \in Outputs \/ recordOutput = 0) /\ 0 \notin Outputs
  BY OutputsNat DEF Inv, Types, TypeOK
<1>b. Len(signals) \in Nat /\ (\A o \in Outputs : Len(told[o]) \in Nat)
  <2>1. signals \in Seq(Signal) /\ \A o \in Outputs : told[o] \in Seq({Success, EncodeError})
    BY DEF Inv, Types, Told
  <2> QED BY <2>1, LenProperties
<1>1. CASE StartRecording
  <2>1. SUFFICES ASSUME exiting' = "no", ~overtaken', early' = {}
        PROVE  /\ \A o \in Outputs : o # recordOutput' => ~Inside(o)'
               /\ recordOutput' # 0
               /\ Len(signals') <= Len(told'[recordOutput'])
               /\ recordingActive' <=> /\ active'[recordOutput'] \/ end_thread'[recordOutput'] # "none"
                                       /\ Len(told'[recordOutput']) = Len(signals')
    BY DEF Shown
  <2>2. /\ recordOutput' = NextOutput /\ NextOutput \in Outputs /\ NextOutput # 0
        /\ signals = << >> /\ \A o \in Outputs : ~Inside(o)
        /\ exiting = "no" /\ ~overtaken /\ ~RecordingActive /\ UNCHANGED recordingActive
    BY <1>1, <2>1, <1>a DEF StartRecording
  <2>3. /\ UNCHANGED <<callback, signals, told, active, end_thread, early>> /\ life[NextOutput] = "none"
    BY <1>1 DEF StartRecording, Start, StartFails, flags, threads, history
  <2>4. Untouched(NextOutput)
    BY <2>2, <2>3 DEF Inv, OInv, Fresh
  <2>5. ~recordingActive
    <3>1. CASE recordOutput = 0
      BY <1>a, <2>1, <2>2, <2>3, <3>1 DEF Shown
    <3>2. CASE recordOutput \in Outputs
      <4>1. ~active[recordOutput]
        BY <1>a, <2>2, <3>2 DEF RecordingActive
      <4>2. callback[recordOutput].at # "signal"
        BY <2>2, <3>2 DEF Inside
      <4>3. end_thread[recordOutput] # "none" => Len(told[recordOutput]) # 0
        BY <3>2, <4>2 DEF Inv, OInv, Telling
      <4>4. Len(signals) = 0
        BY <2>2
      <4>5. recordOutput # 0 /\ early = {}
        BY <1>a, <2>1, <2>3, <3>2
      <4> QED BY <1>a, <2>2, <4>1, <4>3, <4>4, <4>5 DEF Shown
    <3> QED BY <1>a, <3>1, <3>2
  <2>6. Len(signals') = 0 /\ Len(told'[NextOutput]) = 0
    BY <2>2, <2>3, <2>4 DEF Untouched
  <2>7. Len(signals') <= Len(told'[NextOutput])
    BY <2>6
  <2> QED BY <2>2, <2>3, <2>4, <2>5, <2>7 DEF Untouched, Inside
<1>2. CASE StopRecording
  BY <1>2, <1>a DEF StopRecording, Stop, Shown, windowVars, flags, threads, history, Inside
<1>3. CASE Exit
  BY <1>3 DEF Exit, Shown
<1>4. CASE Started
  <2>1. SUFFICES ASSUME exiting = "no", ~overtaken, early = {}
        PROVE  /\ \A o \in Outputs : o # recordOutput => ~Inside(o)'
               /\ recordOutput # 0
               /\ Len(signals) <= Len(told[recordOutput])
               /\ active'[recordOutput] /\ Len(told[recordOutput]) = Len(signals)
    BY <1>4 DEF Started, Activate, Shown, history
  <2>2. api.at = "activate" /\ recordOutput = api.out /\ recordOutput \in Outputs
    BY <1>4 DEF Started, Activate, Inv, ApiInv
  <2>3. active'[recordOutput] = TRUE /\ UNCHANGED callback
    BY <1>4, <1>a, <2>2 DEF Started, Activate, TypeOK, threads
  <2>4. Len(told[recordOutput]) = 0
    BY <2>1, <2>2 DEF Inv, OInv, Once, Begin, Starting
  <2>5. Len(signals) = 0
    <3>1. Len(signals) <= Len(told[recordOutput])
      BY <1>a, <2>1, <2>2 DEF Shown
    <3> QED BY <1>b, <2>4, <3>1
  <2>6. Len(signals) <= Len(told[recordOutput])
    BY <2>4, <2>5
  <2> QED BY <1>a, <2>1, <2>2, <2>3, <2>4, <2>5, <2>6 DEF Shown, Inside
<1>5. CASE ApiSteps /\ UNCHANGED windowVars
  <2>1. UNCHANGED <<callback, signals, told, active, end_thread, early>>
    BY <1>5 DEF ApiSteps, HookDataCapture, ResetEvent, MuxStop, Release, WaitStopped, Destroy,
       flags, threads, history
  <2> QED BY <1>5, <1>a, <2>1 DEF Shown, windowVars, Inside
<1>6. CASE RecordingStopped
  <2>1. /\ UNCHANGED <<callback, told, active, end_thread, early, exiting, overtaken, recordOutput>>
        /\ signals # << >> /\ signals' = Tail(signals) /\ recordingActive' = FALSE
    BY <1>6 DEF RecordingStopped, ShownAfter, flags, threads, history
  <2>2. Len(signals') = Len(signals) - 1
    BY <2>1, HeadTailProperties DEF Inv, Types
  <2>3. SUFFICES ASSUME exiting = "no", ~overtaken, early = {}
        PROVE  /\ \A o \in Outputs : o # recordOutput => ~Inside(o)'
               /\ recordOutput # 0
               /\ Len(signals') <= Len(told[recordOutput])
               /\ Len(told[recordOutput]) # Len(signals')
    BY <2>1 DEF Shown
  <2>4. recordOutput # 0 /\ Len(signals) <= Len(told[recordOutput])
    BY <1>a, <2>1, <2>3 DEF Shown
  <2>5. \A o \in Outputs : o # recordOutput => ~Inside(o)'
    BY <1>a, <2>1, <2>3 DEF Shown, Inside
  <2>6. Len(signals') <= Len(told[recordOutput]) /\ Len(told[recordOutput]) # Len(signals')
    <3>1. Len(told[recordOutput]) \in Nat
      BY <1>a, <1>b, <2>4
    <3> QED BY <1>b, <2>2, <2>4, <3>1
  <2> QED BY <2>4, <2>5, <2>6
<1>7. CASE ShutDown
  BY <1>7 DEF ShutDown, Shown
<1>8. ASSUME NEW o \in Outputs, Threads(o) PROVE Shown'
  BY <1>8, ThreadShown
<1>9. CASE UNCHANGED vars
  BY <1>9, <1>a DEF vars, lifeVars, windowVars, Shown, flags, threads, history, Inside
<1> QED BY <1>1, <1>2, <1>3, <1>4, <1>5, <1>6, <1>7, <1>8, <1>9 DEF Next, WindowSteps

-----------------------------------------------------------------------------
LEMMA NextInv == Inv /\ [Next]_vars => Inv'
<1> SUFFICES ASSUME Inv, [Next]_vars PROVE Inv'
  OBVIOUS
<1>1. Types' /\ ApiInv' /\ Shown'
  BY TypesNext, ApiNext, ShownNext
<1>2. ASSUME NEW q \in Outputs PROVE OInv(q)'
  <2>1. CASE StartRecording
    BY <2>1, <1>2, StartOwn
  <2>2. CASE StopRecording
    BY <2>2, <1>2, StopOwn DEF StopRecording
  <2>3. CASE Exit
    BY <2>3, <1>2, ExitOwn
  <2>4. CASE Started
    BY <2>4, <1>2, ActivateOwn DEF Started
  <2>5. CASE ApiSteps /\ UNCHANGED windowVars
    BY <2>5, <1>2, HookOwn, ResetOwn, MuxStopOwn, ReleaseOwn, WaitOwn, DestroyOwn DEF ApiSteps
  <2>6. CASE RecordingStopped
    <3>1. Same(q) /\ UNCHANGED <<api, exiting, recordOutput>>
      BY <2>6 DEF RecordingStopped, Same, flags, threads, history
    <3> QED BY <1>2, <3>1, Unaffected DEF Inv
  <2>7. CASE ShutDown
    BY <2>7, <1>2, ShutDownOwn
  <2>8. ASSUME NEW o \in Outputs, Threads(o) PROVE OInv(q)'
    <3>1. CASE q = o
      BY <2>8, <3>1, Own
    <3>2. CASE q # o
      BY <1>2, <2>8, <3>2, Others, Unaffected DEF Inv
    <3> QED BY <3>1, <3>2
  <2>9. CASE UNCHANGED vars
    <3>1. Same(q) /\ UNCHANGED <<api, exiting, recordOutput>>
      BY <2>9 DEF vars, lifeVars, windowVars, Same, flags, threads, history
    <3> QED BY <1>2, <3>1, Unaffected DEF Inv
  <2> QED BY <2>1, <2>2, <2>3, <2>4, <2>5, <2>6, <2>7, <2>8, <2>9 DEF Next, WindowSteps
<1> QED BY <1>1, <1>2 DEF Inv

LEMMA Invariant == Spec => []Inv
  BY InitInv, NextInv, PTL DEF Spec

-----------------------------------------------------------------------------
(* Types: every handler writes only values that the next one expects, and   *)
(* end_data_capture_thread_active is set exactly while the thread has not   *)
(* ended.                                                                   *)
THEOREM TypeCorrect == Spec => []TypeOK
<1>1. Inv => TypeOK
  BY DEF Inv, Types
<1> QED BY <1>1, Invariant, PTL

(* No thread of an output is inside it or will call it when                 *)
(* obs_output_destroy() has freed it or StartRecording() has made the next  *)
(* one, unless an encoder of it failed, and an output before the newest is  *)
(* never active: for any number of outputs and failures.                    *)
THEOREM SessionsApart == Spec => []OutputsApart
<1>1. ASSUME Inv PROVE OutputsApart
  <2>1. ASSUME NEW o \in Outputs \ errored, life[o] = "destroyed" PROVE Quiet(o)
    <3>1. OInv(o) /\ end_thread[o] \in {"none", "done"}
      BY <1>1, <2>1 DEF Inv, OInv, Leaving
    <3>2. CASE end_thread[o] = "none"
      BY <2>1, <3>1, <3>2 DEF OInv, Leaving, Untouched, Quiet
    <3>3. CASE end_thread[o] = "done"
      BY <2>1, <3>1, <3>3 DEF OInv, Ending, Quiet
    <3> QED BY <3>1, <3>2, <3>3
  <2>2. ASSUME NEW o \in Outputs, o < recordOutput PROVE ~active[o]
    BY <1>1, <2>2 DEF Inv, OInv, Only
  <2>3. ASSUME NEW o \in Outputs \ errored, o < recordOutput PROVE ~connected[o] /\ ~Inside(o)
    <3>1. OInv(o) /\ ApiInv /\ ~active[o]
      BY <1>1, <2>2, <2>3 DEF Inv
    <3>2. o # recordOutput
      <4>1. o \in Nat
        BY OutputsNat
      <4> QED BY <2>3, <4>1
    <3>3. ~Starting(o)
      BY <3>1, <3>2 DEF ApiInv, Starting
    <3>4. Untouched(o) \/ end_thread[o] \in {"event", "flag", "done"}
      BY <3>1, <3>3 DEF OInv, Ending
    <3> QED BY <2>3, <3>1, <3>4 DEF OInv, Ending, Untouched
  <2> QED BY <2>1, <2>2, <2>3 DEF OutputsApart
<1> QED BY <1>1, Invariant, PTL

(* The sequences of at most two codes *)
LEMMA SeqOfLen ==
  ASSUME NEW t \in Seq({Success, EncodeError})
  PROVE  /\ Len(t) = 0 => t = << >>
         /\ Len(t) = 1 => t = <<t[1]>> /\ t[1] \in {Success, EncodeError}
         /\ Len(t) = 2 => t = <<t[1], t[2]>> /\ t[1] \in {Success, EncodeError} /\ t[2] \in {Success, EncodeError}
<1>1. Len(t) = 0 => t = << >>
  BY EmptySeq
<1>2. ASSUME Len(t) = 1 PROVE t = <<t[1]>> /\ t[1] \in {Success, EncodeError}
  <2>1. t[1] \in {Success, EncodeError}
    BY <1>2, ElementOfSeq
  <2>2. <<t[1]>> \in Seq({Success, EncodeError}) /\ Len(<<t[1]>>) = 1 /\ <<t[1]>>[1] = t[1]
    BY <2>1
  <2> QED BY <1>2, <2>1, <2>2, SeqEqual
<1>3. ASSUME Len(t) = 2
      PROVE  t = <<t[1], t[2]>> /\ t[1] \in {Success, EncodeError} /\ t[2] \in {Success, EncodeError}
  <2>1. t[1] \in {Success, EncodeError} /\ t[2] \in {Success, EncodeError}
    BY <1>3, ElementOfSeq
  <2> DEFINE u == <<t[1], t[2]>>
  <2>2. u \in Seq({Success, EncodeError}) /\ Len(u) = 2 /\ u[1] = t[1] /\ u[2] = t[2]
    BY <2>1
  <2>3. \A i \in 1 .. 2 : t[i] = u[i]
    BY <2>2
  <2> HIDE DEF u
  <2>4. t = u
    BY <1>3, <2>2, <2>3, SeqEqual
  <2> QED BY <2>1, <2>4 DEF u
<1> QED BY <1>1, <1>2, <1>3

(* Each session tells of its end exactly as signal_stop() should: success,  *)
(* with the error after it when a write failed during the stop, or the      *)
(* error alone; a session that has ended has told so, and one whose write   *)
(* failed has told of the failure.                                          *)
THEOREM EachEndTold == Spec => []StopsTold
<1>1. ASSUME Inv PROVE StopsTold
  <2> SUFFICES ASSUME NEW o \in Outputs
      PROVE  /\ told[o] \in {<< >>, <<Success>>, <<EncodeError>>, <<Success, EncodeError>>}
                               \cup (IF exiting = "no" THEN {} ELSE {<<Success, Success>>})
             /\ end_thread[o] # "none" /\ ~Inside(o) => told[o] # << >>
             /\ o \in failed \ errored /\ exiting = "no" /\ end_thread[o] = "done" /\ ~Inside(o)
                  => told[o][Len(told[o])] = EncodeError
    BY DEF StopsTold
  <2>1. Telling(o) /\ Once(o) /\ told[o] \in Seq({Success, EncodeError})
    BY <1>1 DEF Inv, OInv, Types, Told
  <2>2. told[o] \in {<< >>, <<Success>>, <<EncodeError>>, <<Success, EncodeError>>}
                               \cup (IF exiting = "no" THEN {} ELSE {<<Success, Success>>})
    <3>1. CASE Len(told[o]) = 0
      BY <2>1, <3>1, SeqOfLen
    <3>2. CASE Len(told[o]) = 1
      <4>1. told[o] = <<told[o][1]>> /\ told[o][1] \in {Success, EncodeError}
        BY <2>1, <3>2, SeqOfLen
      <4>2. told[o] = <<Success>> \/ told[o] = <<EncodeError>>
        <5>1. CASE told[o][1] = Success
          BY <4>1, <5>1, Zenon
        <5>2. CASE told[o][1] = EncodeError
          BY <4>1, <5>2, Zenon
        <5> QED BY <4>1, <5>1, <5>2
      <4> QED BY <4>2, Zenon
    <3>3. CASE Len(told[o]) = 2
      <4>1. told[o] = <<told[o][1], told[o][2]>> /\ told[o][2] \in {Success, EncodeError}
        BY <2>1, <3>3, SeqOfLen
      <4>2. told[o][1] = Success /\ (told[o][2] = Success => exiting # "no")
        BY <2>1, <3>3 DEF Telling
      <4>3. CASE told[o][2] = EncodeError
        <5>1. told[o] = <<Success, EncodeError>>
          BY <4>1, <4>2, <4>3, Zenon
        <5> QED BY <5>1, Zenon
      <4>4. CASE told[o][2] = Success
        <5>1. told[o] = <<Success, Success>> /\ exiting # "no"
          BY <4>1, <4>2, <4>4, Zenon
        <5> QED BY <5>1, Zenon
      <4> QED BY <4>1, <4>3, <4>4
    <3> QED BY <2>1, <3>1, <3>2, <3>3 DEF Telling
  <2>3. end_thread[o] # "none" /\ ~Inside(o) => told[o] # << >>
    <3>1. told[o] = << >> => Len(told[o]) = 0
      OBVIOUS
    <3> QED BY <2>1, <3>1 DEF Telling, Inside
  <2>4. o \in failed \ errored /\ exiting = "no" /\ ~Inside(o) => told[o][Len(told[o])] = EncodeError
    BY <2>1 DEF Telling, Once, Inside, Before
  <2> QED BY <2>2, <2>3, <2>4
<1> QED BY <1>1, Invariant, PTL

(* While nothing is under way the status of the window is                   *)
(* Recorder::RecordingActive(), as long as no start was served before the   *)
(* "stop" of the recording before it and no session ended before it was     *)
(* active.                                                                  *)
THEOREM StatusShown == Spec => []StatusRight
<1>1. ASSUME Inv PROVE StatusRight
  <2> SUFFICES ASSUME exiting = "no", signals = << >>, ~overtaken, early = {},
                      \A o \in Outputs : ~Inside(o) /\ end_thread[o] \in {"none", "done"}
               PROVE  recordingActive = RecordingActive
    BY DEF StatusRight
  <2>1. Shown /\ recordingActive \in BOOLEAN /\ (recordOutput \in Outputs \/ recordOutput = 0) /\ TypeOK
    BY <1>1 DEF Inv, Types, TypeOK
  <2>2. CASE recordOutput = 0
    BY <2>1, <2>2 DEF Shown, RecordingActive
  <2>3. CASE recordOutput \in Outputs
    <3>1. recordOutput # 0 /\ OInv(recordOutput)
      BY <1>1, <2>3, OutputsNat DEF Inv
    <3>2. recordingActive <=> /\ active[recordOutput] \/ end_thread[recordOutput] # "none"
                              /\ Len(told[recordOutput]) = 0
      <4>1. Len(signals) = 0
        OBVIOUS
      <4> QED BY <2>1, <3>1, <4>1 DEF Shown
    <3>3. callback[recordOutput].at = "out"
      BY <2>3 DEF Inside
    <3>4. active[recordOutput] => Len(told[recordOutput]) = 0
      BY <2>3, <3>1, <3>3 DEF OInv, Once, Ending, Untouched
    <3>5. end_thread[recordOutput] # "none" => ~active[recordOutput] /\ Len(told[recordOutput]) # 0
      BY <2>3, <3>1, <3>3 DEF OInv, Ending, Telling
    <3>6. recordingActive <=> active[recordOutput]
      BY <3>2, <3>4, <3>5
    <3>7. active[recordOutput] \in BOOLEAN
      BY <2>1, <2>3 DEF TypeOK
    <3> QED BY <2>1, <3>1, <3>6, <3>7 DEF RecordingActive
  <2> QED BY <2>1, <2>2, <2>3
<1> QED BY <1>1, Invariant, PTL

=============================================================================
