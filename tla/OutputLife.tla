----------------------------- MODULE OutputLife -----------------------------
(***************************************************************************)
(* The life of a file output (ffmpeg_muxer in                              *)
(* plugins/obs-ffmpeg/obs-ffmpeg-mux.c) under libobs/obs-output.c, write   *)
(* by write: the thread of the user in obs_output_start(), _stop(),        *)
(* _force_stop() and _release(), the encoder threads in the packet         *)
(* callback, and the thread that ends the capture.                         *)
(*                                                                         *)
(* No lock covers them all.  A callback runs under interleaved_mutex and   *)
(* the callbacks_mutex of its encoder; an encoder that fails calls back    *)
(* without the second.  Every output has encoders of its own.  Delay and   *)
(* reconnecting, which a file output never has, are left out.              *)
(***************************************************************************)
EXTENDS Naturals, Sequences, FiniteSets

CONSTANTS MaxOutputs,  \* bound: output objects made
          MaxFailures, \* bound: failures of the last two kinds
          Failures     \* what may fail: a subset of {"start", "write", "encoder"}

ASSUME MaxOutputsAssumption == MaxOutputs \in Nat \ {0}
ASSUME MaxFailuresAssumption == MaxFailures \in Nat
ASSUME FailuresAssumption == Failures \subseteq {"start", "write", "encoder"}

VARIABLES
  life,                           \* "none", "live", "destroyed"
  active, data_active, stop_code,
  stopping_event,                 \* TRUE: signalled
  ending,                         \* end_data_capture_thread_active
  mux,                            \* active, capturing and stopping of the muxer
  connected,                      \* its callbacks are in the encoders' lists
  callback,                       \* encoder thread in the packet callback
  full_stop,                      \* encoder thread that gives up
  end_thread,
  api,                            \* the user's thread: at which step, of what
  signals,                        \* "stop" signals the user has not handled
  told,                           \* history: codes of the "stop" signals
  failed, errored, early          \* history: sessions with a failed write; with a
                                  \* failed encoder; over before active was set

flags == <<active, data_active, stop_code, stopping_event, ending>>
threads == <<callback, full_stop, end_thread>>
history == <<failed, errored, early>>
lifeVars == <<life, flags, mux, connected, threads, api, signals, told, history>>

Outputs == 1 .. MaxOutputs
Success == 0
EncodeError == 1

Idle == [at |-> "idle", out |-> 0, force |-> FALSE, then |-> "idle"]
Out == [at |-> "out", why |-> "none"]

LifeInit ==
  /\ life = [o \in Outputs |-> "none"]
  /\ active = [o \in Outputs |-> FALSE] /\ data_active = [o \in Outputs |-> FALSE]
  /\ stop_code = [o \in Outputs |-> Success]
  /\ stopping_event = [o \in Outputs |-> TRUE] /\ ending = [o \in Outputs |-> FALSE]
  /\ mux = [o \in Outputs |-> [active |-> FALSE, capturing |-> FALSE, stopping |-> FALSE]]
  /\ connected = [o \in Outputs |-> FALSE]
  /\ callback = [o \in Outputs |-> Out] /\ full_stop = [o \in Outputs |-> "no"]
  /\ end_thread = [o \in Outputs |-> "none"]
  /\ api = Idle /\ signals = << >> /\ told = [o \in Outputs |-> << >>]
  /\ failed = {} /\ errored = {} /\ early = {}

Inside(o) == callback[o].at # "out"

-----------------------------------------------------------------------------
(* The user's thread *)

(* obs_output_create() and obs_output_start() up to hook_data_capture() *)
Start(o) ==
  /\ api = Idle /\ life[o] = "none"
  /\ life' = [life EXCEPT ![o] = "live"]
  /\ mux' = [mux EXCEPT ![o] = [active |-> TRUE, capturing |-> TRUE, stopping |-> FALSE]]
  /\ data_active' = [data_active EXCEPT ![o] = TRUE]
  /\ api' = [Idle EXCEPT !.at = "hook", !.out = o]
  /\ UNCHANGED <<active, stop_code, stopping_event, ending, connected, threads, signals, told,
                 history>>

HookDataCapture ==
  /\ api.at = "hook"
  /\ connected' = [connected EXCEPT ![api.out] = TRUE]
  /\ api' = [api EXCEPT !.at = "activate"]
  /\ UNCHANGED <<life, flags, mux, threads, signals, told, history>>

(* The rest of obs_output_begin_data_capture(), which ends in "start" *)
Activate ==
  /\ api.at = "activate"
  /\ active' = [active EXCEPT ![api.out] = TRUE]
  /\ api' = Idle
  /\ UNCHANGED <<life, data_active, stop_code, stopping_event, ending, mux, connected, threads,
                 signals, told, history>>

(* The steps of obs_output_force_stop() after its first test *)
Forced(o, then) == [at |-> "reset", out |-> o, force |-> TRUE, then |-> then]
CodeAfterForce(o) == IF stopping_event[o] THEN [stop_code EXCEPT ![o] = Success] ELSE stop_code

(* ffmpeg_mux_start() fails, and the user forces a stop. *)
StartFails(o) ==
  /\ api = Idle /\ life[o] = "none" /\ "start" \in Failures
  /\ life' = [life EXCEPT ![o] = "live"]
  /\ api' = Forced(o, "idle")
  /\ UNCHANGED <<flags, mux, connected, threads, signals, told, history>>

(* obs_output_stop() up to the reset of the event *)
Stop(o) ==
  /\ api = Idle /\ active[o] /\ stopping_event[o]
  /\ api' = [at |-> "reset", out |-> o, force |-> FALSE, then |-> "idle"]
  /\ UNCHANGED <<life, flags, mux, connected, threads, signals, told, history>>

ForceStop(o, then) ==
  /\ api = Idle
  /\ stop_code' = CodeAfterForce(o)
  /\ api' = Forced(o, then)
  /\ UNCHANGED <<life, active, data_active, stopping_event, ending, mux, connected, threads,
                 signals, told, history>>

(* obs_output_actual_stop() *)
ResetEvent ==
  /\ api.at = "reset"
  /\ IF ~stopping_event[api.out] /\ ~api.force
     THEN api' = Idle /\ UNCHANGED stopping_event
     ELSE /\ stopping_event' = [stopping_event EXCEPT ![api.out] = FALSE]
          /\ api' = [api EXCEPT !.at = "flags"]
  /\ UNCHANGED <<life, active, data_active, stop_code, ending, mux, connected, threads, signals,
                 told, history>>

Return(then) == IF then = "idle" THEN Idle ELSE [api EXCEPT !.at = then]

(* Faulty variant: the muxer is closed at once, before the last packet. *)
MuxClosed(o) == [mux EXCEPT ![o] = [active |-> FALSE, capturing |-> FALSE, stopping |-> TRUE]]

MuxStopped(o) == [mux EXCEPT ![o].stopping = TRUE, ![o].capturing = FALSE]

(* ffmpeg_mux_stop() *)
MuxStop ==
  /\ api.at = "flags"
  /\ mux' = IF mux[api.out].capturing \/ api.force THEN MuxStopped(api.out) ELSE mux
  /\ api' = Return(api.then)
  /\ UNCHANGED <<life, flags, connected, threads, signals, told, history>>

(* obs_output_destroy() *)
Release ==
  /\ api.at = "release"
  /\ api' = IF active[api.out] THEN Forced(api.out, "wait") ELSE [api EXCEPT !.at = "wait"]
  /\ UNCHANGED <<life, flags, mux, connected, threads, signals, told, history>>

WaitStopped ==
  /\ api.at = "wait" /\ stopping_event[api.out]
  /\ api' = [api EXCEPT !.at = "join"]
  /\ UNCHANGED <<life, flags, mux, connected, threads, signals, told, history>>

Destroy ==
  /\ api.at = "join" /\ (ending[api.out] => end_thread[api.out] = "done")
  /\ life' = [life EXCEPT ![api.out] = "destroyed"]
  /\ api' = Idle
  /\ UNCHANGED <<flags, mux, connected, threads, signals, told, history>>

ApiSteps ==
  HookDataCapture \/ ResetEvent \/ MuxStop \/ Release \/ WaitStopped \/ Destroy

-----------------------------------------------------------------------------
(* Encoder threads *)

(* Faulty variant: a closed muxer does not turn packets away. *)
MayCallClosed(o) == connected[o] /\ ~Inside(o)

MayCall(o) == connected[o] /\ mux[o].active /\ ~Inside(o)

Enter(o, why) == callback' = [callback EXCEPT ![o] = [at |-> "end", why |-> why]]

MayFail(kind) ==
  kind \in Failures /\ Cardinality(failed) + Cardinality(errored) < MaxFailures

(* A packet at or after the time of the stop: deactivate() *)
PacketStops(o) ==
  /\ MayCall(o) /\ mux[o].stopping
  /\ mux' = [mux EXCEPT ![o].active = FALSE]
  /\ Enter(o, "stop")
  /\ UNCHANGED <<life, flags, connected, full_stop, end_thread, api, signals, told, history>>

(* The helper process refuses data: signal_failure() up to                 *)
(* obs_output_end_data_capture(), which a stop under way calls first.      *)
WriteFails(o) ==
  /\ MayCall(o) /\ MayFail("write")
  /\ mux' = [mux EXCEPT ![o].active = FALSE]
  /\ IF mux[o].stopping THEN Enter(o, "failed stop") /\ UNCHANGED stop_code
     ELSE Enter(o, "failure") /\ stop_code' = [stop_code EXCEPT ![o] = EncodeError]
  /\ failed' = failed \cup {o}
  /\ UNCHANGED <<life, active, data_active, stopping_event, ending, connected, full_stop,
                 end_thread, api, signals, told, errored, early>>

(* full_stop() of an encoder: obs_output_force_stop() on its own thread ... *)
EncoderFails(o) ==
  /\ connected[o] /\ full_stop[o] = "no" /\ MayFail("encoder")
  /\ full_stop' = [full_stop EXCEPT ![o] = "reset"]
  /\ stop_code' = CodeAfterForce(o)
  /\ errored' = errored \cup {o}
  /\ UNCHANGED <<life, active, data_active, stopping_event, ending, mux, connected, callback,
                 end_thread, api, signals, told, failed, early>>

FullStopReset(o) ==
  /\ full_stop[o] = "reset"
  /\ stopping_event' = [stopping_event EXCEPT ![o] = FALSE]
  /\ full_stop' = [full_stop EXCEPT ![o] = "flags"]
  /\ UNCHANGED <<life, active, data_active, stop_code, ending, mux, connected, callback,
                 end_thread, api, signals, told, history>>

FullStopFlags(o) ==
  /\ full_stop[o] = "flags"
  /\ mux' = MuxStopped(o)
  /\ full_stop' = [full_stop EXCEPT ![o] = "packet"]
  /\ UNCHANGED <<life, flags, connected, callback, end_thread, api, signals, told, history>>

(* ... then the callback without a packet: deactivate() with a code ... *)
FullStopPacket(o) ==
  /\ full_stop[o] = "packet" /\ ~Inside(o)
  /\ full_stop' = [full_stop EXCEPT ![o] = "detach"]
  /\ IF mux[o].active
     THEN /\ mux' = [mux EXCEPT ![o].active = FALSE]
          /\ stop_code' = [stop_code EXCEPT ![o] = EncodeError]
          /\ Enter(o, "error")
     ELSE UNCHANGED <<mux, stop_code, callback>>
  /\ UNCHANGED <<life, active, data_active, stopping_event, ending, connected, end_thread, api,
                 signals, told, history>>

(* ... and the callbacks are dropped. *)
FullStopDetach(o) ==
  /\ full_stop[o] = "detach" /\ callback[o].why # "error"
  /\ connected' = [connected EXCEPT ![o] = FALSE]
  /\ full_stop' = [full_stop EXCEPT ![o] = "done"]
  /\ UNCHANGED <<life, flags, mux, callback, end_thread, api, signals, told, history>>

(* signal_stop() and the reset of the code *)
SignalStop(o) ==
  /\ signals' = Append(signals, [out |-> o, code |-> stop_code[o]])
  /\ told' = [told EXCEPT ![o] = Append(@, stop_code[o])]
  /\ stop_code' = [stop_code EXCEPT ![o] = Success]

At(o, step) == callback' = [callback EXCEPT ![o].at = step]

(* obs_output_end_data_capture_internal(): nothing is captured (any more) *)
EndNothing(o) ==
  /\ callback[o].at = "end" /\ ~(active[o] /\ data_active[o])
  /\ SignalStop(o)
  /\ stopping_event' = [stopping_event EXCEPT ![o] = TRUE]
  /\ At(o, "leave")
  /\ early' = IF data_active[o] THEN early \cup {o} ELSE early
  /\ UNCHANGED <<life, active, data_active, ending, mux, connected, full_stop, end_thread, api,
                 failed, errored>>

EndDataCapture(o) ==
  /\ callback[o].at = "end" /\ active[o] /\ data_active[o]
  /\ data_active' = [data_active EXCEPT ![o] = FALSE]
  /\ At(o, "create")
  /\ UNCHANGED <<life, active, stop_code, stopping_event, ending, mux, connected, full_stop,
                 end_thread, api, signals, told, history>>

CreateEndThread(o) ==
  /\ callback[o].at = "create" /\ (ending[o] => end_thread[o] = "done")
  /\ ending' = [ending EXCEPT ![o] = TRUE]
  /\ end_thread' = [end_thread EXCEPT ![o] = "encoders"]
  /\ At(o, "signal")
  /\ UNCHANGED <<life, active, data_active, stop_code, stopping_event, mux, connected, full_stop,
                 api, signals, told, history>>

SignalEnd(o) ==
  /\ callback[o].at = "signal"
  /\ SignalStop(o)
  /\ At(o, "leave")
  /\ UNCHANGED <<life, active, data_active, stopping_event, ending, mux, connected, full_stop,
                 end_thread, api, history>>

(* Back in deactivate() and signal_failure() *)
Leave(o) ==
  /\ callback[o].at = "leave"
  /\ \/ /\ callback[o].why \in {"stop", "error"}
        /\ mux' = [mux EXCEPT ![o].stopping = FALSE]
        /\ callback' = [callback EXCEPT ![o] = Out]
        /\ UNCHANGED stop_code
     \/ /\ callback[o].why = "failed stop"
        /\ mux' = [mux EXCEPT ![o].stopping = FALSE]
        /\ stop_code' = [stop_code EXCEPT ![o] = EncodeError]
        /\ Enter(o, "failure")
     \/ /\ callback[o].why = "failure"
        /\ mux' = [mux EXCEPT ![o].capturing = FALSE]
        /\ callback' = [callback EXCEPT ![o] = Out]
        /\ UNCHANGED stop_code
  /\ UNCHANGED <<life, active, data_active, stopping_event, ending, connected, full_stop,
                 end_thread, api, signals, told, history>>

CallbackSteps(o) ==
  \/ FullStopReset(o) \/ FullStopFlags(o) \/ FullStopPacket(o) \/ FullStopDetach(o)
  \/ EndNothing(o) \/ EndDataCapture(o) \/ CreateEndThread(o) \/ SignalEnd(o) \/ Leave(o)

-----------------------------------------------------------------------------
(* end_data_capture_thread() *)

(* Faulty variant: a callback that runs is not waited for. *)
EncodersIdleAlways(o) == TRUE

(* obs_encoder_stop() needs the callbacks_mutex, which full_stop() does not *)
(* hold.  In some orders it would still wait for that thread, for a mutex   *)
(* that remove_connection() needs too; letting it go on there allows more   *)
(* than the code does, and only for outputs with a failed encoder, of which *)
(* no property speaks.                                                      *)
EncodersIdle(o) == ~Inside(o) \/ callback[o].why = "error"

StopEncoders(o) ==
  /\ end_thread[o] = "encoders" /\ EncodersIdle(o)
  /\ connected' = [connected EXCEPT ![o] = FALSE]
  /\ end_thread' = [end_thread EXCEPT ![o] = "active"]
  /\ UNCHANGED <<life, flags, mux, callback, full_stop, api, signals, told, history>>

ClearActive(o) ==
  /\ end_thread[o] = "active"
  /\ active' = [active EXCEPT ![o] = FALSE]
  /\ end_thread' = [end_thread EXCEPT ![o] = "event"]
  /\ UNCHANGED <<life, data_active, stop_code, stopping_event, ending, mux, connected, callback,
                 full_stop, api, signals, told, history>>

SignalEvent(o) ==
  /\ end_thread[o] = "event"
  /\ stopping_event' = [stopping_event EXCEPT ![o] = TRUE]
  /\ end_thread' = [end_thread EXCEPT ![o] = "flag"]
  /\ UNCHANGED <<life, active, data_active, stop_code, ending, mux, connected, callback,
                 full_stop, api, signals, told, history>>

(* Faulty variant: the flag says for good that there is a thread to join. *)
KeepEnding(o) ==
  /\ end_thread[o] = "flag"
  /\ end_thread' = [end_thread EXCEPT ![o] = "done"]
  /\ UNCHANGED <<life, flags, mux, connected, callback, full_stop, api, signals, told, history>>

ClearEnding(o) ==
  /\ end_thread[o] = "flag"
  /\ ending' = [ending EXCEPT ![o] = FALSE]
  /\ end_thread' = [end_thread EXCEPT ![o] = "done"]
  /\ UNCHANGED <<life, active, data_active, stop_code, stopping_event, mux, connected, callback,
                 full_stop, api, signals, told, history>>

EndThread(o) == StopEncoders(o) \/ ClearActive(o) \/ SignalEvent(o) \/ ClearEnding(o)

=============================================================================
