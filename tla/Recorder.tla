------------------------------ MODULE Recorder ------------------------------
(***************************************************************************)
(* Recording in the frontend (frontend/recorder.cpp and main-window.cpp):  *)
(* the window, its status and the outputs it starts, stops and leaves      *)
(* behind.                                                                 *)
(*                                                                         *)
(* A recording is an output of its own.  "start" is signalled on the       *)
(* window's thread, inside StartRecording(); "stop" comes from an encoder  *)
(* thread and waits in the event queue of the window, where a hotkey that  *)
(* is pressed later may be served first.                                   *)
(***************************************************************************)
EXTENDS OutputLife

CONSTANT Hotkeys      \* commands come from hotkeys and the tray, not only
                      \* from the buttons the window shows

ASSUME HotkeysAssumption == Hotkeys \in BOOLEAN

VARIABLES
  recordOutput,       \* the newest output, 0: none
  recordingActive,    \* what the window shows
  exiting,            \* "no", "window", "libobs", "gone"
  overtaken           \* history: a start was served before the "stop" of
                      \* the recording before it

windowVars == <<recordOutput, recordingActive, exiting, overtaken>>
vars == <<lifeVars, windowVars>>

Init ==
  /\ LifeInit
  /\ recordOutput = 0 /\ recordingActive = FALSE /\ exiting = "no" /\ overtaken = FALSE

-----------------------------------------------------------------------------
(* Recorder::RecordingActive() *)
RecordingActive == recordOutput # 0 /\ active[recordOutput]

NextOutput == recordOutput + 1

(* Recorder::StartRecording(); it does nothing while the last recording is *)
(* not over.  The Start button is shown while no recording is.             *)
StartRecording ==
  /\ exiting = "no" /\ NextOutput \in Outputs
  /\ Hotkeys \/ ~recordingActive
  /\ ~RecordingActive
  /\ Start(NextOutput) \/ StartFails(NextOutput)
  /\ recordOutput' = NextOutput
  /\ overtaken' = (overtaken \/ signals # << >> \/ \E o \in Outputs : Inside(o))
  /\ UNCHANGED <<recordingActive, exiting>>

(* The end of a start, and OnRecordStart() *)
Started ==
  /\ Activate
  /\ recordingActive' = TRUE
  /\ UNCHANGED <<recordOutput, exiting, overtaken>>

(* Recorder::StopRecording() *)
StopRecording ==
  /\ exiting = "no" /\ RecordingActive
  /\ Hotkeys \/ recordingActive
  /\ Stop(recordOutput)
  /\ UNCHANGED windowVars

(* Faulty variant: an error is shown instead. *)
ShownAfterError(signal) == signal.code # Success

(* The slot of recordingStopped *)
ShownAfter(signal) == FALSE

RecordingStopped ==
  /\ exiting = "no" /\ api = Idle /\ signals # << >>
  /\ signals' = Tail(signals)
  /\ recordingActive' = ShownAfter(Head(signals))
  /\ UNCHANGED <<life, flags, mux, connected, threads, api, told, history, recordOutput, exiting,
                 overtaken>>

(* The window is destroyed: Recorder::DestroyOutputs() *)
Exit ==
  /\ exiting = "no" /\ api = Idle
  /\ exiting' = IF recordOutput = 0 THEN "gone" ELSE "window"
  /\ IF recordOutput = 0 THEN UNCHANGED lifeVars ELSE ForceStop(recordOutput, "release")
  /\ UNCHANGED <<recordOutput, recordingActive, overtaken>>

(* obs_shutdown() destroys the outputs left behind. *)
LeftBehind == {o \in Outputs : life[o] = "live"}
ShutDown ==
  /\ exiting \in {"window", "libobs"} /\ api = Idle
  /\ IF LeftBehind = {}
     THEN exiting' = "gone" /\ UNCHANGED lifeVars
     ELSE /\ exiting' = "libobs"
          /\ \E o \in LeftBehind :
               /\ \A p \in LeftBehind : p <= o
               /\ api' = [Idle EXCEPT !.at = "release", !.out = o]
          /\ UNCHANGED <<life, flags, mux, connected, threads, signals, told, history>>
  /\ UNCHANGED <<recordOutput, recordingActive, overtaken>>

WindowSteps == Started \/ (ApiSteps /\ UNCHANGED windowVars) \/ RecordingStopped \/ ShutDown

Threads(o) ==
  /\ UNCHANGED windowVars
  /\ PacketStops(o) \/ WriteFails(o) \/ EncoderFails(o) \/ CallbackSteps(o) \/ EndThread(o)

Next ==
  \/ StartRecording \/ StopRecording \/ Exit
  \/ WindowSteps
  \/ \E o \in Outputs : Threads(o)

(* The window's thread and those of the outputs run, and packets come as    *)
(* long as an encoder is connected.                                        *)
Fairness ==
  /\ WF_vars(WindowSteps)
  /\ \A o \in Outputs :
       /\ WF_vars(PacketStops(o) /\ UNCHANGED windowVars)
       /\ WF_vars(CallbackSteps(o) /\ UNCHANGED windowVars)
       /\ WF_vars(EndThread(o) /\ UNCHANGED windowVars)

Spec == Init /\ [][Next]_vars
FairSpec == Spec /\ Fairness

-----------------------------------------------------------------------------
(* Properties *)

TypeOK ==
  /\ life \in [Outputs -> {"none", "live", "destroyed"}]
  /\ active \in [Outputs -> BOOLEAN] /\ data_active \in [Outputs -> BOOLEAN]
  /\ stop_code \in [Outputs -> {Success, EncodeError}]
  /\ stopping_event \in [Outputs -> BOOLEAN] /\ ending \in [Outputs -> BOOLEAN]
  /\ mux \in [Outputs -> [active : BOOLEAN, capturing : BOOLEAN, stopping : BOOLEAN]]
  /\ connected \in [Outputs -> BOOLEAN]
  /\ callback \in [Outputs -> [at : {"out", "end", "create", "signal", "leave"},
                               why : {"none", "stop", "failed stop", "failure", "error"}]]
  /\ full_stop \in [Outputs -> {"no", "reset", "flags", "packet", "detach", "done"}]
  /\ end_thread \in [Outputs -> {"none", "encoders", "active", "event", "flag", "done"}]
  /\ api.out \in Outputs \cup {0} /\ recordOutput \in Outputs \cup {0}
  /\ \A i \in DOMAIN signals : signals[i].out \in Outputs
  /\ \A o \in Outputs : ending[o] = (end_thread[o] \in {"encoders", "active", "event", "flag"})

(* No thread is inside an output, or will call it, when it is destroyed or  *)
(* when the next recording has begun, whatever stops and failures cross;   *)
(* only an encoder that failed may be.                                     *)
Quiet(o) == ~connected[o] /\ ~Inside(o) /\ end_thread[o] \in {"none", "done"}
OutputsApart ==
  /\ \A o \in Outputs \ errored : life[o] = "destroyed" => Quiet(o)
  /\ \A o \in Outputs : o < recordOutput => ~active[o]
  /\ \A o \in Outputs \ errored : o < recordOutput => ~connected[o] /\ ~Inside(o)

(* A session that is over has told so: success and then maybe the error of  *)
(* a write that failed during the stop, or the error alone, and never more; *)
(* unless the window was closed meanwhile, a failure is told as one.       *)
StopsTold ==
  \A o \in Outputs :
    /\ told[o] \in {<< >>, <<Success>>, <<EncodeError>>, <<Success, EncodeError>>}
                      \cup (IF exiting = "no" THEN {} ELSE {<<Success, Success>>})
    /\ end_thread[o] # "none" /\ ~Inside(o) => told[o] # << >>
    /\ o \in failed \ errored /\ exiting = "no" /\ end_thread[o] = "done" /\ ~Inside(o)
         => told[o][Len(told[o])] = EncodeError

(* When nothing is under way the window shows whether it records; unless a  *)
(* start was served before the "stop" of the last recording, or a session  *)
(* ended before it was active.                                             *)
StatusRight ==
  exiting = "no" /\ api = Idle /\ signals = << >> /\ ~overtaken /\ early = {}
    /\ (\A o \in Outputs : ~Inside(o) /\ full_stop[o] \in {"no", "done"}
                             /\ end_thread[o] \in {"none", "done"})
  => recordingActive = RecordingActive

(* A stop ends the recording, also if it fails meanwhile; and closing the   *)
(* window ends the program, unless it waits for ever for the event of an   *)
(* output that had already ended, which a force stop has reset.            *)
Stranded == api.at = "wait" /\ (~active[api.out] \/ api.out \in early)
StopEnds ==
  /\ \A o \in Outputs : (active[o] /\ mux[o].stopping) ~> (~active[o] \/ o \in early)
  /\ exiting # "no" ~> exiting = "gone" \/ []Stranded

=============================================================================
