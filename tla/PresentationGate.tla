--------------------------- MODULE PresentationGate ---------------------------
(***************************************************************************)
(* What opens and closes the guest's display stream: clock calibration,    *)
(* the pause / drain / resume barrier of the virtual machine, and the loss *)
(* and return of the host session.                                         *)
(*                                                                         *)
(* Clock arithmetic is abstracted to its verdicts: a sample is rejected,   *)
(* accepted, or proves that the clocks jumped.                             *)
(***************************************************************************)
EXTENDS PresentationGuest

(***************************************************************************)
(* clock_fault: the mapping changed outside a sealed epoch.  Every record  *)
(* gets a ceiling, and results above it cannot be reported.                *)
(***************************************************************************)
ClockFault(asked) ==
  /\ clock' = [clock EXCEPT !.valid = FALSE, !.faulted = TRUE, !.asked = asked]
  /\ FlushShown(Waiting, Outstanding)

(***************************************************************************)
(* tick: waiting results that convert now are reported, records older than *)
(* RESULT_TIMEOUT expire (their clients get an error, because the scene    *)
(* may have been shown), a drain may be over, a calibration that took      *)
(* CLOCK_TIMEOUT is given up so that ordinary rendering resumes, and the   *)
(* clock may be asked for.                                                 *)
(***************************************************************************)
Expired(done, expired) ==
  [id \in Ids |-> IF id \in done THEN "none"
                  ELSE IF id \in expired THEN "expired" ELSE ledger[id]]

Tick(expired, late, ask) ==
  /\ Idle
  /\ late => connections > 0 /\ ~clock.valid
  /\ \E done \in Presentable(Waiting \ expired) :
     \E over \in SUBSET (done \cap ceiling) :
       LET left == Outstanding \ (done \cup expired)
           open == late /\ clock.reconnecting /\ pause.resumeToken = 0
           next == IF open THEN [AfterDrain(left) EXCEPT !.paused = FALSE]
                   ELSE AfterDrain(left)
       IN  /\ query' = [q \in Queries |-> IF q \in UNION {Feedbacks(id) : id \in expired}
                                          THEN Ended(query[q], "failed")
                                          ELSE Reported(done, over)[q]]
           /\ ledger' = Expired(done, expired)
           /\ ceiling' = ceiling \ (done \cup expired)
           /\ pause' = next
           /\ ask => MayAskClock \/ (open /\ ready /\ ~clock.asked)
           /\ clock' = [clock EXCEPT !.faulted = @ \/ late, !.reconnecting = @ /\ ~open,
                                     !.asked = @ \/ ask]
           /\ display' = Written(display, Acks(done) \o DrainReply(left)
                                            \o IF ask THEN ClockRequest ELSE <<>>)
  /\ UNCHANGED <<ready, surfaceVars, packet, epoch, up, connections, control, feedback>>

\* np_presentation_time_clock_sample.  SampleAccepted also ends a reconnect
\* and completes a resume, and flushes the results that waited for it.
SampleArrives ==
  /\ Idle
  /\ ready /\ Heard(feedback, "sample")
  /\ feedback' = Tail(feedback)

Current == clock.asked /\ Head(feedback).epoch = epoch

SampleRejected ==
  /\ SampleArrives
  /\ clock' = [clock EXCEPT !.asked = @ /\ ~Current]
  /\ UNCHANGED <<ready, surfaceVars, ledgerVars, epoch, pause, up, connections, display,
                 control>>

\* A sample that contradicts only the mapping of the previous connection is
\* good enough to replace it, so that it is accepted (SampleAccepted).
SampleFaults ==
  /\ SampleArrives
  /\ clock.valid /\ Current
  /\ ClockFault(FALSE)
  /\ UNCHANGED <<ready, surfaceVars, packet, epoch, up, connections, control>>

Calibrated == [valid |-> TRUE, faulted |-> FALSE, unverified |-> FALSE, old |-> FALSE,
               reconnecting |-> FALSE, asked |-> FALSE]

ResumedReply ==
  IF pause.resumeToken = 0 THEN <<>>
  ELSE <<[type |-> "resumed", token |-> pause.resumeToken]>>

\* The barrier state an accepted sample leaves behind.
Reopened ==
  IF pause.resumeToken # 0
  THEN [pause EXCEPT !.completedResume = pause.resumeToken, !.resumeToken = 0,
                     !.paused = FALSE]
  ELSE IF clock.reconnecting THEN [pause EXCEPT !.paused = FALSE] ELSE pause

SampleAccepted ==
  /\ SampleArrives
  /\ Current
  /\ clock' = Calibrated
  /\ \E limited \in {ceiling, IF clock.unverified /\ clock.old THEN Outstanding ELSE ceiling} :
     \E done \in SUBSET Waiting :
     \E over \in SUBSET (done \cap limited) :
       LET left == Outstanding \ done
       IN  /\ query' = Reported(done, over)
           /\ ceiling' = limited \ done
           /\ ledger' = Without(done)
           /\ pause' = [Reopened EXCEPT !.drainToken = AfterDrain(left).drainToken]
           /\ display' = Written(display, ResumedReply \o Acks(done) \o DrainReply(left))
  /\ UNCHANGED <<ready, surfaceVars, packet, epoch, up, connections, control>>

\* np_presentation_time_scene_clock_sample: the host's receipt time of one scene
\* contradicts its anchor, or improves it so that its result converts.
SceneSample(id) ==
  /\ Idle
  /\ ready /\ up
  /\ InLedger(id) /\ packet[id].epoch = epoch
  /\ \/ ClockFault(clock.asked)
     \/ ledger[id] = "shown" /\ FlushShown({id}, ceiling) /\ UNCHANGED clock
  /\ UNCHANGED <<ready, surfaceVars, packet, epoch, up, connections, control, feedback>>

-----------------------------------------------------------------------------
(* The barrier.                                                            *)

Reply(type, token) == display' = Written(display, <<[type |-> type, token |-> token]>>)
Stale(token) == pause.lastBarrier # 0 /\ token <= pause.lastBarrier

\* np_presentation_time_pause: PAUSE_REACHED follows every earlier scene.
ReceivePause ==
  /\ Idle
  /\ ready /\ Heard(control, "pause")
  /\ control' = Tail(control)
  /\ LET token == Head(control).token
         again == token = pause.pauseToken /\ pause.paused /\ pause.resumeToken = 0
     IN  IF Stale(token) /\ ~again THEN UNCHANGED <<pause, display>>
         ELSE /\ pause' = IF again THEN pause
                          ELSE [pause EXCEPT !.lastBarrier = token, !.paused = TRUE,
                                             !.pauseToken = token, !.reached = TRUE]
              /\ Reply("reached", token)
  /\ UNCHANGED <<ready, surfaceVars, ledgerVars, epoch, clock, up, connections,
                 feedback>>

\* np_presentation_time_drain
MayDrain(token) == pause.paused /\ pause.reached /\ token = pause.pauseToken

ReceiveDrain ==
  /\ Idle
  /\ ready /\ Heard(feedback, "drain")
  /\ feedback' = Tail(feedback)
  /\ LET token == Head(feedback).token
     IN  IF ~MayDrain(token) THEN UNCHANGED <<pause, display>>
         ELSE IF Outstanding = {}
         THEN pause' = [pause EXCEPT !.drainToken = 0] /\ Reply("drained", token)
         ELSE pause' = [pause EXCEPT !.drainToken = token] /\ UNCHANGED display
  /\ UNCHANGED <<ready, surfaceVars, ledgerVars, epoch, clock, up, connections,
                 control>>

\* np_presentation_time_resume: a new clock epoch, gated until it is calibrated.
ReceiveResume ==
  /\ Idle
  /\ ready /\ Heard(control, "resume")
  /\ control' = Tail(control)
  /\ LET token == Head(control).token
         done == token = pause.completedResume /\ token = pause.lastBarrier
     IN  IF done THEN Reply("resumed", token) /\ UNCHANGED <<pause, epoch, clock>>
         ELSE IF Stale(token) THEN UNCHANGED <<pause, epoch, clock, display>>
         ELSE /\ epoch' = epoch + 1
              /\ clock' = [valid |-> FALSE, faulted |-> FALSE,
                           unverified |-> clock.unverified \/ Outstanding # {},
                           old |-> clock.old \/ clock.valid,
                           reconnecting |-> clock.reconnecting, asked |-> TRUE]
              /\ pause' = [pause EXCEPT !.lastBarrier = token, !.paused = TRUE,
                                        !.drainToken = 0, !.resumeToken = token]
              /\ display' = Written(display, <<[type |-> "clock", epoch |-> epoch + 1]>>)
  /\ UNCHANGED <<ready, surfaceVars, ledgerVars, up, connections, feedback>>

-----------------------------------------------------------------------------
(* np_presentation_time_reset: what belongs to the connection is forgotten, *)
(* what belongs to the process is kept.                                    *)
ResetClock == [valid |-> FALSE, faulted |-> FALSE, unverified |-> TRUE,
               old |-> clock.old \/ clock.valid, reconnecting |-> TRUE, asked |-> FALSE]
ResetPause == [paused |-> FALSE, reached |-> FALSE, pauseToken |-> 0, drainToken |-> 0,
               resumeToken |-> 0, lastBarrier |-> 0, completedResume |-> 0]

\* np_backend_session_sync: the compositor notices that the session is lost.
GuestDetach ==
  /\ Idle
  /\ ready /\ ~up
  /\ ready' = FALSE
  /\ clock' = ResetClock
  /\ pause' = ResetPause
  /\ UNCHANGED <<surfaceVars, ledgerVars, epoch, up, connections, display, control, feedback>>

\* np_backend_session_sync: all lanes of a new connection are open.  Every
\* published window is marked for replay under a new presentation id.
Published == {r \in Roots : r \in alive /\ content[r] # 0}

GuestAttach ==
  /\ Idle
  /\ ~ready
  /\ ready' = TRUE
  /\ clock' = [ResetClock EXCEPT !.asked = TRUE]
  /\ pause' = ResetPause
  /\ \E order \in [Published -> 1 .. Cardinality(Published)] :
       /\ \A r, s \in Published : order[r] = order[s] => r = s
       /\ dirty' = [s \in Surfaces |-> IF s \in Published THEN nextId + order[s] - 1
                                       ELSE dirty[s]]
  /\ nextId + Cardinality(Published) <= MaxId + 1
  /\ nextId' = nextId + Cardinality(Published)
  /\ display' = <<[type |-> "started"]>> \o ClockRequest
  /\ UNCHANGED <<alive, content, cached, blocked, applying, flushing, ledgerVars, epoch, control, feedback>>
=============================================================================
