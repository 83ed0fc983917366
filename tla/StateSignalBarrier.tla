------------------------- MODULE StateSignalBarrier -------------------------
(***************************************************************************)
(* The Redis StateSignal barrier of                                        *)
(* subprojects/state-signal-utils/state-signal_barrier.py, as the main     *)
(* containers of the local_ci_run_multi Job use it: pod 0 runs the         *)
(* exporter in the background, every pod runs a responder.  The            *)
(* state_signals library and Redis are external: a published signal        *)
(* reaches, in order, the responders subscribed at that time, and only     *)
(* those.                                                                  *)
(***************************************************************************)
EXTENDS Integers, Sequences, FiniteSets

CONSTANTS
  Pods,         \* the Pods of the Job; USER_COUNT is their number
  Leader,       \* the Pod with JOB_COMPLETION_INDEX 0
  WaitForever,  \* TRUE for STATE_SIGNAL_DELAY=-1, FALSE for a finite --delay
  MayDie,       \* the Pods whose main container may be killed
  MayRefuse,    \* the Pods whose connection to Redis may fail
  MaxUnread     \* bound on the unread signals of a responder

ASSUME BarrierAssumption ==
  /\ IsFiniteSet(Pods)
  /\ Leader \in Pods
  /\ WaitForever \in BOOLEAN
  /\ MayDie \subseteq Pods
  /\ MayRefuse \subseteq Pods
  /\ MaxUnread \in Nat \ {0}

VARIABLES
  alive,      \* the Pods whose main container runs
  exporter,   \* the control state of the exporter
  subs,       \* the responders that answered an "initialization" signal
  answered,   \* the responders that answered the "barrier" signal
  published,  \* the verdict signal: "none", "success" or "fail"
  resCode,    \* res_code, the exit code of the exporter
  resp,       \* the control state of the responder of each Pod
  inbox,      \* the signals delivered to each responder and not yet read
  replies     \* the answers on their way to the exporter

vars == <<alive, exporter, subs, answered, published, resCode, resp, inbox,
          replies>>

Events == {"initialization", "barrier", "fail", "success"}
ExporterStates == {"off", "waiting", "barrier", "verdict", "done", "dead"}
ResponderStates == {"off", "listening", "passed", "failed", "refused"}
Reply == [pod : Pods, event : {"initialization", "barrier"}]

TypeOK ==
  /\ alive \subseteq Pods
  /\ exporter \in ExporterStates
  /\ subs \subseteq Pods
  /\ answered \subseteq Pods
  /\ published \in {"none", "success", "fail"}
  /\ resCode \in {-1, 0, 2, 110}
  /\ resp \in [Pods -> ResponderStates]
  /\ inbox \in [Pods -> Seq(Events)]
  /\ replies \subseteq Reply

Init ==
  /\ alive = Pods
  /\ exporter = "off"
  /\ subs = {}
  /\ answered = {}
  /\ published = "none"
  /\ resCode = -1
  /\ resp = [p \in Pods |-> "off"]
  /\ inbox = [p \in Pods |-> <<>>]
  /\ replies = {}

-----------------------------------------------------------------------------
\* The responders of the Pods that are subscribed to the signals.
Listeners == {p \in alive : resp[p] = "listening"}

\* Redis publishes signal e: every subscriber gets it, nobody else ever will.
Deliver(e) ==
  inbox' = [p \in Pods |-> IF p \in Listeners THEN Append(inbox[p], e)
                                              ELSE inbox[p]]

\* publish_signal of a verdict, and the exit code it goes with.
PublishVerdict(e, code) ==
  /\ published' = e
  /\ resCode' = code
  /\ exporter' = "verdict"
  /\ Deliver(e)

-----------------------------------------------------------------------------
(* The exporter: StateSignalsExporter.state_signals_exporter.              *)

\* Pod 0 starts the exporter in the background of its main container.
StartExporter ==
  /\ exporter = "off"
  /\ Leader \in alive
  /\ exporter' = "waiting"
  /\ UNCHANGED <<alive, subs, answered, published, resCode, resp, inbox,
                 replies>>

\* The exporter cannot connect to Redis: it dies, and nobody waits for it.
ExporterRefused ==
  /\ exporter = "off"
  /\ Leader \in alive \cap MayRefuse
  /\ exporter' = "dead"
  /\ UNCHANGED <<alive, subs, answered, published, resCode, resp, inbox,
                 replies>>

\* Mutant: periodic=False, "initialization" is sent to the first comers only.
PublishInitializationOnce ==
  /\ exporter = "waiting"
  /\ subs = {} /\ replies = {}
  /\ \A p \in Listeners : inbox[p] = <<>>
  /\ Deliver("initialization")
  /\ UNCHANGED <<alive, exporter, subs, answered, published, resCode, resp,
                 replies>>

\* initialize_and_wait(periodic=True): "initialization" is sent repeatedly.
PublishInitialization ==
  /\ exporter = "waiting"
  /\ \A p \in Listeners : Len(inbox[p]) < MaxUnread
  /\ Deliver("initialization")
  /\ UNCHANGED <<alive, exporter, subs, answered, published, resCode, resp,
                 replies>>

\* A responder answered the initialization: one more subscriber.
HearInitialization(p) ==
  /\ exporter = "waiting"
  /\ [pod |-> p, event |-> "initialization"] \in replies
  /\ subs' = subs \cup {p}
  /\ replies' = replies \ {[pod |-> p, event |-> "initialization"]}
  /\ UNCHANGED <<alive, exporter, answered, published, resCode, resp, inbox>>

\* Mutant: one subscriber is not waited for.
PublishBarrierEarly ==
  /\ exporter = "waiting"
  /\ Cardinality(subs) + 1 >= Cardinality(Pods)
  /\ exporter' = "barrier"
  /\ Deliver("barrier")
  /\ UNCHANGED <<alive, subs, answered, published, resCode, resp, replies>>

\* await_sub_count subscribers are there: publish_signal("barrier").
PublishBarrier ==
  /\ exporter = "waiting"
  /\ Cardinality(subs) >= Cardinality(Pods)
  /\ exporter' = "barrier"
  /\ Deliver("barrier")
  /\ UNCHANGED <<alive, subs, answered, published, resCode, resp, replies>>

\* Mutant: the exporter returns 110 without telling the responders.
InitializationTimeoutSilent ==
  /\ ~ WaitForever
  /\ exporter = "waiting"
  /\ exporter' = "verdict"
  /\ resCode' = 110
  /\ UNCHANGED <<alive, subs, answered, published, resp, inbox, replies>>

\* --delay elapsed before every subscriber came: res_code 110, "fail".
InitializationTimeout ==
  /\ ~ WaitForever
  /\ exporter = "waiting"
  /\ PublishVerdict("fail", 110)
  /\ UNCHANGED <<alive, subs, answered, resp, replies>>

\* A subscriber answered the "barrier" signal.
HearBarrier(p) ==
  /\ exporter = "barrier"
  /\ [pod |-> p, event |-> "barrier"] \in replies
  /\ answered' = answered \cup {p}
  /\ replies' = replies \ {[pod |-> p, event |-> "barrier"]}
  /\ UNCHANGED <<alive, exporter, subs, published, resCode, resp, inbox>>

\* Mutant: "success" is published without waiting for the answers.
PublishSuccessAtOnce ==
  /\ exporter = "barrier"
  /\ PublishVerdict("success", 0)
  /\ UNCHANGED <<alive, subs, answered, resp, replies>>

\* All the subscribers answered: res_code 0, "success".
PublishSuccess ==
  /\ exporter = "barrier"
  /\ subs \subseteq answered
  /\ PublishVerdict("success", 0)
  /\ UNCHANGED <<alive, subs, answered, resp, replies>>

\* Mutant: a missing answer is taken for the failure of a subscriber.
BarrierTimeoutAsFailure ==
  /\ exporter = "barrier"
  /\ ~ (subs \subseteq answered)
  /\ PublishVerdict("fail", 1)
  /\ UNCHANGED <<alive, subs, answered, resp, replies>>

\* publish_signal gave up waiting for some subscribers: res_code 2, "fail".
BarrierTimeout ==
  /\ exporter = "barrier"
  /\ ~ (subs \subseteq answered)
  /\ PublishVerdict("fail", 2)
  /\ UNCHANGED <<alive, subs, answered, resp, replies>>

\* The answers to the verdict came or were given up: shutdown().
Shutdown ==
  /\ exporter = "verdict"
  /\ exporter' = "done"
  /\ UNCHANGED <<alive, subs, answered, published, resCode, resp, inbox,
                 replies>>

-----------------------------------------------------------------------------
(* The responders: StateSignalsResponder._listener.                        *)

\* The responder subscribes. Pod 0 does so after it launched the exporter.
StartResponder(p) ==
  /\ p \in alive
  /\ resp[p] = "off"
  /\ p = Leader => exporter # "off"
  /\ resp' = [resp EXCEPT ![p] = "listening"]
  /\ UNCHANGED <<alive, exporter, subs, answered, published, resCode, inbox,
                 replies>>

\* The responder cannot connect to Redis: it exits with an error.
ResponderRefused(p) ==
  /\ p \in alive \cap MayRefuse
  /\ resp[p] = "off"
  /\ p = Leader => exporter # "off"
  /\ resp' = [resp EXCEPT ![p] = "refused"]
  /\ UNCHANGED <<alive, exporter, subs, answered, published, resCode, inbox,
                 replies>>

\* Mutant: the responder subscribes anew for each signal, and loses the others.
RespondDropping(p) ==
  /\ p \in Listeners
  /\ inbox[p] # <<>>
  /\ LET e == Head(inbox[p]) IN
       /\ replies' = IF e \in {"initialization", "barrier"}
                     THEN replies \cup {[pod |-> p, event |-> e]}
                     ELSE replies
       /\ resp' = [resp EXCEPT ![p] = CASE e = "fail" -> "failed"
                                        [] e = "success" -> "passed"
                                        [] OTHER -> "listening"]
  /\ inbox' = [inbox EXCEPT ![p] = <<>>]
  /\ UNCHANGED <<alive, exporter, subs, answered, published, resCode>>

\* The responder reads a signal and answers it with srespond.
Respond(p) ==
  /\ p \in Listeners
  /\ inbox[p] # <<>>
  /\ LET e == Head(inbox[p]) IN
       /\ replies' = IF e \in {"initialization", "barrier"}
                     THEN replies \cup {[pod |-> p, event |-> e]}
                     ELSE replies
       /\ resp' = [resp EXCEPT ![p] = CASE e = "fail" -> "failed"
                                        [] e = "success" -> "passed"
                                        [] OTHER -> "listening"]
  /\ inbox' = [inbox EXCEPT ![p] = Tail(inbox[p])]
  /\ UNCHANGED <<alive, exporter, subs, answered, published, resCode>>

-----------------------------------------------------------------------------
(* The main containers the exporter and the responders run in.             *)

\* The main container stops, and what runs in it with it: of pod 0, the
\* exporter too.
StopMain(p) ==
  /\ alive' = alive \ {p}
  /\ inbox' = [inbox EXCEPT ![p] = <<>>]
  /\ exporter' = IF p = Leader /\ exporter # "done" THEN "dead" ELSE exporter
  /\ UNCHANGED <<subs, answered, published, resCode, resp, replies>>

\* The script ends after its responder: at once on an error (safe_exit), at
\* the end of the test otherwise.
EndMain(p) ==
  /\ p \in alive
  /\ resp[p] \in {"passed", "failed", "refused"}
  /\ StopMain(p)

\* The container is killed (out of memory, eviction, deletion of the Pod).
KillMain(p) ==
  /\ p \in alive \cap MayDie
  /\ StopMain(p)

-----------------------------------------------------------------------------
ExporterStep ==
  \/ StartExporter
  \/ PublishInitialization
  \/ \E p \in Pods : HearInitialization(p)
  \/ PublishBarrier
  \/ \E p \in Pods : HearBarrier(p)
  \/ PublishSuccess
  \/ Shutdown

Timeout == InitializationTimeout \/ BarrierTimeout

ResponderStep(p) == StartResponder(p) \/ Respond(p) \/ EndMain(p)

Failure ==
  \/ ExporterRefused
  \/ \E p \in Pods : ResponderRefused(p) \/ KillMain(p)

Next == ExporterStep \/ Timeout \/ (\E p \in Pods : ResponderStep(p)) \/ Failure

Spec == Init /\ [][Next]_vars

\* The processes run: each step that stays possible is taken in the end.
\* Nothing makes a failure happen.
Fairness ==
  /\ WF_vars(StartExporter)
  /\ WF_vars(PublishInitialization)
  /\ \A p \in Pods : WF_vars(HearInitialization(p))
  /\ \A p \in Pods : WF_vars(HearBarrier(p))
  /\ WF_vars(PublishBarrier)
  /\ WF_vars(PublishSuccess)
  /\ WF_vars(Timeout)
  /\ \A p \in Pods : WF_vars(StartResponder(p))
  /\ \A p \in Pods : WF_vars(Respond(p))

FairSpec == Spec /\ Fairness

-----------------------------------------------------------------------------
\* A responder that returned 0 proves that every Pod answered the "barrier"
\* signal: no Pod starts its test while another is still starting
\* (state-signal_barrier.py:27-39, job.yaml.j2:88-95).
PassedTogether ==
  \A p \in Pods : resp[p] = "passed" => answered = Pods

\* A verdict is published once, and the exit code of the exporter agrees with
\* it (state-signal_barrier.py:29-42).
OneVerdict ==
  [][published # "none" => published' = published /\ resCode' = resCode]_vars

\* The verdict is not lost: a Pod the exporter counted is still subscribed
\* when the verdict is published, and finds it among its signals
\* (state-signal_barrier.py:21,54-64).
VerdictReachesSubscribers ==
  \A p \in subs : resp[p] = "listening" /\ p \in alive /\ published # "none"
     => \E i \in 1..Len(inbox[p]) : inbox[p][i] = published

\* The barrier promises what StartBarrier says. A Pod has arrived once it is
\* subscribed; a Pod that could not reach Redis has not.
Arrived == {p \in Pods : resp[p] \in {"listening", "passed", "failed"}}

Decision == CASE published = "success" -> "go"
              [] published = "fail" -> "abort"
              [] OTHER -> "none"

Verdict == [p \in Pods |-> CASE resp[p] = "passed" -> "go"
                             [] resp[p] = "failed" -> "abort"
                             [] OTHER -> "none"]

SB == INSTANCE StartBarrier WITH arrived <- Arrived, decision <- Decision,
                                 verdict <- Verdict

\* The protocol of the exporter and the responders, with its failures, is a
\* StartBarrier (state-signal_barrier.py:19-64).
ImplementsStartBarrier == SB!Spec

\* If the exporter does not die before its verdict, a responder that runs
\* leaves the barrier in the end, whatever happens to the other Pods
\* (state-signal_barrier.py:54-64).
EveryoneLeaves ==
  [](exporter = "dead" => published # "none") =>
    \A p \in Pods : (resp[p] = "listening" /\ published = "none")
                      ~> (resp[p] # "listening" \/ p \notin alive)

=============================================================================
