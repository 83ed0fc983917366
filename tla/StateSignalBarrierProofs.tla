----------------------- MODULE StateSignalBarrierProofs -----------------------
(***************************************************************************)
(* The barrier is safe for any finite set of Pods, with every failure.     *)
(***************************************************************************)
EXTENDS StateSignalBarrier, FiniteSetTheorems, TLAPS

\* Only a Pod that was subscribed is counted or answers.
OnlyArrivedAnswer ==
  /\ subs \subseteq Arrived
  /\ \A r \in replies : r.pod \in Arrived

\* A verdict on its way to a responder, or acted upon by one, was published.
VerdictsArePublished ==
  /\ \A p \in Pods : \A i \in 1..Len(inbox[p]) :
        inbox[p][i] \in {"success", "fail"} => inbox[p][i] = published
  /\ \A p \in Pods : resp[p] = "passed" => published = "success"
  /\ \A p \in Pods : resp[p] = "failed" => published = "fail"

\* The exporter goes from counting to the barrier, and from there to a verdict.
ExporterPhases ==
  /\ exporter \in {"off", "waiting", "barrier"} => published = "none"
  /\ exporter = "barrier" => subs = Pods
  /\ published = "success" => subs = Pods /\ answered = Pods

IInv ==
  /\ TypeOK
  /\ OnlyArrivedAnswer
  /\ VerdictsArePublished
  /\ ExporterPhases

-----------------------------------------------------------------------------
\* Delivering a signal appends it to the unread signals of the listeners and
\* leaves the others alone.
LEMMA DeliverLemma ==
  ASSUME NEW e \in Events, TypeOK, Deliver(e)
  PROVE  /\ inbox' \in [Pods -> Seq(Events)]
         /\ \A p \in Listeners :
              /\ Len(inbox'[p]) = Len(inbox[p]) + 1
              /\ inbox'[p][Len(inbox[p]) + 1] = e
              /\ \A i \in 1..Len(inbox[p]) : inbox'[p][i] = inbox[p][i]
         /\ \A p \in Pods \ Listeners : inbox'[p] = inbox[p]
  BY DEF Deliver, TypeOK, Listeners

\* Reading a signal drops the first one and keeps the others in order.
LEMMA TailLemma ==
  ASSUME NEW s \in Seq(Events), s # <<>>
  PROVE  /\ Tail(s) \in Seq(Events)
         /\ Head(s) \in Events
         /\ Head(s) = s[1]
         /\ Len(s) \in Nat \ {0}
         /\ Len(Tail(s)) = Len(s) - 1
         /\ \A i \in 1..Len(Tail(s)) : Tail(s)[i] = s[i + 1]
  OBVIOUS

-----------------------------------------------------------------------------
\* The verdict is published when the exporter says so: nothing else of the
\* invariant but the inboxes and the exporter moves.
LEMMA PublishVerdictLemma ==
  ASSUME IInv, exporter \in {"waiting", "barrier"},
         NEW e \in {"fail", "success"}, NEW c \in {0, 2, 110},
         e = "success" => subs = Pods /\ answered = Pods,
         PublishVerdict(e, c),
         UNCHANGED <<alive, subs, answered, resp, replies>>
  PROVE  IInv'
<1>1. TypeOK /\ Deliver(e) /\ e \in Events /\ published = "none"
  BY DEF IInv, PublishVerdict, Events, ExporterPhases
<1>2. TypeOK'
  BY <1>1, DeliverLemma
     DEF PublishVerdict, TypeOK, ExporterStates, Reply, Events, ResponderStates
<1>3. OnlyArrivedAnswer'
  BY DEF IInv, OnlyArrivedAnswer, Arrived
<1>4. VerdictsArePublished'
  <2>1. ASSUME NEW p \in Pods, NEW i \in 1..Len(inbox'[p]),
               inbox'[p][i] \in {"success", "fail"}
        PROVE  inbox'[p][i] = published'
    <3>1. CASE p \in Listeners
      <4>1. Len(inbox[p]) \in Nat
        BY DEF IInv, TypeOK
      <4>2. i \in 1..Len(inbox[p]) \/ i = Len(inbox[p]) + 1
        BY <1>1, <3>1, <4>1, DeliverLemma
      <4>3. CASE i = Len(inbox[p]) + 1
        BY <1>1, <3>1, <4>3, DeliverLemma DEF PublishVerdict
      <4>4. CASE i \in 1..Len(inbox[p])
        BY <1>1, <2>1, <3>1, <4>4, DeliverLemma DEF IInv, VerdictsArePublished
      <4>5. QED BY <4>2, <4>3, <4>4
    <3>2. CASE p \notin Listeners
      BY <1>1, <2>1, <3>2, DeliverLemma DEF IInv, VerdictsArePublished
    <3>3. QED BY <3>1, <3>2
  <2>2. QED BY <1>1, <2>1 DEF IInv, VerdictsArePublished
<1>5. ExporterPhases'
  BY DEF PublishVerdict, ExporterPhases
<1>6. QED BY <1>2, <1>3, <1>4, <1>5 DEF IInv

\* A signal that is not a verdict adds nothing the invariant looks at.
LEMMA DeliverSignalLemma ==
  ASSUME IInv, NEW e \in {"initialization", "barrier"}, Deliver(e),
         UNCHANGED <<published, resp>>
  PROVE  /\ inbox' \in [Pods -> Seq(Events)]
         /\ VerdictsArePublished'
<1>1. TypeOK /\ e \in Events
  BY DEF IInv, Events
<1>2. inbox' \in [Pods -> Seq(Events)]
  BY <1>1, DeliverLemma
<1>3. ASSUME NEW p \in Pods, NEW i \in 1..Len(inbox'[p]),
             inbox'[p][i] \in {"success", "fail"}
      PROVE  inbox'[p][i] = published'
  <2>1. CASE p \in Listeners
    <3>1. Len(inbox[p]) \in Nat
      BY DEF IInv, TypeOK
    <3>2. i \in 1..Len(inbox[p])
      BY <1>1, <1>3, <2>1, <3>1, DeliverLemma
    <3>3. QED
      BY <1>1, <1>3, <2>1, <3>2, DeliverLemma DEF IInv, VerdictsArePublished
  <2>2. CASE p \notin Listeners
    BY <1>1, <1>3, <2>2, DeliverLemma DEF IInv, VerdictsArePublished
  <2>3. QED BY <2>1, <2>2
<1>4. QED BY <1>2, <1>3 DEF IInv, VerdictsArePublished

\* A container that stops takes its unread signals, and the exporter, with it.
LEMMA StopMainLemma ==
  ASSUME IInv, NEW p \in Pods, StopMain(p)
  PROVE  IInv'
<1>1. TypeOK'
  BY DEF IInv, TypeOK, StopMain, ExporterStates, Reply
<1>2. OnlyArrivedAnswer'
  BY DEF IInv, OnlyArrivedAnswer, StopMain, Arrived
<1>3. VerdictsArePublished'
  BY DEF IInv, TypeOK, VerdictsArePublished, StopMain
<1>4. ExporterPhases'
  BY DEF IInv, ExporterPhases, StopMain
<1>5. QED BY <1>1, <1>2, <1>3, <1>4 DEF IInv

-----------------------------------------------------------------------------
LEMMA InitIInv == Init => IInv
  BY DEF Init, IInv, TypeOK, OnlyArrivedAnswer, VerdictsArePublished,
         ExporterPhases, ExporterStates, ResponderStates, Events

LEMMA NextIInv == IInv /\ [Next]_vars => IInv'
<1> SUFFICES ASSUME IInv, [Next]_vars
             PROVE  IInv'
  OBVIOUS
<1> USE BarrierAssumption
<1>1. CASE StartExporter
  BY <1>1 DEF StartExporter, IInv, TypeOK, OnlyArrivedAnswer, Arrived,
              VerdictsArePublished, ExporterPhases, ExporterStates
<1>2. CASE ExporterRefused
  BY <1>2 DEF ExporterRefused, IInv, TypeOK, OnlyArrivedAnswer, Arrived,
              VerdictsArePublished, ExporterPhases, ExporterStates
<1>3. CASE PublishInitialization
  <2>1. inbox' \in [Pods -> Seq(Events)] /\ VerdictsArePublished'
    BY <1>3, DeliverSignalLemma DEF PublishInitialization
  <2>2. QED
    BY <1>3, <2>1 DEF PublishInitialization, IInv, TypeOK, OnlyArrivedAnswer,
                      Arrived, ExporterPhases
<1>4. ASSUME NEW p \in Pods, HearInitialization(p)
      PROVE  IInv'
  <2>1. p \in Arrived
    BY <1>4 DEF HearInitialization, IInv, OnlyArrivedAnswer
  <2>2. QED
    BY <1>4, <2>1 DEF HearInitialization, IInv, TypeOK, OnlyArrivedAnswer,
                      Arrived, VerdictsArePublished, ExporterPhases
<1>5. CASE PublishBarrier
  <2>1. inbox' \in [Pods -> Seq(Events)] /\ VerdictsArePublished'
    BY <1>5, DeliverSignalLemma DEF PublishBarrier
  <2>2. subs = Pods
    <3>1. subs \subseteq Pods /\ IsFiniteSet(Pods)
      BY DEF IInv, TypeOK
    <3>2. Cardinality(subs) <= Cardinality(Pods) /\ IsFiniteSet(subs)
      BY <3>1, FS_Subset
    <3>3. Cardinality(subs) \in Nat /\ Cardinality(Pods) \in Nat
      BY <3>1, <3>2, FS_CardinalityType
    <3>4. Cardinality(subs) = Cardinality(Pods)
      BY <1>5, <3>2, <3>3 DEF PublishBarrier
    <3>5. QED BY <3>1, <3>4, FS_Subset
  <2>3. QED
    BY <1>5, <2>1, <2>2 DEF PublishBarrier, IInv, TypeOK, OnlyArrivedAnswer,
                            Arrived, ExporterPhases, ExporterStates
<1>6. CASE InitializationTimeout
  BY <1>6, PublishVerdictLemma DEF InitializationTimeout
<1>7. ASSUME NEW p \in Pods, HearBarrier(p)
      PROVE  IInv'
  BY <1>7 DEF HearBarrier, IInv, TypeOK, OnlyArrivedAnswer, Arrived,
              VerdictsArePublished, ExporterPhases
<1>8. CASE PublishSuccess
  <2>1. subs = Pods /\ answered = Pods
    BY <1>8 DEF PublishSuccess, IInv, ExporterPhases, TypeOK
  <2>2. QED BY <1>8, <2>1, PublishVerdictLemma DEF PublishSuccess
<1>9. CASE BarrierTimeout
  BY <1>9, PublishVerdictLemma DEF BarrierTimeout
<1>10. CASE Shutdown
  BY <1>10 DEF Shutdown, IInv, TypeOK, OnlyArrivedAnswer, Arrived,
               VerdictsArePublished, ExporterPhases, ExporterStates
<1>11. ASSUME NEW p \in Pods, StartResponder(p)
       PROVE  IInv'
  BY <1>11 DEF StartResponder, IInv, TypeOK, OnlyArrivedAnswer, Arrived,
               VerdictsArePublished, ExporterPhases, ResponderStates
<1>12. ASSUME NEW p \in Pods, ResponderRefused(p)
       PROVE  IInv'
  BY <1>12 DEF ResponderRefused, IInv, TypeOK, OnlyArrivedAnswer, Arrived,
               VerdictsArePublished, ExporterPhases, ResponderStates
<1>13. ASSUME NEW p \in Pods, Respond(p)
       PROVE  IInv'
  <2> DEFINE s == inbox[p]
             e == Head(s)
  <2>1. /\ s \in Seq(Events) /\ s # <<>>
        /\ p \in alive /\ resp[p] = "listening"
        /\ TypeOK /\ OnlyArrivedAnswer /\ VerdictsArePublished
        /\ ExporterPhases
    BY <1>13 DEF Respond, Listeners, IInv, TypeOK
  <2>2. e \in Events /\ e = s[1] /\ 1 \in 1..Len(s) /\ Tail(s) \in Seq(Events)
    <3> HIDE DEF s
    <3> QED BY <2>1, TailLemma
  <2>3. e \in {"success", "fail"} => e = published
    BY <2>1, <2>2 DEF VerdictsArePublished
  <2>4. /\ resp' = [resp EXCEPT ![p] = CASE e = "fail" -> "failed"
                                          [] e = "success" -> "passed"
                                          [] OTHER -> "listening"]
        /\ replies' = IF e \in {"initialization", "barrier"}
                      THEN replies \cup {[pod |-> p, event |-> e]}
                      ELSE replies
        /\ inbox' = [inbox EXCEPT ![p] = Tail(s)]
        /\ UNCHANGED <<alive, exporter, subs, answered, published, resCode>>
    BY <1>13 DEF Respond
  <2> HIDE DEF s, e
  <2>5. TypeOK'
    <3>1. resp' \in [Pods -> ResponderStates]
      BY <2>1, <2>4 DEF TypeOK, ResponderStates
    <3>2. replies' \subseteq Reply
      BY <2>1, <2>4 DEF TypeOK, Reply
    <3>3. inbox' \in [Pods -> Seq(Events)]
      BY <2>1, <2>2, <2>4 DEF TypeOK
    <3>4. QED BY <2>1, <2>4, <3>1, <3>2, <3>3 DEF TypeOK
  <2>6. OnlyArrivedAnswer'
    <3>1. Arrived' = Arrived
      BY <2>1, <2>4 DEF Arrived, TypeOK
    <3>2. p \in Arrived
      BY <2>1 DEF Arrived
    <3>3. QED BY <2>1, <2>4, <3>1, <3>2 DEF OnlyArrivedAnswer
  <2>7. VerdictsArePublished'
    <3>1. ASSUME NEW q \in Pods, NEW i \in 1..Len(inbox'[q]),
                 inbox'[q][i] \in {"success", "fail"}
          PROVE  inbox'[q][i] = published'
      <4>1. CASE q = p
        <5>1. inbox'[q] = Tail(s)
          BY <2>1, <2>4, <4>1 DEF TypeOK
        <5>2. /\ Len(s) \in Nat \ {0} /\ Len(Tail(s)) = Len(s) - 1
              /\ Tail(s)[i] = s[i + 1]
          BY <2>1, <3>1, <5>1, TailLemma
        <5>3. i + 1 \in 1..Len(s)
          BY <3>1, <5>1, <5>2
        <5>4. s = inbox[p]
          BY DEF s
        <5>5. QED
          BY <2>1, <2>4, <3>1, <5>1, <5>2, <5>3, <5>4 DEF VerdictsArePublished
      <4>2. CASE q # p
        BY <2>1, <2>4, <3>1, <4>2 DEF VerdictsArePublished, TypeOK
      <4>3. QED BY <4>1, <4>2
    <3>2. \A q \in Pods : /\ resp'[q] = "passed" => published' = "success"
                          /\ resp'[q] = "failed" => published' = "fail"
      BY <2>1, <2>3, <2>4 DEF VerdictsArePublished, TypeOK
    <3>3. QED BY <3>1, <3>2 DEF VerdictsArePublished
  <2>8. ExporterPhases'
    BY <2>1, <2>4 DEF ExporterPhases
  <2>9. QED BY <2>5, <2>6, <2>7, <2>8 DEF IInv
<1>14. ASSUME NEW p \in Pods, EndMain(p) \/ KillMain(p)
       PROVE  IInv'
  BY <1>14, StopMainLemma DEF EndMain, KillMain
<1>15. CASE UNCHANGED vars
  BY <1>15 DEF vars, IInv, TypeOK, OnlyArrivedAnswer, Arrived,
               VerdictsArePublished, ExporterPhases
<1>16. QED
  BY <1>1, <1>2, <1>3, <1>4, <1>5, <1>6, <1>7, <1>8, <1>9, <1>10, <1>11,
     <1>12, <1>13, <1>14, <1>15
     DEF Next, ExporterStep, Timeout, ResponderStep, Failure

-----------------------------------------------------------------------------
LEMMA Invariance == Spec => []IInv
<1>1. QED BY InitIInv, NextIInv, PTL DEF Spec

\* The state of the exporter, of the responders and of the signals in flight
\* stays in its type, whatever the number of Pods.
THEOREM TypeCorrect == Spec => []TypeOK
<1>1. IInv => TypeOK
  BY DEF IInv
<1>2. QED BY <1>1, Invariance, PTL

\* No responder returns 0 before every Pod has answered the "barrier" signal.
THEOREM NobodyPassesAlone == Spec => []PassedTogether
<1>1. IInv => PassedTogether
  BY DEF IInv, VerdictsArePublished, ExporterPhases, PassedTogether
<1>2. QED BY <1>1, Invariance, PTL

\* A published verdict, and the exit code it goes with, is final.
THEOREM VerdictIsFinal == Spec => OneVerdict
<1>1. IInv /\ [Next]_vars
        => [published # "none" =>
               published' = published /\ resCode' = resCode]_vars
  <2> SUFFICES ASSUME IInv, [Next]_vars, published # "none"
               PROVE  published' = published /\ resCode' = resCode
    BY DEF vars
  <2>1. exporter \notin {"off", "waiting", "barrier"}
    BY DEF IInv, ExporterPhases
  <2>2. QED
    BY <2>1 DEF Next, ExporterStep, Timeout, ResponderStep, Failure, vars,
       StartExporter, ExporterRefused, PublishInitialization,
       HearInitialization, PublishBarrier, InitializationTimeout, HearBarrier,
       PublishSuccess, BarrierTimeout, Shutdown, StartResponder,
       ResponderRefused, Respond, EndMain, KillMain, StopMain
<1>2. QED BY <1>1, Invariance, PTL DEF Spec, OneVerdict

-----------------------------------------------------------------------------
LEMMA DeliveredVerdict ==
  ASSUME TypeOK, NEW e \in {"fail", "success"}, NEW c, PublishVerdict(e, c),
         UNCHANGED <<alive, subs, resp>>
  PROVE  VerdictReachesSubscribers'
<1> SUFFICES ASSUME NEW p \in subs, resp[p] = "listening", p \in alive
             PROVE  \E i \in 1..Len(inbox'[p]) : inbox'[p][i] = published'
  BY DEF VerdictReachesSubscribers
<1>1. p \in Listeners /\ p \in Pods /\ e \in Events /\ Deliver(e)
  BY DEF Listeners, TypeOK, Events, PublishVerdict
<1>2. Len(inbox[p]) \in Nat
  BY <1>1 DEF TypeOK
<1>3. /\ Len(inbox'[p]) = Len(inbox[p]) + 1
      /\ inbox'[p][Len(inbox[p]) + 1] = published'
  BY <1>1, DeliverLemma DEF PublishVerdict
<1>4. QED BY <1>2, <1>3

\* A responder the exporter counted finds the verdict among its signals.
THEOREM VerdictIsNotLost == Spec => []VerdictReachesSubscribers
<1>1. Init => VerdictReachesSubscribers
  BY DEF Init, VerdictReachesSubscribers
<1>2. IInv /\ VerdictReachesSubscribers /\ [Next]_vars
        => VerdictReachesSubscribers'
  <2> SUFFICES ASSUME IInv, VerdictReachesSubscribers, [Next]_vars
               PROVE  VerdictReachesSubscribers'
    OBVIOUS
  <2> USE DEF VerdictReachesSubscribers
  <2>1. TypeOK /\ OnlyArrivedAnswer /\ ExporterPhases
    BY DEF IInv
  <2>2. CASE StartExporter \/ ExporterRefused \/ Shutdown \/ UNCHANGED vars
    BY <2>2 DEF StartExporter, ExporterRefused, Shutdown, vars
  <2>3. CASE PublishInitialization \/ PublishBarrier
    BY <2>1, <2>3 DEF PublishInitialization, PublishBarrier, ExporterPhases
  <2>4. ASSUME NEW p \in Pods, HearInitialization(p) \/ HearBarrier(p)
        PROVE  VerdictReachesSubscribers'
    BY <2>1, <2>4 DEF HearInitialization, HearBarrier, ExporterPhases
  <2>5. CASE InitializationTimeout
    BY <2>1, <2>5, DeliveredVerdict DEF InitializationTimeout
  <2>6. CASE BarrierTimeout
    BY <2>1, <2>6, DeliveredVerdict DEF BarrierTimeout
  <2>7. CASE PublishSuccess
    BY <2>1, <2>7, DeliveredVerdict DEF PublishSuccess
  <2>8. ASSUME NEW p \in Pods, StartResponder(p) \/ ResponderRefused(p)
        PROVE  VerdictReachesSubscribers'
    <3>1. p \notin subs
      BY <2>1, <2>8
         DEF OnlyArrivedAnswer, Arrived, StartResponder, ResponderRefused
    <3>2. QED
      BY <2>1, <2>8, <3>1 DEF StartResponder, ResponderRefused, TypeOK
  <2>9. ASSUME NEW p \in Pods, EndMain(p) \/ KillMain(p)
        PROVE  VerdictReachesSubscribers'
    BY <2>1, <2>9 DEF EndMain, KillMain, StopMain, TypeOK
  <2>10. ASSUME NEW p \in Pods, Respond(p)
         PROVE  VerdictReachesSubscribers'
    <3> SUFFICES ASSUME NEW q \in subs, resp'[q] = "listening", q \in alive,
                        published # "none"
                 PROVE  \E i \in 1..Len(inbox'[q]) : inbox'[q][i] = published
      BY <2>10 DEF Respond
    <3>1. CASE q # p
      BY <2>1, <2>10, <3>1 DEF Respond, TypeOK
    <3>2. CASE q = p
      <4> DEFINE s == inbox[p]
      <4>1. /\ s \in Seq(Events) /\ s # <<>> /\ resp[p] = "listening"
            /\ inbox'[p] = Tail(s)
        BY <2>1, <2>10 DEF Respond, Listeners, TypeOK
      <4>2. Head(s) \notin {"fail", "success"}
        <5> SUFFICES ASSUME Head(s) \in {"fail", "success"}
                     PROVE  resp'[p] # "listening"
          BY <3>2
        <5>1. resp'[p] = CASE Head(s) = "fail" -> "failed"
                           [] Head(s) = "success" -> "passed"
                           [] OTHER -> "listening"
          BY <2>1, <2>10 DEF Respond, TypeOK
        <5> HIDE DEF s
        <5>2. QED BY <5>1
      <4>3. PICK i \in 1..Len(s) : s[i] = published
        BY <3>2, <4>1
      <4> HIDE DEF s
      <4>4. published \in {"fail", "success"}
        BY <2>1 DEF TypeOK
      <4>5. i # 1
        BY <4>1, <4>2, <4>3, <4>4, TailLemma
      <4>6. /\ i - 1 \in 1..Len(Tail(s))
            /\ Tail(s)[i - 1] = s[i]
        BY <4>1, <4>3, <4>5, TailLemma
      <4>7. QED BY <3>2, <4>1, <4>3, <4>6
    <3>3. QED BY <3>1, <3>2
  <2>11. QED
    BY <2>2, <2>3, <2>4, <2>5, <2>6, <2>7, <2>8, <2>9, <2>10
       DEF Next, ExporterStep, Timeout, ResponderStep, Failure
<1>3. QED BY <1>1, <1>2, Invariance, PTL DEF Spec

-----------------------------------------------------------------------------
LEMMA InitRefinement == Init => SB!Init
  BY DEF Init, SB!Init, Arrived, Decision, Verdict

\* A step that changes neither a responder nor the verdict is a stutter.
LEMMA Stutter ==
  ASSUME UNCHANGED <<resp, published>>
  PROVE  UNCHANGED SB!barrierVars
  BY DEF SB!barrierVars, Arrived, Decision, Verdict

\* Publishing "fail" gives the barrier up, publishing "success" opens it.
LEMMA VerdictRefinement ==
  ASSUME published = "none", resp' = resp,
         \/ published' = "fail"
         \/ published' = "success" /\ Arrived = Pods
  PROVE  SB!Next
<1>1. Arrived' = Arrived /\ Verdict' = Verdict /\ Decision = "none"
  BY DEF Arrived, Verdict, Decision
<1>2. CASE published' = "fail"
  <2>1. Decision' = "abort"
    BY <1>2 DEF Decision
  <2>2. QED BY <1>1, <2>1 DEF SB!Next, SB!Abort
<1>3. CASE published' = "success" /\ Arrived = Pods
  <2>1. Decision' = "go"
    BY <1>3 DEF Decision
  <2>2. QED BY <1>1, <1>3, <2>1 DEF SB!Next, SB!Go
<1>4. QED BY <1>2, <1>3

LEMMA StepRefinement == IInv /\ [Next]_vars => [SB!Next]_(SB!barrierVars)
<1> SUFFICES ASSUME IInv, [Next]_vars
             PROVE  SB!Next \/ UNCHANGED SB!barrierVars
  OBVIOUS
<1>1. TypeOK /\ OnlyArrivedAnswer /\ VerdictsArePublished /\ ExporterPhases
  BY DEF IInv
<1>2. CASE \/ UNCHANGED vars \/ StartExporter \/ ExporterRefused
           \/ PublishInitialization \/ PublishBarrier \/ Shutdown
           \/ \E p \in Pods : \/ HearInitialization(p) \/ HearBarrier(p)
                             \/ EndMain(p) \/ KillMain(p)
  <2>1. UNCHANGED <<resp, published>>
    BY <1>2 DEF vars, StartExporter, ExporterRefused, PublishInitialization,
                PublishBarrier, Shutdown, HearInitialization, HearBarrier,
                EndMain, KillMain, StopMain
  <2>2. QED BY <2>1, Stutter
<1>3. CASE InitializationTimeout \/ BarrierTimeout
  BY <1>1, <1>3, VerdictRefinement
     DEF InitializationTimeout, BarrierTimeout, PublishVerdict, ExporterPhases
<1>4. CASE PublishSuccess
  <2>1. subs = Pods /\ published = "none"
    BY <1>1, <1>4 DEF PublishSuccess, ExporterPhases
  <2>2. Arrived = Pods
    BY <1>1, <2>1 DEF OnlyArrivedAnswer, Arrived
  <2>3. QED
    BY <1>4, <2>1, <2>2, VerdictRefinement DEF PublishSuccess, PublishVerdict
<1>5. ASSUME NEW p \in Pods, StartResponder(p)
      PROVE  SB!Next
  <2>1. p \notin Arrived /\ Arrived' = Arrived \cup {p} /\ Decision' = Decision
    BY <1>1, <1>5 DEF StartResponder, TypeOK, Arrived, Decision
  <2>2. \A q \in Pods : q # p => resp'[q] = resp[q]
    BY <1>1, <1>5 DEF StartResponder, TypeOK
  <2>3. resp[p] = "off" /\ resp'[p] = "listening"
    BY <1>1, <1>5 DEF StartResponder, TypeOK
  <2>4. Verdict' = Verdict
    BY <2>2, <2>3 DEF Verdict
  <2>5. QED BY <2>1, <2>4 DEF SB!Next, SB!Arrive
<1>6. ASSUME NEW p \in Pods, ResponderRefused(p)
      PROVE  UNCHANGED SB!barrierVars
  <2>1. Arrived' = Arrived /\ Decision' = Decision
    BY <1>1, <1>6 DEF ResponderRefused, TypeOK, Arrived, Decision
  <2>2. /\ resp[p] = "off" /\ resp'[p] = "refused"
        /\ \A q \in Pods : q # p => resp'[q] = resp[q]
    BY <1>1, <1>6 DEF ResponderRefused, TypeOK
  <2>3. Verdict' = Verdict
    BY <2>2 DEF Verdict
  <2>4. QED BY <2>1, <2>3 DEF SB!barrierVars
<1>7. ASSUME NEW p \in Pods, Respond(p)
      PROVE  SB!Next \/ UNCHANGED SB!barrierVars
  <2> DEFINE e == Head(inbox[p])
             r == CASE e = "fail" -> "failed"
                    [] e = "success" -> "passed"
                    [] OTHER -> "listening"
  <2>1. /\ resp[p] = "listening" /\ p \in Arrived
        /\ inbox[p] \in Seq(Events) /\ inbox[p] # <<>>
    BY <1>1, <1>7 DEF Respond, Listeners, TypeOK, Arrived
  <2>2. resp' = [resp EXCEPT ![p] = r] /\ published' = published
    BY <1>7 DEF Respond
  <2>3. e \in {"success", "fail"} => e = published
    BY <1>1, <2>1, TailLemma DEF VerdictsArePublished
  <2> HIDE DEF e
  <2>4. CASE e \notin {"success", "fail"}
    <3>1. resp' = resp
      BY <1>1, <2>1, <2>2, <2>4 DEF TypeOK
    <3>2. QED BY <2>2, <3>1, Stutter
  <2>5. CASE e \in {"success", "fail"}
    <3>1. Arrived' = Arrived /\ Decision' = Decision
      BY <1>1, <2>1, <2>2, <2>5 DEF TypeOK, Arrived, Decision
    <3>2. Decision # "none" /\ Verdict[p] = "none"
      BY <2>1, <2>3, <2>5 DEF Decision, Verdict, Arrived
    <3>3. /\ \A q \in Pods : q # p => resp'[q] = resp[q]
          /\ resp'[p] = IF e = "fail" THEN "failed" ELSE "passed"
      BY <1>1, <2>1, <2>2, <2>5 DEF TypeOK, Arrived
    <3>4. Verdict' = [Verdict EXCEPT ![p] = Decision]
      BY <2>1, <2>3, <2>5, <3>3 DEF Verdict, Decision, Arrived
    <3>5. QED BY <2>1, <3>1, <3>2, <3>4 DEF SB!Next, SB!Leave, Arrived
  <2>6. QED BY <2>4, <2>5
<1>8. QED
  BY <1>2, <1>3, <1>4, <1>5, <1>6, <1>7
     DEF Next, ExporterStep, Timeout, ResponderStep, Failure

\* The exporter and the responders implement the abstract barrier: it opens
\* only with every Pod there, and the Pods leave it with its one verdict.
THEOREM Refinement == Spec => ImplementsStartBarrier
<1>1. QED
  BY InitRefinement, StepRefinement, Invariance, PTL
     DEF Spec, ImplementsStartBarrier, SB!Spec

=============================================================================
