-------------------------- MODULE Lifecycle_proofs --------------------------
(***************************************************************************)
(* Proofs about Lifecycle, for any controllers and tasks: what a shutdown   *)
(* leaves behind, and what the report of the standalone program holds.     *)
(***************************************************************************)
EXTENDS Lifecycle, TLAPS

-----------------------------------------------------------------------------
(* Controllers                                                             *)

(* While the loop has not begun there is no controller, the standalone      *)
(* program has one; nobody is interrupted in leaving before one has left;   *)
(* and from the end of the gather on a controller is busy only beside one   *)
(* that failed.                                                            *)
ControllersInv ==
  /\ DOMAIN controller = Controller
  /\ io = "new" => \A c \in Controller : controller[c] = "none"
  /\ program = "standalone" => \A c \in Controller \ {Local} : controller[c] = "none"
  /\ (\E c \in Controller : controller[c] \in {"hurried", "torn"})
       => \E c \in Controller : controller[c] = "stopped"
  /\ io \in {"closing", "raising", "ended"} /\ (\E c \in Controller : controller[c] \in Busy)
       => \E c \in Controller : controller[c] = "failed"

LEMMA LocalIsController == Local \in Controller
  BY LifecycleAssumption DEF Local

LEMMA ControllersStep == ControllersInv /\ [Next]_vars => ControllersInv'
<1> SUFFICES ASSUME ControllersInv, [Next]_vars PROVE ControllersInv'
  OBVIOUS
<1> USE LocalIsController DEF ControllersInv, Busy
<1>a. ASSUME UNCHANGED <<program, ioVars>> PROVE ControllersInv'
  BY <1>a DEF ioVars
<1>1. CASE MainThread
  BY <1>1, <1>a DEF MainThread, MainGoes, Configure, StartUp, Spawn, ShutDown, AnnounceStop,
     StopIo, JoinIo, StopWorker, JoinWorker, Exit, lifeVars
<1>2. CASE WorkerThread \/ JobRaises
  BY <1>2, <1>a DEF WorkerThread, WorkerStarts, CheckStop, Poll, JobEnds, JobRaises,
     WorkerEnds, Outside, lifeVars
<1>3. CASE Signal \/ Display \/ (LogCall("io") /\ UNCHANGED lifeVars)
  BY <1>3, <1>a DEF Signal, Display, lifeVars
<1>4. ASSUME NEW t \in Task, Accept(t) \/ UseTicket(t) \/ Finish(t) \/ Abandon(t)
      PROVE  ControllersInv'
  BY <1>4, <1>a DEF Accept, UseTicket, Finish, Abandon, Elsewhere
<1>5. CASE IoStarts
  BY <1>5 DEF IoStarts
<1>6. CASE GatherRaises
  BY <1>6 DEF GatherRaises, Elsewhere
<1>7. CASE SeeStop
  BY <1>7 DEF SeeStop, Cancelled, Elsewhere
<1>8. CASE CancelAgain
  BY <1>8 DEF CancelAgain, Cancelled, Elsewhere
<1>9. CASE AllStopped
  BY <1>9 DEF AllStopped, Elsewhere
<1>10. CASE RunEndsLoop
  BY <1>10 DEF RunEndsLoop, RunIsOver, Elsewhere
<1>11. CASE IoEnds
  BY <1>11 DEF IoEnds
<1>12. CASE RunParses \/ RunCompletes \/ RunFails \/ Absorb
  BY <1>12 DEF RunParses, RunCompletes, RunFails, RunGoes, Absorb, LoopRuns, Elsewhere
<1>13. ASSUME NEW c \in Controller, ControllerStops(c) \/ ControllerFails(c)
       PROVE  ControllersInv'
  BY <1>13 DEF ControllerStops, ControllerFails, LoopRuns, Elsewhere
<1>14. CASE UNCHANGED vars
  BY <1>14, <1>a DEF vars
<1>. QED
  BY <1>1, <1>2, <1>3, <1>4, <1>5, <1>6, <1>7, <1>8, <1>9, <1>10, <1>11, <1>12, <1>13, <1>14
  DEF Next, IoThread

(* No controller is cut off in the middle of its work by the end of the     *)
(* loop, and none is interrupted in leaving its consumer group before       *)
(* another has left, unless one has failed, for any number of controllers. *)
THEOREM StopReachesControllers == Spec => []ControllersStop
<1>1. Init => ControllersInv
  BY DEF Init, ControllersInv, Busy
<1>2. ControllersInv => ControllersStop
  BY DEF ControllersInv, ControllersStop
<1>. QED
  BY <1>1, <1>2, ControllersStep, PTL DEF Spec

-----------------------------------------------------------------------------
(* The renderer                                                            *)

Phases == {"called", "closing", "stopping"}
Names == Task \cup {"Parse Service Config", "Startup Service", "Shutdown Service",
                    "Parse Pipeline Config", "Run Pipeline", Unset, END_SECTION}
Errors == {NoError, "IO failed", "run failed", "Worker failed"}

Calls == [phase : Phases, name : Names, error : Errors, change : BOOLEAN]

(* Log calls have the form of one; the one that prints holds the lock; the  *)
(* end of the report carries no error, and any other call that prints       *)
(* closes a section with messages.                                         *)
CallsInv ==
  /\ call \in [Thread -> Calls \cup {NoCall}]
  /\ \A th \in Thread : call[th].phase \in {"closing", "stopping"} <=> lock = th
  /\ \A th \in Thread : call[th] # NoCall =>
       IF call[th].name = END_SECTION
         THEN call[th].error = NoError /\ ~call[th].change
         ELSE /\ call[th].phase # "stopping"
              /\ call[th].phase = "closing" => call[th].change

(* What was told is printed or among the messages of a failed section, and  *)
(* all of it is printed when the display is about to stop.                 *)
ErrorsInv ==
  /\ told \subseteq shown \cup errors
  /\ errors # {} => failed /\ active
  /\ \A th \in Thread : call[th].phase = "stopping" => errors \subseteq shown

RendererInv == CallsInv /\ ErrorsInv

LEMMA CallForms ==
  ASSUME CallsInv, NEW th \in Thread
  PROVE  /\ call[th] = NoCall <=> call[th].phase = "none"
         /\ call[th] # NoCall => call[th] \in Calls
         /\ call[th] # NoCall => call[th].phase \in Phases
  BY DEF CallsInv, Calls, Phases, NoCall

LEMMA NobodyIsNoThread == Nobody \notin Thread
  BY LifecycleAssumption DEF Nobody

LEMMA SayStep ==
  ASSUME RendererInv, NEW th \in Thread, NEW name \in Names, NEW error \in Errors,
         name = END_SECTION => error = NoError,
         call[th] = NoCall, Say(th, name, error)
  PROVE  RendererInv'
<1> DEFINE new == [phase |-> "called", name |-> name, error |-> error,
                   change |-> name \notin {END_SECTION, Unset, taskName}]
<1>1. /\ call' = [call EXCEPT ![th] = new]
      /\ UNCHANGED <<lock, errors, active, failed, shown, told>>
  BY DEF Say
<1>2. new \in Calls /\ new.phase = "called" /\ new # NoCall
  BY DEF Calls, Phases, NoCall
<1>3. lock # th
  BY CallForms DEF RendererInv, CallsInv
<1>4. new.name = END_SECTION => new.error = NoError /\ ~new.change
  OBVIOUS
<1>. HIDE DEF new
<1>5. CallsInv'
  BY <1>1, <1>2, <1>3, <1>4 DEF RendererInv, CallsInv
<1>6. ErrorsInv'
  BY <1>1, <1>2 DEF RendererInv, CallsInv, ErrorsInv
<1>. QED
  BY <1>5, <1>6 DEF RendererInv

(* A record whose phase alone changes.                                     *)
LEMMA PhaseMoves ==
  ASSUME NEW r \in Calls, NEW p \in Phases
  PROVE  LET q == [r EXCEPT !.phase = p] IN
           /\ q \in Calls /\ q.phase = p /\ q # NoCall
           /\ q.name = r.name /\ q.error = r.error /\ q.change = r.change
  BY DEF Calls, Phases, NoCall

LEMMA NoteStep ==
  ASSUME RendererInv, NEW th \in Thread, Note(th) PROVE RendererInv'
<1> USE DEF RendererInv
<1>1. /\ call' = [call EXCEPT ![th] = NoCall] /\ NoCall.phase = "none"
      /\ lock = Nobody /\ lock' = lock
  BY DEF Note, Return, NoCall
<1>2. \A u \in Thread : lock # u
  BY <1>1, NobodyIsNoThread
<1>3. CallsInv'
  BY <1>1, <1>2 DEF CallsInv
<1>4. /\ told' = told \cup ({call[th].error} \ {NoError})
      /\ errors' = (IF call[th].change THEN {} ELSE errors) \cup ({call[th].error} \ {NoError})
      /\ shown' = shown /\ active' = TRUE
      /\ failed' = ({call[th].error} \ {NoError} # {} \/ (failed /\ ~call[th].change))
      /\ call[th].change => ~active
  BY DEF Note, Return, File
<1>5. ErrorsInv'
  BY <1>1, <1>2, <1>4, CallForms DEF CallsInv, ErrorsInv
<1>. QED
  BY <1>3, <1>5

LEMMA LockStep ==
  ASSUME RendererInv, NEW th \in Thread, Lock(th) PROVE RendererInv'
<1> USE DEF RendererInv
<1> DEFINE p == IF active THEN "closing" ELSE "stopping"
<1>1. /\ call[th].phase = "called" /\ lock = Nobody /\ lock' = th
      /\ call' = [call EXCEPT ![th] = [call[th] EXCEPT !.phase = p]]
      /\ UNCHANGED <<errors, active, failed, shown, told>>
      /\ call[th].name = END_SECTION \/ (call[th].change /\ active)
  BY DEF Lock
<1>2. /\ call[th] \in Calls
      /\ p \in {"closing", "stopping"} /\ p \in Phases
      /\ p = "stopping" <=> ~active
  BY <1>1, CallForms DEF Phases
<1>. HIDE DEF p
<1>3. PICK q : q = [call[th] EXCEPT !.phase = p]
  OBVIOUS
<1>4. /\ q \in Calls /\ q.phase = p /\ q # NoCall
      /\ q.name = call[th].name /\ q.error = call[th].error /\ q.change = call[th].change
  BY <1>2, <1>3, PhaseMoves
<1>5. \A u \in Thread : call[u].phase \notin {"closing", "stopping"}
  BY <1>1, NobodyIsNoThread DEF CallsInv
<1>6. call' = [call EXCEPT ![th] = q]
  BY <1>1, <1>3
<1>7. CallsInv'
  BY <1>1, <1>2, <1>4, <1>5, <1>6, CallForms DEF CallsInv
<1>8. ErrorsInv'
  BY <1>1, <1>2, <1>4, <1>5, <1>6 DEF CallsInv, ErrorsInv
<1>. QED
  BY <1>7, <1>8

LEMMA CloseStep ==
  ASSUME RendererInv, NEW th \in Thread, Close(th) PROVE RendererInv'
<1> USE DEF RendererInv
<1>1. /\ call[th].phase = "closing" /\ lock = th /\ call[th] \in Calls
      /\ \A u \in Thread \ {th} : call[u].phase \notin {"closing", "stopping"}
  BY CallForms DEF Close, CallsInv
<1>2. shown \cup errors \subseteq shown' /\ shown' \subseteq shown \cup errors
  BY DEF Close, ErrorsInv
<1>3. CASE call[th].name = END_SECTION
  <2>1. /\ call' = [call EXCEPT ![th] = [call[th] EXCEPT !.phase = "stopping"]]
        /\ UNCHANGED <<lock, errors, active, failed, told>>
    BY <1>3 DEF Close
  <2>2. PICK q : q = [call[th] EXCEPT !.phase = "stopping"]
    OBVIOUS
  <2>3. /\ q \in Calls /\ q.phase = "stopping" /\ q # NoCall
        /\ q.name = call[th].name /\ q.error = call[th].error /\ q.change = call[th].change
    BY <1>1, <2>2, PhaseMoves DEF Phases
  <2>4. call' = [call EXCEPT ![th] = q]
    BY <2>1, <2>2
  <2>5. CallsInv'
    BY <1>1, <1>3, <2>1, <2>3, <2>4, CallForms DEF CallsInv
  <2>6. ErrorsInv'
    BY <1>1, <1>2, <2>1, <2>3, <2>4 DEF CallsInv, ErrorsInv
  <2>. QED
    BY <2>5, <2>6
<1>4. CASE call[th].name # END_SECTION
  <2>1. /\ call' = [call EXCEPT ![th] = NoCall] /\ NoCall.phase = "none" /\ lock' = Nobody
        /\ call[th].change /\ call[th] # NoCall
        /\ told' = told \cup ({call[th].error} \ {NoError})
    BY <1>1, <1>4, CallForms DEF Close, Return, NoCall, CallsInv
  <2>2. /\ errors' = {call[th].error} \ {NoError}
        /\ failed' = (errors' # {}) /\ active' = TRUE
    BY <1>4, <2>1 DEF Close, File
  <2>3. CallsInv'
    BY <1>1, <2>1, NobodyIsNoThread DEF CallsInv
  <2>4. ErrorsInv'
    BY <1>1, <1>2, <2>1, <2>2 DEF CallsInv, ErrorsInv
  <2>. QED
    BY <2>3, <2>4
<1>. QED
  BY <1>3, <1>4

LEMMA EndStep ==
  ASSUME RendererInv, NEW th \in Thread, End(th)
  PROVE  RendererInv' /\ told' \subseteq shown' /\ refresher' = "off"
<1> USE DEF RendererInv
<1>1. /\ call[th].phase = "stopping" /\ lock = th /\ call[th] # NoCall
      /\ call' = [call EXCEPT ![th] = NoCall] /\ NoCall.phase = "none" /\ lock' = Nobody
      /\ errors' = {} /\ shown' = shown /\ refresher' = "off"
      /\ told' = told \cup ({call[th].error} \ {NoError})
  BY CallForms DEF End, Return, NoCall, CallsInv
<1>2. call[th].error = NoError
  BY <1>1 DEF CallsInv
<1>3. told' \subseteq shown'
  BY <1>1, <1>2 DEF ErrorsInv
<1>4. CallsInv'
  BY <1>1, NobodyIsNoThread DEF CallsInv
<1>5. ErrorsInv'
  BY <1>1, <1>3, <1>4 DEF CallsInv, ErrorsInv
<1>. QED
  BY <1>1, <1>3, <1>4, <1>5

LEMMA LogCallStep ==
  ASSUME RendererInv, NEW th \in Thread, LogCall(th) PROVE RendererInv'
  BY NoteStep, LockStep, CloseStep, EndStep DEF LogCall

LEMMA QuietStep ==
  ASSUME RendererInv, Wake \/ Paint \/ UNCHANGED rendererVars PROVE RendererInv'
  BY DEF Wake, Paint, rendererVars, RendererInv, CallsInv, ErrorsInv

-----------------------------------------------------------------------------
(* The threads                                                             *)

(* A thread that has not begun or is done with its work has no log call     *)
(* under way, and the main thread is past a join only when the thread it    *)
(* joined has ended.                                                       *)
JoinsInv ==
  /\ program \in {"service", "standalone"}
  /\ io \in {"new", "ended"} => call["io"] = NoCall
  /\ worker \in {"new", "polling", "ended"} => call["worker"] = NoCall
  /\ main \in {"stopping worker", "joining worker", "leaving", "exited"} => io = "ended"
  /\ main \in {"leaving", "exited"} => worker = "ended"
  /\ main = "exited" => call["main"] = NoCall

(* The last log call of the main thread ends the report.                   *)
LastCallInv ==
  main \in {"leaving", "exited"} /\ program = "standalone" =>
    IF call["main"] = NoCall
      THEN told \subseteq shown /\ refresher = "off"
      ELSE call["main"].name = END_SECTION

ReportInv == RendererInv /\ JoinsInv /\ LastCallInv

LEMMA Threads == {"main", "io", "worker"} = Thread
  BY LifecycleAssumption

(* Every step of the program makes one step of the renderer at most.        *)
Speaks(th) ==
  /\ call[th] = NoCall
  /\ \E name \in Names, error \in Errors :
       (name = END_SECTION => error = NoError) /\ Say(th, name, error)

LEMMA LogsSpeaks ==
  ASSUME NEW th \in Thread, NEW name \in Names, NEW error \in Errors,
         name = END_SECTION => error = NoError,
         call[th] = NoCall, Logs(th, name, error)
  PROVE  Speaks(th) \/ UNCHANGED rendererVars
  BY DEF Logs, Speaks

LEMMA MainSpeaks ==
  ASSUME Configure \/ StartUp \/ Spawn \/ ShutDown \/ AnnounceStop \/ JoinIo \/ JoinWorker
         \/ StopIo \/ StopWorker \/ Exit \/ Signal
  PROVE  Speaks("main") \/ UNCHANGED rendererVars
<1>a. ASSUME NEW name \in Names, Free("main"), Logs("main", name, NoError)
      PROVE  Speaks("main") \/ UNCHANGED rendererVars
  BY <1>a, LogsSpeaks, Threads DEF Free, Errors
<1> USE DEF MainGoes, Names
<1>1. CASE Configure
  BY <1>1, <1>a DEF Configure
<1>2. CASE StartUp
  BY <1>2, <1>a DEF StartUp
<1>3. CASE Spawn
  BY <1>3, <1>a DEF Spawn
<1>4. CASE ShutDown
  BY <1>4, <1>a DEF ShutDown
<1>5. CASE AnnounceStop
  BY <1>5, <1>a DEF AnnounceStop
<1>6. CASE JoinIo
  BY <1>6, <1>a DEF JoinIo
<1>7. CASE JoinWorker
  BY <1>7, <1>a DEF JoinWorker
<1>8. CASE StopIo \/ StopWorker \/ Exit \/ Signal
  BY <1>8 DEF StopIo, StopWorker, Exit, Signal, Silent
<1>. QED
  BY <1>1, <1>2, <1>3, <1>4, <1>5, <1>6, <1>7, <1>8

IoActs ==
  \/ IoStarts \/ GatherRaises \/ SeeStop \/ CancelAgain \/ AllStopped
  \/ RunEndsLoop \/ IoEnds \/ RunParses \/ RunCompletes \/ RunFails \/ Absorb
  \/ \E c \in Controller : ControllerStops(c) \/ ControllerFails(c)
  \/ \E t \in Task : Accept(t) \/ UseTicket(t) \/ Finish(t) \/ Abandon(t)

LEMMA IoSpeaks ==
  ASSUME JoinsInv, IoActs
  PROVE  Speaks("io") \/ UNCHANGED rendererVars
<1>a. ASSUME NEW name \in Names, NEW error \in Errors, name = END_SECTION => error = NoError,
             Free("io"), Logs("io", name, error)
      PROVE  Speaks("io") \/ UNCHANGED rendererVars
  BY <1>a, LogsSpeaks, Threads DEF Free
<1>b. \A name \in {"Parse Pipeline Config", "Run Pipeline", Unset} : name # END_SECTION
  BY DEF Unset, END_SECTION
<1> USE <1>b DEF Names, Errors
<1>1. CASE IoStarts
  BY <1>1, <1>a DEF IoStarts, JoinsInv, Free
<1>2. CASE AllStopped
  BY <1>2, <1>a DEF AllStopped
<1>3. CASE RunEndsLoop
  BY <1>3, <1>a DEF RunEndsLoop
<1>4. CASE RunParses
  BY <1>4, <1>a DEF RunParses
<1>5. CASE RunCompletes
  BY <1>5, <1>a DEF RunCompletes, RunGoes
<1>6. CASE RunFails
  BY <1>6, <1>a DEF RunFails, RunGoes
<1>7. ASSUME NEW t \in Task, Accept(t) PROVE Speaks("io") \/ UNCHANGED rendererVars
  BY <1>7, <1>a DEF Accept
<1>8. ASSUME NEW t \in Task, Finish(t) PROVE Speaks("io") \/ UNCHANGED rendererVars
  BY <1>8, <1>a DEF Finish
<1>9. CASE \/ GatherRaises \/ SeeStop \/ CancelAgain \/ IoEnds \/ Absorb
           \/ \E c \in Controller : ControllerStops(c) \/ ControllerFails(c)
           \/ \E t \in Task : UseTicket(t) \/ Abandon(t)
  BY <1>9 DEF GatherRaises, SeeStop, CancelAgain, IoEnds, Absorb, ControllerStops,
     ControllerFails, UseTicket, Abandon, Silent
<1>. QED
  BY <1>1, <1>2, <1>3, <1>4, <1>5, <1>6, <1>7, <1>8, <1>9 DEF IoActs

LEMMA WorkerSpeaks ==
  ASSUME JoinsInv, WorkerStarts \/ CheckStop \/ Poll \/ JobEnds \/ JobRaises \/ WorkerEnds
  PROVE  Speaks("worker") \/ UNCHANGED rendererVars
<1>a. ASSUME NEW error \in Errors, Free("worker"), Logs("worker", Unset, error)
      PROVE  Speaks("worker") \/ UNCHANGED rendererVars
  BY <1>a, LogsSpeaks, Threads DEF Free, Unset, END_SECTION, Names
<1> USE DEF Errors
<1>1. CASE WorkerStarts
  BY <1>1, <1>a DEF WorkerStarts, JoinsInv, Free
<1>2. CASE CheckStop
  BY <1>2, <1>a DEF CheckStop, Silent
<1>3. CASE Poll
  BY <1>3, <1>a DEF Poll, JoinsInv, Free, Silent
<1>4. CASE JobRaises
  BY <1>4, <1>a DEF JobRaises
<1>5. CASE JobEnds \/ WorkerEnds
  BY <1>5 DEF JobEnds, WorkerEnds, Silent
<1>. QED
  BY <1>1, <1>2, <1>3, <1>4, <1>5

(* What a step does to the log call of each thread.                        *)
LEMMA CallMoves ==
  ASSUME RendererInv, NEW th \in Thread,
         \/ Speaks(th) \/ LogCall(th) \/ Wake \/ Paint \/ UNCHANGED rendererVars
  PROVE  /\ \A u \in Thread \ {th} : call'[u] = call[u]
         /\ LogCall(th) => call[th] # NoCall /\ UNCHANGED terminal
<1>1. /\ call \in [Thread -> Calls \cup {NoCall}]
      /\ NoCall.phase = "none"
  BY DEF RendererInv, CallsInv, NoCall
<1>2. CASE Speaks(th)
  <2>1. \A u \in Thread \ {th} : call'[u] = call[u]
    BY <1>1, <1>2 DEF Speaks, Say
  <2>2. LogCall(th) => FALSE
    BY <1>1, <1>2 DEF Speaks, LogCall, Note, Lock, Close, End
  <2>. QED
    BY <2>1, <2>2
<1>3. CASE LogCall(th)
  BY <1>1, <1>3 DEF LogCall, Note, Lock, Close, End, Return
<1>4. CASE Wake \/ Paint \/ UNCHANGED rendererVars
  BY <1>1, <1>4 DEF Wake, Paint, rendererVars, LogCall, Note, Lock, Close, End
<1>. QED
  BY <1>2, <1>3, <1>4

MainActs == Configure \/ StartUp \/ Spawn \/ ShutDown \/ AnnounceStop \/ JoinIo \/ JoinWorker
            \/ StopIo \/ StopWorker \/ Exit \/ Signal

WorkerActs == WorkerStarts \/ CheckStop \/ Poll \/ JobEnds \/ JobRaises \/ WorkerEnds

Renders == \/ \E th \in Thread : LogCall(th)
           \/ Wake \/ Paint \/ UNCHANGED rendererVars

LEMMA NextSplits ==
  ASSUME [Next]_vars
  PROVE  MainActs \/ IoActs \/ WorkerActs \/ (Renders /\ UNCHANGED lifeVars)
<1>1. CASE UNCHANGED vars
  BY <1>1 DEF vars, lifeVars, Renders, ioVars, workerVars, stopVars
<1>2. CASE MainThread \/ Signal
  BY <1>2, Threads DEF MainThread, MainActs, Renders
<1>3. CASE IoThread
  BY <1>3, Threads DEF IoThread, IoActs, Renders
<1>4. CASE WorkerThread \/ JobRaises
  BY <1>4, Threads DEF WorkerThread, WorkerActs, Renders
<1>5. CASE \/ RunFails \/ Absorb
           \/ \E c \in Controller : ControllerFails(c)
           \/ \E t \in Task : Accept(t) \/ UseTicket(t) \/ Finish(t) \/ Abandon(t)
  BY <1>5 DEF IoActs
<1>6. CASE Display
  BY <1>6 DEF Display, Renders
<1>. QED
  BY <1>1, <1>2, <1>3, <1>4, <1>5, <1>6 DEF Next

LEMMA RendererStep ==
  ASSUME RendererInv, JoinsInv, MainActs \/ IoActs \/ WorkerActs \/ Renders
  PROVE  RendererInv'
<1>1. ASSUME NEW th \in Thread, Speaks(th) PROVE RendererInv'
  BY <1>1, SayStep DEF Speaks
<1>2. MainActs => Speaks("main") \/ UNCHANGED rendererVars
  BY MainSpeaks DEF MainActs
<1>3. IoActs => Speaks("io") \/ UNCHANGED rendererVars
  BY IoSpeaks DEF IoActs
<1>4. WorkerActs => Speaks("worker") \/ UNCHANGED rendererVars
  BY WorkerSpeaks DEF WorkerActs
<1>. QED
  BY <1>1, <1>2, <1>3, <1>4, Threads, LogCallStep, QuietStep DEF Renders

LEMMA JoinsStep ==
  ASSUME RendererInv, JoinsInv,
         MainActs \/ IoActs \/ WorkerActs \/ (Renders /\ UNCHANGED lifeVars)
  PROVE  JoinsInv'
<1> USE DEF JoinsInv
<1>0. {"main", "io", "worker"} = Thread
  BY Threads
<1>1. CASE MainActs
  <2>1. call'["io"] = call["io"] /\ call'["worker"] = call["worker"]
    BY <1>0, <1>1, MainSpeaks, CallMoves DEF MainActs
  <2>2. UNCHANGED <<program, io, worker>>
    BY <1>1 DEF MainActs, Configure, StartUp, Spawn, ShutDown, AnnounceStop, JoinIo, JoinWorker,
       StopIo, StopWorker, Exit, Signal, MainGoes, ioVars, workerVars
  <2>3. /\ main' \in {"stopping worker", "joining worker", "leaving", "exited"} => io = "ended"
        /\ main' \in {"leaving", "exited"} => worker = "ended"
    BY <1>1 DEF MainActs, Configure, StartUp, Spawn, ShutDown, AnnounceStop, JoinIo, JoinWorker,
       StopIo, StopWorker, Exit, Signal, MainGoes
  <2>4. main' = "exited" => call'["main"] = NoCall
    BY <1>1 DEF MainActs, Configure, StartUp, Spawn, ShutDown, AnnounceStop, JoinIo, JoinWorker,
       StopIo, StopWorker, Exit, Signal, MainGoes, Free, Silent, rendererVars
  <2>. QED
    BY <2>1, <2>2, <2>3, <2>4
<1>2. CASE IoActs
  <2>1. call'["main"] = call["main"] /\ call'["worker"] = call["worker"]
    BY <1>0, <1>2, IoSpeaks, CallMoves
  <2>2. UNCHANGED <<program, main, worker>>
    BY <1>2 DEF IoActs, IoStarts, GatherRaises, SeeStop, CancelAgain, AllStopped, RunEndsLoop,
       IoEnds, RunParses, RunCompletes, RunFails, Absorb, ControllerStops, ControllerFails,
       Accept, UseTicket, Finish, Abandon, Elsewhere, workerVars
  <2>3. io' \in {"new", "ended"} => io' = "ended" /\ call'["io"] = NoCall
    BY <1>2 DEF IoActs, IoStarts, GatherRaises, SeeStop, CancelAgain, AllStopped, RunEndsLoop,
       IoEnds, RunParses, RunCompletes, RunFails, Absorb, ControllerStops, ControllerFails,
       Accept, UseTicket, Finish, Abandon, LoopRuns, RunGoes, ioVars, Free, Silent, rendererVars
  <2>4. io # "ended"
    BY <1>2 DEF IoActs, IoStarts, GatherRaises, SeeStop, CancelAgain, AllStopped, RunEndsLoop,
       IoEnds, RunParses, RunCompletes, RunFails, Absorb, ControllerStops, ControllerFails,
       Accept, UseTicket, Finish, Abandon, LoopRuns, RunGoes
  <2>. QED
    BY <2>1, <2>2, <2>3, <2>4
<1>3. CASE WorkerActs
  <2>1. call'["main"] = call["main"] /\ call'["io"] = call["io"]
    BY <1>0, <1>3, WorkerSpeaks, CallMoves DEF WorkerActs
  <2>2. UNCHANGED <<program, main, io>>
    BY <1>3 DEF WorkerActs, WorkerStarts, CheckStop, Poll, JobEnds, JobRaises, WorkerEnds,
       Outside, ioVars
  <2>3. worker' \in {"new", "polling", "ended"} => call'["worker"] = NoCall
    BY <1>3 DEF WorkerActs, WorkerStarts, CheckStop, Poll, JobEnds, JobRaises, WorkerEnds,
       Free, Silent, rendererVars
  <2>4. worker # "ended"
    BY <1>3 DEF WorkerActs, WorkerStarts, CheckStop, Poll, JobEnds, JobRaises, WorkerEnds
  <2>. QED
    BY <2>1, <2>2, <2>3, <2>4
<1>4. CASE Renders /\ UNCHANGED lifeVars
  <2>1. \A th \in Thread : call[th] = NoCall => call'[th] = NoCall
    <3>1. ASSUME NEW u \in Thread, LogCall(u), NEW th \in Thread, call[th] = NoCall
          PROVE  call'[th] = NoCall
      BY <3>1, CallMoves
    <3>2. CASE Wake \/ Paint \/ UNCHANGED rendererVars
      BY <3>2 DEF Wake, Paint, rendererVars
    <3>. QED
      BY <1>4, <3>1, <3>2 DEF Renders
  <2>. QED
    BY <1>0, <1>4, <2>1 DEF lifeVars, ioVars, workerVars
<1>. QED
  BY <1>1, <1>2, <1>3, <1>4

(* A thread that has ended does nothing.                                   *)
LEMMA EndedIsEnded == (IoActs => io # "ended") /\ (WorkerActs => worker # "ended")
<1>1. IoActs => io # "ended"
  BY DEF IoActs, IoStarts, GatherRaises, SeeStop, CancelAgain, AllStopped, RunEndsLoop,
     IoEnds, RunParses, RunCompletes, RunFails, Absorb, ControllerStops, ControllerFails,
     Accept, UseTicket, Finish, Abandon, LoopRuns, RunGoes
<1>2. WorkerActs => worker # "ended"
  BY DEF WorkerActs, WorkerStarts, CheckStop, Poll, JobEnds, JobRaises, WorkerEnds
<1>. QED
  BY <1>1, <1>2

LEMMA LastCallStep ==
  ASSUME ReportInv, MainActs \/ IoActs \/ WorkerActs \/ (Renders /\ UNCHANGED lifeVars)
  PROVE  LastCallInv'
<1> SUFFICES ASSUME main' \in {"leaving", "exited"}, program' = "standalone"
             PROVE  (IF call["main"] = NoCall THEN told \subseteq shown /\ refresher = "off"
                                              ELSE call["main"].name = END_SECTION)'
  BY DEF LastCallInv
<1>0. /\ "main" \in Thread
      /\ \A th \in Thread : th = "main" \/ th = "io" \/ th = "worker"
  BY Threads
<1>1. CASE main \notin {"leaving", "exited"}
  <2>1. JoinWorker
    <3>1. ~IoActs /\ ~WorkerActs /\ ~(Renders /\ UNCHANGED lifeVars)
      BY <1>1 DEF IoActs, IoStarts, GatherRaises, SeeStop, CancelAgain, AllStopped, RunEndsLoop,
         IoEnds, RunParses, RunCompletes, RunFails, Absorb, ControllerStops, ControllerFails,
         Accept, UseTicket, Finish, Abandon, Elsewhere, WorkerActs, WorkerStarts, CheckStop,
         Poll, JobEnds, JobRaises, WorkerEnds, Outside, lifeVars
    <3>. QED
      BY <1>1, <3>1 DEF MainActs, Configure, StartUp, Spawn, ShutDown, AnnounceStop, JoinIo,
         StopIo, StopWorker, Exit, Signal, MainGoes
  <2>2. Say("main", END_SECTION, NoError)
    BY <2>1 DEF JoinWorker, MainGoes, Logs
  <2>3. call'["main"] = [phase |-> "called", name |-> END_SECTION, error |-> NoError,
                         change |-> END_SECTION \notin {END_SECTION, Unset, taskName}]
    BY <1>0, <2>2 DEF Say, ReportInv, RendererInv, CallsInv
  <2>. QED
    BY <2>3 DEF NoCall
<1>2. CASE main \in {"leaving", "exited"}
  <2>0. /\ program = "standalone" /\ call["io"] = NoCall /\ call["worker"] = NoCall
        /\ ~IoActs /\ ~WorkerActs
        /\ call["main"] = NoCall => told \subseteq shown /\ refresher = "off"
        /\ call["main"] # NoCall => call["main"].name = END_SECTION
    <3>1. io = "ended" /\ worker = "ended"
      BY <1>2 DEF ReportInv, JoinsInv
    <3>2. ~IoActs /\ ~WorkerActs
      BY <3>1, EndedIsEnded
    <3>3. program = "standalone"
      BY <3>2 DEF MainActs, Configure, StartUp, Spawn, ShutDown, AnnounceStop, JoinIo,
         JoinWorker, StopIo, StopWorker, Exit, Signal, MainGoes, lifeVars
    <3>. QED
      BY <1>2, <3>1, <3>2, <3>3 DEF ReportInv, JoinsInv, LastCallInv
  <2>1. CASE MainActs
    <3>1. UNCHANGED rendererVars
      BY <1>2, <2>1 DEF MainActs, Configure, StartUp, Spawn, ShutDown, AnnounceStop, JoinIo,
         JoinWorker, StopIo, StopWorker, Exit, Signal, MainGoes, Silent
    <3>. QED
      BY <2>0, <3>1 DEF rendererVars
  <2>2. ASSUME NEW th \in Thread, LogCall(th)
        PROVE  IF call'["main"] = NoCall THEN told' \subseteq shown' /\ refresher' = "off"
                                         ELSE call'["main"].name = END_SECTION
    <3>1. th = "main" /\ call["main"] # NoCall
      BY <1>0, <2>0, <2>2, CallMoves DEF ReportInv
    <3>2. CASE End(th)
      <4>1. call'["main"] = NoCall
        BY <1>0, <3>1, <3>2 DEF End, Return, ReportInv, RendererInv, CallsInv
      <4>. QED
        BY <3>2, <4>1, EndStep DEF ReportInv
    <3>3. CASE Lock(th) \/ Close(th)
      <4>1. PICK p \in Phases : call'["main"] = [call["main"] EXCEPT !.phase = p]
        BY <1>0, <2>0, <3>1, <3>3 DEF Lock, Close, ReportInv, RendererInv, CallsInv, Phases
      <4>2. call["main"] \in Calls
        BY <1>0, <3>1 DEF ReportInv, RendererInv, CallsInv
      <4>. QED
        BY <2>0, <3>1, <4>1, <4>2, PhaseMoves
    <3>4. ~Note(th)
      BY <2>0, <3>1 DEF Note
    <3>. QED
      BY <2>2, <3>2, <3>3, <3>4 DEF LogCall
  <2>3. CASE Wake \/ Paint \/ UNCHANGED rendererVars
    BY <2>0, <2>3 DEF Wake, Paint, rendererVars
  <2>. QED
    BY <2>0, <2>1, <2>2, <2>3 DEF Renders
<1>. QED
  BY <1>1, <1>2

LEMMA ReportStep == ReportInv /\ [Next]_vars => ReportInv'
<1> SUFFICES ASSUME ReportInv, [Next]_vars PROVE ReportInv'
  OBVIOUS
<1>1. MainActs \/ IoActs \/ WorkerActs \/ (Renders /\ UNCHANGED lifeVars)
  BY NextSplits
<1>2. RendererInv'
  BY <1>1, RendererStep DEF ReportInv
<1>. QED
  BY <1>1, <1>2, JoinsStep, LastCallStep DEF ReportInv

LEMMA ReportInit == Init => ReportInv
<1> SUFFICES ASSUME Init PROVE ReportInv
  OBVIOUS
<1>1. /\ call = [th \in Thread |-> NoCall] /\ NoCall.phase = "none"
      /\ lock = Nobody /\ errors = {} /\ told = {}
      /\ program \in {"service", "standalone"}
      /\ main = "configuring" /\ io = "new" /\ worker = "new"
  BY DEF Init, RendererInit, NoCall
<1>2. CallsInv
  BY <1>1, NobodyIsNoThread DEF CallsInv
<1>3. ErrorsInv
  BY <1>1 DEF ErrorsInv
<1>. QED
  BY <1>1, <1>2, <1>3, Threads DEF ReportInv, RendererInv, JoinsInv, LastCallInv

(* When the standalone program exits, every error one of its threads has    *)
(* logged was printed below a cross, and the display is off, whatever the   *)
(* threads logged and in whichever order their log calls took the lock.    *)
THEOREM ReportIsWhole == Spec => []ReportIsComplete
<1>1. ReportInv => ReportIsComplete
  BY DEF ReportInv, JoinsInv, LastCallInv, ReportIsComplete
<1>. QED
  BY <1>1, ReportInit, ReportStep, PTL DEF Spec
=============================================================================
