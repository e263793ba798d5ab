-------------------------- MODULE TerminalRenderer --------------------------
(***************************************************************************)
(* TerminalRenderer, through which every log call of the standalone        *)
(* program goes: it groups the messages into sections, shows the last one   *)
(* in a display that rich.Live repaints from a thread of its own, and on a  *)
(* change of section prints a line with a tick, or with a cross and every    *)
(* message of the section.                                                 *)
(*                                                                         *)
(* Two locks meet here.  A log call holds the renderer's lock while it      *)
(* prints, and printing takes the lock of the display for a moment when     *)
(* stdout is a terminal; the refresher holds the lock of the display while  *)
(* it paints, and painting takes the renderer's lock (_ActiveView).        *)
(* rich.Live is external: only its lock and its thread appear.             *)
(***************************************************************************)
EXTENDS Naturals, FiniteSets

CONSTANT Thread   \* threads that log

VARIABLES
  terminal,   \* stdout is a terminal
  call,       \* the log call of each thread that is under way
  lock,       \* renderer._lock: who holds it
  refresher,  \* the thread of the display, which holds its lock to paint
  taskName,   \* the name of the section
  errors,     \* the errors among its messages
  active,     \* it has messages
  failed,     \* it has an error
  shown,      \* errors printed below a cross
  told        \* history: errors whose log call has returned

rendererVars ==
  <<terminal, call, lock, refresher, taskName, errors, active, failed, shown, told>>

Nobody == "nobody"
NoCall == [phase |-> "none"]
Unset == "unset"
END_SECTION == "end section"
NoError == "no error"

RendererInit(isTerminal) ==
  /\ terminal = isTerminal
  /\ call = [th \in Thread |-> NoCall]
  /\ lock = Nobody
  /\ refresher = "off"
  /\ taskName = Unset
  /\ errors = {}
  /\ active = FALSE
  /\ failed = FALSE
  /\ shown = {}
  /\ told = {}

-----------------------------------------------------------------------------
(* Log calls                                                               *)

(* A thread logs a message, with a task_name or Unset; whether the section  *)
(* changes is decided before the lock is taken.                            *)
Say(th, name, error) ==
  /\ call' = [call EXCEPT ![th] =
                [phase |-> "called", name |-> name, error |-> error,
                 change |-> name \notin {END_SECTION, Unset, taskName}]]
  /\ UNCHANGED <<terminal, lock, refresher, taskName, errors, active, failed,
                 shown, told>>

Return(th) ==
  /\ call' = [call EXCEPT ![th] = NoCall]
  /\ told' = told \cup ({call[th].error} \ {NoError})

(* The message joins the section, or opens the next one.                   *)
File(th) ==
  LET kept == IF call[th].change THEN {} ELSE errors
      added == {call[th].error} \ {NoError}
  IN /\ taskName' = IF call[th].change THEN call[th].name ELSE taskName
     /\ errors' = kept \cup added
     /\ failed' = (added # {} \/ (failed /\ ~call[th].change))
     /\ active' = TRUE

(* The display is started by the first message and after each end.         *)
Lit == IF refresher = "off" THEN "idle" ELSE refresher

(* The lock is taken, and nothing has to be printed: the message is filed.  *)
Note(th) ==
  /\ call[th].phase = "called"
  /\ call[th].name # END_SECTION
  /\ ~(call[th].change /\ active)
  /\ lock = Nobody
  /\ refresher' = Lit
  /\ File(th)
  /\ Return(th)
  /\ UNCHANGED <<terminal, lock, shown>>

(* The lock is taken, and there is a section to close or a display to stop. *)
Lock(th) ==
  /\ call[th].phase = "called"
  /\ call[th].name = END_SECTION \/ (call[th].change /\ active)
  /\ lock = Nobody
  /\ lock' = th
  /\ refresher' = Lit
  /\ call' = [call EXCEPT ![th].phase = IF active THEN "closing" ELSE "stopping"]
  /\ UNCHANGED <<terminal, taskName, errors, active, failed, shown, told>>

(* Deviation of DisplayFree: the renderer's lock is not reentrant (Lock for *)
(* RLock), but what is printed includes the display, which takes it again.  *)
DisplayFreeUnlocked == refresher # "painting" /\ lock = Nobody

(* The lock of the display is free, so a log call can print.               *)
DisplayFree == refresher # "painting"

(* _print_close, and what follows it in the same hold of the lock.          *)
Close(th) ==
  /\ call[th].phase = "closing"
  /\ DisplayFree
  /\ shown' = IF failed THEN shown \cup errors ELSE shown
  /\ IF call[th].name = END_SECTION
       THEN /\ call' = [call EXCEPT ![th].phase = "stopping"]
            /\ UNCHANGED <<lock, taskName, errors, active, failed, told>>
       ELSE /\ File(th)
            /\ Return(th)
            /\ lock' = Nobody
  /\ UNCHANGED <<terminal, refresher>>

(* The end of the report: everything is reset and the display stopped.     *)
End(th) ==
  /\ call[th].phase = "stopping"
  /\ DisplayFree
  /\ refresher' = "off"
  /\ taskName' = Unset
  /\ errors' = {}
  /\ active' = FALSE
  /\ failed' = FALSE
  /\ lock' = Nobody
  /\ Return(th)
  /\ UNCHANGED <<terminal, shown>>

-----------------------------------------------------------------------------
(* The display                                                             *)

(* _RefreshThread takes the lock of the display, ten times a second.       *)
Wake ==
  /\ terminal
  /\ refresher = "idle"
  /\ refresher' = "painting"
  /\ UNCHANGED <<terminal, call, lock, taskName, errors, active, failed, shown, told>>

(* _ActiveView renders under the renderer's lock.                          *)
Paint ==
  /\ refresher = "painting"
  /\ lock = Nobody
  /\ refresher' = "idle"
  /\ UNCHANGED <<terminal, call, lock, taskName, errors, active, failed, shown, told>>

LogCall(th) == Note(th) \/ Lock(th) \/ Close(th) \/ End(th)

-----------------------------------------------------------------------------
(* Each of the two locks is held by a thread that waits for the other: the  *)
(* refresher, and a log call that closes a section or ends the report.      *)
Embrace == refresher = "painting" /\ lock # Nobody

(* Every log call returns, unless the two locks are taken in opposite       *)
(* orders at the same time.                                                *)
LogReturns == \A th \in Thread : call[th] # NoCall ~> (call[th] = NoCall \/ Embrace)
=============================================================================
