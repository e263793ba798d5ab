------------------------------ MODULE Channel ------------------------------
(***************************************************************************)
(* What a pipe promises: a FIFO channel that can be closed.  Every          *)
(* operation takes effect at one instant.  Items accepted before the close *)
(* stay receivable; after it nothing is accepted, and a receiver that finds *)
(* the channel empty is told so.                                           *)
(***************************************************************************)
EXTENDS Naturals, Sequences

CONSTANTS
  Receiver,   \* threads that receive
  MaxItems    \* bound: items accepted in a behaviour

VARIABLES
  impatient, \* whether receivers may give up
  content,   \* items accepted and not yet received, oldest first
  accepted,  \* how many items were accepted; they are numbered in order
  shut,      \* whether the channel is closed
  asking,    \* receivers inside a receive
  outcome    \* how the last receive of each receiver ended

vars == <<impatient, content, accepted, shut, asking, outcome>>

(* Items are numbers; the other outcomes are numbers no item has.          *)
Nothing == 0
Closed == MaxItems + 1
TimedOut == MaxItems + 2

Init ==
  /\ impatient \in BOOLEAN
  /\ content = <<>>
  /\ accepted = 0
  /\ shut = FALSE
  /\ asking = {}
  /\ outcome = [r \in Receiver |-> Nothing]

Send ==
  /\ ~shut
  /\ accepted < MaxItems
  /\ accepted' = accepted + 1
  /\ content' = Append(content, accepted + 1)
  /\ UNCHANGED <<impatient, shut, asking, outcome>>

Shut ==
  /\ shut' = TRUE
  /\ UNCHANGED <<impatient, content, accepted, asking, outcome>>

Ask(r) ==
  /\ r \notin asking
  /\ asking' = asking \cup {r}
  /\ outcome' = [outcome EXCEPT ![r] = Nothing]
  /\ UNCHANGED <<impatient, content, accepted, shut>>

Answer(r, o) ==
  /\ r \in asking
  /\ asking' = asking \ {r}
  /\ outcome' = [outcome EXCEPT ![r] = o]
  /\ UNCHANGED <<impatient, accepted, shut>>

Receive(r) ==
  /\ content # <<>>
  /\ Answer(r, Head(content))
  /\ content' = Tail(content)

FindClosed(r) ==
  /\ content = <<>>
  /\ shut
  /\ Answer(r, Closed)
  /\ UNCHANGED content

GiveUp(r) ==
  /\ impatient
  /\ Answer(r, TimedOut)
  /\ UNCHANGED content

Next ==
  \/ Send
  \/ Shut
  \/ \E r \in Receiver : Ask(r) \/ Receive(r) \/ FindClosed(r) \/ GiveUp(r)

Spec == Init /\ [][Next]_vars
=============================================================================
