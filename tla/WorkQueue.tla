----------------------------- MODULE WorkQueue ------------------------------
(***************************************************************************)
(* What a supervisor promises about the messages of a Redis list: it pops  *)
(* them from the head, keeps a few, in order, and works on one at a time,  *)
(* the oldest.  What it has popped is lost if its process dies.  Other     *)
(* processes may pop from the list too.                                    *)
(***************************************************************************)
EXTENDS Naturals, Sequences

CONSTANTS
  Message,   \* what may be pushed
  Capacity   \* how many messages the process has at a time, at most

VARIABLES
  list,      \* the Redis list
  held,      \* messages popped and not worked on yet
  running    \* the message that is worked on: one or none

vars == <<list, held, running>>

Init == list = <<>> /\ held = <<>> /\ running = <<>>

Push(m) ==
  /\ list' = Append(list, m)
  /\ UNCHANGED <<held, running>>

Pop ==
  /\ list # <<>>
  /\ Len(held) + Len(running) < Capacity
  /\ list' = Tail(list)
  /\ held' = Append(held, Head(list))
  /\ UNCHANGED running

PopElsewhere ==
  /\ list # <<>>
  /\ list' = Tail(list)
  /\ UNCHANGED <<held, running>>

Start ==
  /\ running = <<>>
  /\ held # <<>>
  /\ running' = <<Head(held)>>
  /\ held' = Tail(held)
  /\ UNCHANGED list

Finish ==
  /\ running' = <<>>
  /\ UNCHANGED <<list, held>>

Crash ==
  /\ held' = <<>>
  /\ running' = <<>>
  /\ UNCHANGED list

Next ==
  \/ \E m \in Message : Push(m)
  \/ Pop
  \/ PopElsewhere
  \/ Start
  \/ Finish
  \/ Crash

Spec == Init /\ [][Next]_vars
=============================================================================
