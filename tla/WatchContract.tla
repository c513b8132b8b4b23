---------------------------- MODULE WatchContract ----------------------------
(***************************************************************************)
(* What a user of a Kubernetes watch relies on, whoever implements it: a   *)
(* watch opened after the first n events delivers event n+1, then n+2, and *)
(* so on, none twice, none left out and none out of order, until its       *)
(* channel is closed; a closed channel delivers nothing.                   *)
(***************************************************************************)
EXTENDS Naturals, Sequences

VARIABLES history,   \* all the events there have been
          channel,   \* "none", "open" or "closed"
          got,       \* how many events of the history the user knows
          last       \* the event the user got last, or NoEvent

NoEvent == [type |-> "none"]

vars == <<history, channel, got, last>>

Init ==
  /\ history = <<>>
  /\ channel = "none"
  /\ got = 0
  /\ last = NoEvent

Happens ==
  /\ Len(history') = Len(history) + 1
  /\ history = SubSeq(history', 1, Len(history))
  /\ UNCHANGED <<channel, got, last>>

\* The user has listed the objects and so knows the first n events.
List ==
  /\ channel # "open"
  /\ got' = Len(history)
  /\ UNCHANGED <<history, channel, last>>

Open ==
  /\ channel # "open"
  /\ channel' = "open"
  /\ UNCHANGED <<history, got, last>>

Deliver ==
  /\ channel = "open"
  /\ got < Len(history)
  /\ got' = got + 1
  /\ last' = history[got + 1]
  /\ UNCHANGED <<history, channel>>

Close ==
  /\ channel = "open"
  /\ channel' = "closed"
  /\ UNCHANGED <<history, got, last>>

Next == Happens \/ List \/ Open \/ Deliver \/ Close

Spec == Init /\ [][Next]_vars
=============================================================================
