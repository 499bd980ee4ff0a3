----------------------------- MODULE Messaging -----------------------------
(***************************************************************************)
(* What the messaging core promises, without screens, timers and tables: a *)
(* message is sent, waits, is stored in the chat it was sent to after      *)
(* everything stored before it, and may be deleted.  What has been deleted *)
(* never comes back.  A killed process loses what waits, all of it.        *)
(***************************************************************************)
EXTENDS Naturals

VARIABLES
  sent,      \* messages created so far; a message is known by its number
  waiting,   \* the messages shown but not yet stored
  kept       \* the messages of the table

vars == <<sent, waiting, kept>>

Init == sent = 0 /\ waiting = {} /\ kept = {}

(* One message, or the first of a group with the answer it provokes, all of *)
(* one chat                                                                *)
Send ==
  /\ sent' \in {sent + 1, sent + 2}
  /\ waiting \subseteq waiting'
  /\ {m.stamp : m \in waiting' \ waiting} = sent + 1 .. sent'
  /\ \A m, o \in waiting' \ waiting : m.chatId = o.chatId
  /\ UNCHANGED kept

(* A message whose screen has gone: nobody shows or stores it *)
SendInVain == sent' = sent + 1 /\ UNCHANGED <<waiting, kept>>

(* The oldest message that waits, newer than all that are stored *)
Store ==
  \E m \in waiting :
    /\ \A o \in waiting : m.stamp <= o.stamp
    /\ \A o \in kept : o.stamp < m.stamp
    /\ waiting' = waiting \ {m}
    /\ kept' = kept \cup {m}
    /\ UNCHANGED sent

Delete == kept' \subseteq kept /\ UNCHANGED <<sent, waiting>>

Lose == waiting' = {} /\ UNCHANGED <<sent, kept>>

Next == Send \/ SendInVain \/ Store \/ Delete \/ Lose

Spec == Init /\ [][Next]_vars

=============================================================================
