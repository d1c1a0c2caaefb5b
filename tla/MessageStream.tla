----------------------------- MODULE MessageStream -----------------------------
(***************************************************************************)
(* What batching promises: messages are handed on in the order they were   *)
(* given, each at most once, and all of them as long as they come in as    *)
(* they were sent.  What is lost when they do not is a run of messages at  *)
(* the end of what came in together, and never because of what came before *)
(* it.                                                                     *)
(***************************************************************************)
EXTENDS Naturals, Sequences

CONSTANT Message

VARIABLES
    sent, received,
    taken,           \* how many of the messages sent have come in
    whole            \* whether the last ones came in as they were sent

vars == <<sent, received, taken, whole>>

Init == sent = <<>> /\ received = <<>> /\ taken = 0 /\ whole = TRUE

Give ==
    /\ \E m \in Message : sent' = Append(sent, m)
    /\ UNCHANGED <<received, taken, whole>>

\* The next messages come in.  Only when they do not come as they were sent, some
\* at their end may be lost.
Take ==
    /\ \E good \in taken .. Len(sent), all \in taken .. Len(sent) :
          /\ good <= all
          /\ whole' => good = all
          /\ received' = received \o SubSeq(sent, taken + 1, good)
          /\ taken' = all
    /\ whole' \in BOOLEAN
    /\ UNCHANGED sent

Spec == Init /\ [][Give \/ Take]_vars
=============================================================================
