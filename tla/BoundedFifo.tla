---------------------------- MODULE BoundedFifo ----------------------------
(***************************************************************************)
(* What a Pipe promises to its two contexts: a first-in first-out queue of *)
(* at most Cap elements.  The queue is what has been sent and not yet      *)
(* received, so the two histories are the whole state.  A put makes one or *)
(* more elements visible at once, a get removes one or more at once.       *)
(***************************************************************************)
EXTENDS Naturals, Sequences

CONSTANTS Data,     \* the elements that may be sent
          Cap       \* the number of elements the queue can hold

VARIABLES sent,     \* everything the writing context has made visible
          rcvd      \* everything the reading context has consumed

vars == <<sent, rcvd>>

Stored == Len(sent) - Len(rcvd)

Init == sent = << >> /\ rcvd = << >>

Put == \E n \in 1 .. Cap - Stored : \E s \in [1 .. n -> Data] :
          /\ sent' = sent \o s
          /\ UNCHANGED rcvd

Get == \E n \in 1 .. Stored :
          /\ rcvd' = SubSeq(sent, 1, Len(rcvd) + n)
          /\ UNCHANGED sent

Next == Put \/ Get

Spec == Init /\ [][Next]_vars
=============================================================================
