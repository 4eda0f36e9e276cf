---------------------------- MODULE PublicationLog ----------------------------
(***************************************************************************)
(* What the warehouse protocol promises the readers of a resource, without *)
(* intents, leases, fences, receipts or a target: publications are         *)
(* appended one after the other, each by an operation of its own, and      *)
(* accepted source positions are consumed in order, each once.             *)
(***************************************************************************)
EXTENDS Integers, Sequences

CONSTANTS Operations, MaxPosition

VARIABLES accepted,     \* source positions with an accepted manifest
          consumed,     \* the positions 1 .. consumed are published
          published     \* the operations published so far, in order

log == <<accepted, consumed, published>>

Init == accepted = 0 /\ consumed = 0 /\ published = <<>>

Accept ==
    /\ accepted < MaxPosition
    /\ accepted' = accepted + 1
    /\ UNCHANGED <<consumed, published>>

Append1(k) ==
    /\ \A i \in DOMAIN published : published[i] # k
    /\ published' = Append(published, k)
    /\ UNCHANGED accepted

(* Normal work consumes the next positions.                                 *)
Consume(k) ==
    /\ Append1(k)
    /\ \E last \in consumed + 1 .. accepted : consumed' = last

(* Replays and backfills publish beside the stream.                         *)
Aside(k) == Append1(k) /\ UNCHANGED consumed

Next == Accept \/ \E k \in Operations : Consume(k) \/ Aside(k)

Spec == Init /\ [][Next]_log
=============================================================================
