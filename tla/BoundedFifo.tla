---------------------------- MODULE BoundedFifo ----------------------------
(***************************************************************************)
(* What WaitingBuffer promises to the threads on its two ends: a byte      *)
(* stream of bounded length, cut anywhere but never reordered, duplicated  *)
(* or altered.  The state is the history of the stream at both ends.       *)
(***************************************************************************)
EXTENDS Naturals, Sequences

CONSTANT Capacity      \* how many bytes may be under way

VARIABLES written,     \* every byte that entered, in order
          taken        \* every byte that left, in order

vars == <<written, taken>>

\* s is an initial segment of t.
Prefix(s, t) ==
    /\ Len(s) <= Len(t)
    /\ \A i \in 1 .. Len(s) : s[i] = t[i]

Init == written = <<>> /\ taken = <<>>

Put ==
    /\ Prefix(written, written')
    /\ Len(written') - Len(taken) <= Capacity
    /\ UNCHANGED taken

Get ==
    /\ Prefix(taken, taken')
    /\ Prefix(taken', written)
    /\ UNCHANGED written

Next == Put \/ Get

Spec == Init /\ [][Next]_vars
=============================================================================
