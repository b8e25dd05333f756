---------------------------- MODULE ByteChannel ----------------------------
(***************************************************************************)
(* What a Stream promises its caller (src/include/ioscpp/stream.hpp, "A    *)
(* byte stream to a service on the device"), whatever carries it: the      *)
(* service is given the units that were written, in order, and a read      *)
(* hands out exactly the next units the service produced.                  *)
(***************************************************************************)
EXTENDS Integers, Sequences

CONSTANTS Streams, MaxUnits

VARIABLES
    st,         \* "new", "open" or "over", as the caller sees the stream
    written,    \* units the caller wrote
    taken,      \* units the service was given
    produced,   \* units the service sent
    out         \* positions, among those, of the units the caller was handed

vars == <<st, written, taken, produced, out>>

Init ==
    /\ st = [s \in Streams |-> "new"]
    /\ written = [s \in Streams |-> 0]
    /\ taken = [s \in Streams |-> 0]
    /\ produced = [s \in Streams |-> 0]
    /\ out = [s \in Streams |-> <<>>]

Open(s) ==
    /\ st[s] = "new"
    /\ st' = [st EXCEPT ![s] = "open"]
    /\ UNCHANGED <<written, taken, produced, out>>

\* A stream ends by a close, or was never opened because the open failed.
End(s) ==
    /\ st[s] # "over"
    /\ st' = [st EXCEPT ![s] = "over"]
    /\ UNCHANGED <<written, taken, produced, out>>

Write(s, n) ==
    /\ st[s] = "open"
    /\ written' = [written EXCEPT ![s] = @ + n]
    /\ UNCHANGED <<st, taken, produced, out>>

Take(s, n) ==
    /\ taken[s] + n <= written[s]
    /\ taken' = [taken EXCEPT ![s] = @ + n]
    /\ UNCHANGED <<st, written, produced, out>>

Produce(s, n) ==
    /\ st[s] # "new"
    /\ produced' = [produced EXCEPT ![s] = @ + n]
    /\ UNCHANGED <<st, written, taken, out>>

Read(s, n) ==
    /\ st[s] = "open"
    /\ Len(out[s]) + n <= produced[s]
    /\ out' = [out EXCEPT ![s] = @ \o [k \in 1 .. n |-> Len(@) + k]]
    /\ UNCHANGED <<st, written, taken, produced>>

Next ==
    \E s \in Streams :
        \/ Open(s) \/ End(s)
        \/ \E n \in 1 .. MaxUnits : Write(s, n) \/ Take(s, n) \/ Produce(s, n) \/ Read(s, n)

Spec == Init /\ [][Next]_vars
=============================================================================
