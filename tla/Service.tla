------------------------------ MODULE Service -------------------------------
(***************************************************************************)
(* What the channels of a connection promise the application, in one       *)
(* direction: the documentation of ChannelKind in channel.rs as a state    *)
(* machine.  Messages of a channel are numbered in the order of its sends. *)
(* Receiving hands over any number of messages at once, as one datagram    *)
(* may complete many.                                                      *)
(***************************************************************************)
EXTENDS Naturals, Sequences, SequencesExt

CONSTANTS Chan, Kind

VARIABLES submitted,  \* how many messages each channel took
          received    \* what each channel handed over, in order

\* What a channel may have handed over of the first n messages it took.
Promised(kind, n, log) ==
    /\ \A i \in 1..Len(log) : log[i] < n
    /\ \A i, j \in 1..Len(log) : i < j => log[i] # log[j]
    /\ kind = "UnreliableSequenced" =>
         \A i, j \in 1..Len(log) : i < j => log[i] < log[j]
    /\ kind = "ReliableOrdered" => \A i \in 1..Len(log) : log[i] = i - 1

Init ==
    /\ submitted = [ch \in Chan |-> 0]
    /\ received = [ch \in Chan |-> << >>]

Submit(ch) ==
    /\ submitted' = [submitted EXCEPT ![ch] = @ + 1]
    /\ UNCHANGED received

Receive ==
    /\ DOMAIN received' = Chan
    /\ \A ch \in Chan :
          /\ IsPrefix(received[ch], received'[ch])
          /\ Promised(Kind[ch], submitted[ch], received'[ch])
    /\ UNCHANGED submitted

Next == Receive \/ \E ch \in Chan : Submit(ch)

Spec == Init /\ [][Next]_<<submitted, received>>

=============================================================================
