------------------------------- MODULE Mirror -------------------------------
(***************************************************************************)
(* What the RemoteFile layer promises for a file that one side owns and    *)
(* the other has opened: the replica is, from the moment the whole file    *)
(* has arrived until the connection is lost, a state the owner's file has  *)
(* had, and it never goes back to an older one.                            *)
(***************************************************************************)
EXTENDS Integers, Sequences

CONSTANTS Mirrored, Contents

VARIABLES
    history,   \* the states of the owner's file, oldest first
    version,   \* which of them the replica has, 0 for none
    shown      \* that state, <<>> for none

vars == <<history, version, shown>>

Init ==
    /\ history \in [Mirrored -> {<<c>> : c \in Contents}]
    /\ version = [f \in Mirrored |-> 0]
    /\ shown = [f \in Mirrored |-> <<>>]

\* The owner writes.
Write(f) ==
    /\ \E c \in Contents : history' = [history EXCEPT ![f] = Append(@, c)]
    /\ UNCHANGED <<version, shown>>

\* The replica takes over a state that is not older than the one it has.
Synchronise(f) ==
    \E v \in 1 .. Len(history[f]) :
      /\ v >= version[f]
      /\ version' = [version EXCEPT ![f] = v]
      /\ shown' = [shown EXCEPT ![f] = history[f][v]]
      /\ UNCHANGED history

\* The connection is lost.
Lose ==
    /\ version' = [f \in Mirrored |-> 0]
    /\ shown' = [f \in Mirrored |-> <<>>]
    /\ UNCHANGED history

Next == (\E f \in Mirrored : Write(f) \/ Synchronise(f)) \/ Lose

Spec == Init /\ [][Next]_vars
=============================================================================
