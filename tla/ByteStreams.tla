----------------------------- MODULE ByteStreams -----------------------------
(***************************************************************************)
(* What a pseudo-terminal promises: each direction of each terminal is a   *)
(* stream; what is taken out of it is what was put in, every byte once and *)
(* in order.                                                               *)
(***************************************************************************)
EXTENDS Sequences, SequencesExt

CONSTANTS Stream, Byte

VARIABLES
  put,      \* the bytes put into each stream
  taken     \* the bytes taken out of it

vars == <<put, taken>>

Init ==
  /\ put = [s \in Stream |-> <<>>]
  /\ taken = [s \in Stream |-> <<>>]

Put(s) ==
  /\ IsStrictPrefix(put[s], put'[s])
  /\ \A t \in Stream \ {s} : put'[t] = put[t]
  /\ UNCHANGED taken

Take(s) ==
  /\ IsStrictPrefix(taken[s], taken'[s])
  /\ IsPrefix(taken'[s], put[s])
  /\ \A t \in Stream \ {s} : taken'[t] = taken[t]
  /\ UNCHANGED put

\* The machine starts again and the terminals with it.
Lose == put' = [s \in Stream |-> <<>>] /\ taken' = [s \in Stream |-> <<>>]

Next == (\E s \in Stream : Put(s) \/ Take(s)) \/ Lose

Spec == Init /\ [][Next]_vars
=============================================================================
