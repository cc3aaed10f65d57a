-------------------------- MODULE MCInprocChannel --------------------------
(***************************************************************************)
(* Small instances of InprocChannel: two buffers, two threads that publish, *)
(* of which one or both allocate, and two subscriptions, one with a token.  *)
(***************************************************************************)
EXTENDS InprocChannel

CONSTANTS p1, p2, s1, s2

MCPublishers == {p1, p2}
MCOneAllocator == {p1}
MCSubs == {s1, s2}
MCScoped == {s1}
=============================================================================
