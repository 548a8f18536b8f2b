----------------------------- MODULE MCWritable -----------------------------
(* Instances of Writable for TLC: streams with and without each option. *)
EXTENDS Writable

Opt(h, a, o, v, f, c) ==
  [highWaterMark |-> h, autoDestroy |-> a, objectMode |-> o, writev |-> v, final |-> f,
   construct |-> c]
MCOptions == {Opt(2, TRUE, TRUE, FALSE, TRUE, FALSE), Opt(1, FALSE, FALSE, FALSE, FALSE, FALSE),
              Opt(3, TRUE, FALSE, TRUE, FALSE, TRUE)}
MCMaxCalls == [write |-> 2, end |-> 1, cork |-> 1, destroy |-> 1]
=============================================================================
