----------------------------- MODULE MCHttpAgent -----------------------------
(* Instances of HttpAgent for TLC. *)
EXTENDS HttpAgent
CONSTANTS a, b, r1, r2, r3
Opt(k, f, m, t, tun) ==
  [keepAlive |-> k, scheduling |-> f, maxSockets |-> m, maxTotalSockets |-> t,
   maxFreeSockets |-> 2, tunnel |-> tun]
(* Requests are interchangeable, and so are origins: one has two requests or all. *)
MCHomes == {[r \in Reqs |-> IF r = r3 THEN b ELSE a], [r \in Reqs |-> a]}
MCOptions == {Opt(TRUE, "fifo", 2, 2, FALSE), Opt(TRUE, "lifo", 2, 2, FALSE), Opt(TRUE, "lifo", 1, 2, FALSE),
              Opt(FALSE, "lifo", 2, 1, FALSE), Opt(TRUE, "lifo", 1, 2, TRUE)}
=============================================================================
