----------------------------- MODULE MCTraffic -----------------------------
(* Every pattern once, random traffic of one and of all senders, and       *)
(* replays: packets out of order in the file, two in a cycle, one of them  *)
(* after the end, a size or a flit count left out, an invalid destination. *)
EXTENDS Traffic

Synthetic(pattern, sender, dest, max, vnet, sim, drain) ==
    [synthetic |-> pattern, sender |-> sender, dest |-> dest, max |-> max,
     vnet |-> vnet, sim |-> sim, drain |-> drain, packets |-> << >>]
Replay(packets, sim, drain) ==
    [synthetic |-> "replay", sender |-> None, dest |-> None, max |-> None,
     vnet |-> None, sim |-> sim, drain |-> drain, packets |-> packets]
Packet(c, s, d, v, size, flits) ==
    [cycle |-> c, src |-> s, dst |-> d, vnet |-> v, size |-> size, flits |-> flits]

MCConfigs ==
    {Synthetic(p, None, None, 1, 0, 2, 3) : p \in Patterns} \cup
    {Synthetic("uniform_random", 1, None, 2, None, 2, 3),
     Synthetic("uniform_random", None, 2, 1, 1, 2, 2),
     Synthetic("uniform_random", 3, 0, None, 0, 4, 1),
     Replay(<<Packet(2, 0, 5, 0, 8, 1), Packet(0, 1, 4, 2, 72, 0), Packet(2, 0, 5, 0, 0, 3),
              Packet(1, 6, 2, 1, 8, 1)>>, 0, 3),
     Replay(<<Packet(1, 0, 1, 0, 8, 1), Packet(3, 1, 0, 0, 8, 1)>>, 3, 3),
     Replay(<<Packet(0, 0, 1, 0, 8, 2), Packet(1, 1, 8, 0, 8, 1)>>, 0, 3)}
=============================================================================
