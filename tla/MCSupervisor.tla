---------------------------- MODULE MCSupervisor ----------------------------
(* Small instances of Supervisor for TLC. *)
EXTENDS Supervisor

Lifetime == 0
Config(s, n, max, w, o, m) ==
  [strategy |-> s, children |-> n, maxRestarts |-> max,
   windowed |-> w # Lifetime, within |-> w, owned |-> o,
   mail |-> m]
TreeConfigs ==
  {Config("OneForOne", 2, 2, Lifetime, TRUE, 0),
   Config("OneForAll", 3, 1, Lifetime, FALSE, 0),
   Config("RestForOne", 3, 1, Lifetime, FALSE, 0),
   Config("OneForAll", 2, 2, Lifetime, FALSE, 1),
   Config("OneForOne", 2, 1, 1, FALSE, 0),
   Config("OneForOne", 1, 2, 1, FALSE, 1),
   Config("OneForOne", 1, 0, Lifetime, FALSE, 1),
   Config("OneForAll", 2, 1, Lifetime, TRUE, 1),
   Config("RestForOne", 2, 1, 1, TRUE, 0)}
RestForOneConfigs == {Config("RestForOne", 3, 2, Lifetime, FALSE, 0)}
OwnedConfigs == {Config("OneForAll", 2, 1, Lifetime, TRUE, 0)}
=============================================================================
