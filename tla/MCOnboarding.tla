---------------------------- MODULE MCOnboarding ----------------------------
(* The values TLC gives to the constants of Onboarding.                    *)
EXTENDS Onboarding

CONSTANTS p1, p2

TwoProcs == {p1, p2}
AllPlans == {"key", "wait", "code", "qr"}

Record(t, i, v) == [type |-> t, inst |-> i, value |-> v]
Named(i, addrs, ports) ==
  {Record("ptr", i, 0)} \cup {Record("a", i, n) : n \in addrs} \cup {Record("srv", i, n) : n \in ports}

Plain == Named("target", {1}, {1})
Two == Plain \cup Named("other", {2}, {1})
Roaming == Named("target", {1, 2}, {1})
Moving == Named("target", {1, 2}, {1, 2}) \cup {Record("txt", "target", 1)}
SomeAirs == {{}, Plain, Two, Roaming, Moving}

(* Two processes contend for the key file alone; a discovery of its own    *)
(* sees all kinds of records; a whole onboarding sees few.                 *)
MCInit ==
  /\ Init
  /\ kpc[p1] = "start"
  /\ plan = "key" <=> air = {}
  /\ listens \in {<<1, 1>>, <<2, 1>>}
  /\ plan = "key" => kpc[p2] = "start" /\ listens = <<1, 1>> /\ wanted = {"target"} /\ bounded
  /\ plan # "key" => kpc[p2] = "rest"
  /\ plan = "wait" => air = Moving /\ listens = <<1, 1>> /\ wanted = {"target"}
  /\ plan = "code" => air \in {Plain, Two}
  /\ plan = "qr" => air \in {Plain, Roaming}
  /\ plan \in {"code", "qr"} /\ bounded => air = Plain

MCSpec == MCInit /\ [][Next]_vars /\ OnboardingFairness
=============================================================================
