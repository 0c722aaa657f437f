--------------------------------- MODULE MCWorker ---------------------------------
(* Two connectors of a publisher and a consumer of two tasks each; one queue    *)
(* holds a message for each task, the other is empty.  The configuration has a  *)
(* field of the outer class and one of a section.                               *)
EXTENDS Worker, TLC

CONSTANTS c1, c2, p1, p2, m1, m2, r1, default, file, environment, option

MCConsumers == {c1, c2}
MCPublishers == {p1, p2}
MCMessages == {m1, m2}
MCQueue == [m \in MCMessages |-> c1]
MCSetup == << p1, c1, p2, c2, Routes >>

Amqp == << "amqp" >>
MCHttpBind == [section |-> Top, name |-> << "http", "bind" >>]
Hostname == [section |-> Amqp, name |-> << "hostname" >>]
MCFields == {MCHttpBind, Hostname}
MCDefault == MCHttpBind :> Null @@ Hostname :> default
MCValues == {default, file, environment, option}
MCPrefix == << "vumi" >>

Given(keys, value) == {[k \in given |-> value] : given \in SUBSET keys}
Sectioned(d) == {d, (Amqp :> Null) @@ d} \cup {(Amqp :> a) @@ d : a \in Given({Hostname.name}, file)}
MCFiles == {Null} \cup UNION {Sectioned(d) : d \in Given({MCHttpBind.name}, file)}
MCEnvironments ==
  Given({MCHttpBind.name} \cup {Key(MCPrefix, f) : f \in MCFields}, environment)
\* argparse gives every option a value.
MCOptions == {[k \in {Key(Top, f) : f \in MCFields} |-> IF k \in given THEN option ELSE Null] :
                given \in SUBSET {Key(Top, f) : f \in MCFields}}
===============================================================================
