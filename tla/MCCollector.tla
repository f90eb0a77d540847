---------------------------- MODULE MCCollector ----------------------------
(* Instances of Collector for TLC. *)
EXTENDS Collector

CONSTANTS p1, p2, x1, x2

(* Two Pods of one name, one after the other, and a Secret in each of two  *)
(* namespaces.                                                             *)
Kinds == [o \in Objects |-> IF o \in {p1, p2} THEN "pods" ELSE "secrets"]
Namespaces == [o \in Objects |-> IF o = x2 THEN "other" ELSE "demo"]
Names == [o \in Objects |-> IF o \in {p1, p2} THEN "web" ELSE "db"]

In(kind, namespace) == [kind |-> kind, namespace |-> namespace]

(* The loop of the Pods, and two loops of one kind.                        *)
Pods == {In("pods", AllNamespaces)}
TwoNamespaces == {In("secrets", "demo"), In("secrets", "other")}

MCConfigurations == {Pods, TwoNamespaces}

PodsOnly == {Pods}
=============================================================================
