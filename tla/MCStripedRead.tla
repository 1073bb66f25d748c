--------------------------- MODULE MCStripedRead ----------------------------
(* Small instances of StripedRead: two data nodes, stripes of two units.     *)
(* Some configurations exercise PUTs and their faults, the others GETs of    *)
(* objects that are replaced, expire, are collected or are damaged.          *)
EXTENDS StripedRead, TLC

CONSTANTS n1, n2, p1, p2, q1

MCOwner == (0 :> n1) @@ (1 :> n2)
Flags(a, b) == (n1 :> a) @@ (n2 :> b)

(* Bodies: one with chunks across stripe boundaries; one shorter than        *)
(* declared; an undeclared one; a small file.                                *)
Exact == [decl |-> 3, ends |-> <<1, 3>>]
Short == [decl |-> 4, ends |-> <<3>>]
Undeclared == [decl |-> 0, ends |-> <<3>>]
Small == [decl |-> 0, ends |-> <<1>>]
MCStreams == {Exact, Short, Undeclared, Small}

PutLoad(clustered, verify, entry, streams) ==
    [clustered |-> clustered, verify |-> verify, gens |-> 2, putters |-> {p1, p2},
     entry |-> entry, absent |-> BOOLEAN, streams |-> streams, readers |-> {},
     kinds |-> {}, faults |-> {"put"}]
GetLoad(clustered, verify, gens, streams, kinds) ==
    [clustered |-> clustered, verify |-> verify, gens |-> gens, putters |-> {p1},
     entry |-> {n1}, absent |-> {FALSE}, streams |-> streams, readers |-> {q1},
     kinds |-> kinds, faults |-> {"read", "damage"}]

PutConfigs ==
    {PutLoad(TRUE, Flags(TRUE, FALSE), {n1, n2}, {Exact, Undeclared}),
     PutLoad(TRUE, Flags(TRUE, TRUE), {n1}, {Short, Small}),
     PutLoad(FALSE, Flags(FALSE, FALSE), {n1}, {Undeclared, Small})}
GetConfigs ==
    {GetLoad(TRUE, Flags(TRUE, TRUE), 2, {Undeclared}, {"placed", "subset"}),
     GetLoad(TRUE, Flags(FALSE, TRUE), 1, {Exact}, {"placed", "subset"}),
     GetLoad(FALSE, Flags(TRUE, TRUE), 2, {Undeclared}, {"get", "stream", "rdma"}),
     GetLoad(FALSE, Flags(FALSE, FALSE), 1, {Undeclared, Small},
             {"get", "ptr", "stream", "rdma"})}
MCConfigs == PutConfigs \cup GetConfigs
=============================================================================
