---------------------------- MODULE MCFileWrites ----------------------------
(* FileWrites for TLC: a batch of two files, and a second batch that uploads *)
(* the first of them again; every write path, alone and mixed.               *)
EXTENDS FileWrites, TLC

CONSTANTS p1, p2, c1, c2, j1, j2, j3, r1

MCPathOf == (j1 :> p1) @@ (j2 :> p2) @@ (j3 :> p1)
MCCallOf == (j1 :> c1) @@ (j2 :> c1) @@ (j3 :> c2)
MCEnds == <<1, 1, 3>>

Load(a, b, c, padded, sync, shared) ==
    [kind |-> (j1 :> a) @@ (j2 :> b) @@ (j3 :> c),
     padded |-> padded, sync |-> sync, shared |-> shared]

(* One executor serves a load: tier A, or tier B. *)
MCLoads ==
    {Load("aligned", "aligned", "vec", TRUE, FALSE, TRUE),
     Load("vec", "vec", "file", TRUE, TRUE, FALSE),
     Load("ringAligned", "ringAligned", "ringVec", TRUE, FALSE, TRUE),
     Load("ringVec", "ringVec", "ringAligned", TRUE, TRUE, FALSE),
     Load("ringBatch", "ringBatch", "ringOne", FALSE, FALSE, FALSE)}
=============================================================================
