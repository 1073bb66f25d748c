---------------------------- MODULE MCRingWorker ----------------------------
(* RingWorker for TLC: two devices, one with a ring smaller than a window,   *)
(* and pairs of calls that follow each other through the same rings.         *)
EXTENDS RingWorker

CONSTANTS d1, d2, c1, c2

MCRequests == 1 .. 4
MCDevOf == <<d1, d1, d1, d2>>
MCChunksOf == <<2, 1, 3, 1>>
MCCallOf == <<c1, c1, c2, c2>>

Load(a, b, n) == [kind |-> (c1 :> a) @@ (c2 :> b), depth |-> (d1 :> n) @@ (d2 :> 4)]
MCLoads ==
    {Load("ptr", "stream", 4), Load("stream", "stream", 4), Load("stream", "batch", 4),
     Load("aligned", "ptr", 4), Load("batch", "one", 4),
     Load("aligned", "stream", 1), Load("ptr", "batch", 1)}
=============================================================================
