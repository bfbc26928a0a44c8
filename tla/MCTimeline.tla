----------------------------- MODULE MCTimeline -----------------------------
\* The poller alone over a chain with reorgs, the journal and its upload over a
\* quiet chain, with and without a reader, and a little of everything.
EXTENDS Timeline

W(height, reorgmax, faultmax, filemax, reads, bucketset) ==
    [height |-> height, reorgs |-> reorgmax, faults |-> faultmax, files |-> filemax,
     reads |-> reads, bucket |-> bucketset]

MCWorlds == {W(4, 2, 1, 0, 0, FALSE), W(2, 1, 1, 0, 0, TRUE),
             W(2, 0, 2, 1, 0, TRUE), W(2, 0, 1, 1, 1, TRUE)}
=============================================================================
