------------------------------ MODULE MCRegistry ------------------------------
(* Batches for model-checking Registry: every batch of one or two rows, with *)
(* duplicates and invalid rows, one that is too big and one of each          *)
(* malformed shape.                                                          *)
EXTENDS Registry

Rows == Pieces \X Hashes \X Stamps
BatchOf(rows) == [cids   |-> [i \in DOMAIN rows |-> rows[i][1]],
                  hashes |-> [i \in DOMAIN rows |-> rows[i][2]],
                  stamps |-> [i \in DOMAIN rows |-> rows[i][3]]]

Good == CHOOSE r \in Rows : r[1] # EmptyCid /\ r[2] # ZeroHash /\ r[3] # 0

(* MaxBatch + 1 different CIDs, valid but for their number. *)
Longer == 1 .. MaxBatch + 1
TooBig ==
  LET cids == CHOOSE f \in [Longer -> Cids] : \A i, j \in Longer : f[i] = f[j] => i = j
  IN  BatchOf([i \in Longer |-> <<cids[i], Good[2], Good[3]>>])

MCBatches ==
  {BatchOf(rows) : rows \in UNION {[1 .. n -> Rows] : n \in 1 .. 2}}
    \cup {TooBig,
          [BatchOf(<<Good, Good>>) EXCEPT !.hashes = <<Good[2]>>],
          [BatchOf(<<Good, Good>>) EXCEPT !.stamps = <<Good[3]>>],
          [BatchOf(<<Good>>) EXCEPT !.cids = <<EmptyCid>>]}
=============================================================================
