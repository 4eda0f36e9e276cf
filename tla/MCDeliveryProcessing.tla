------------------------- MODULE MCDeliveryProcessing -------------------------
EXTENDS DeliveryProcessing, TLC

Symmetry == Permutations(Workers)

OneSchema == [f \in Files |-> "schema"]

(* The second file asks one more question than the first.                   *)
MoreQuestions == [f \in Files |-> IF f = "f1" THEN {"q1"} ELSE Questions]

(* Two files of a dataset, the same file in two datasets, or twice in one.  *)
TwoFiles == [u \in Uploads |-> [file |-> IF u = 1 THEN "f1" ELSE "f2", dataset |-> "d1"]]
SharedFile == [u \in Uploads |-> [file |-> "f1", dataset |-> IF u = 1 THEN "d1" ELSE "d2"]]
SentTwice == [u \in Uploads |-> [file |-> "f1", dataset |-> "d1"]]
AllTables == {TwoFiles, SharedFile, SentTwice}

(* A fault where two deliveries share a file, longer runs where they share a *)
(* dataset and its rules.                                                    *)
AttemptBound == [table \in AllTables |-> IF table = TwoFiles THEN 5 ELSE 4]
FaultBound == [table \in AllTables |-> IF table = TwoFiles THEN 0 ELSE 1]
=============================================================================
