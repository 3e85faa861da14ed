--------------------------- MODULE MCIndexerIngest ---------------------------
(* Small instances of IndexerIngest.                                         *)
EXTENDS IndexerIngest, TLC

CONSTANTS w1, w2, o1

\* Ledger 1: a fixable event; ledger 2: a broken and a garbled one, between
\* which a page of two ends that starts before ledger 1; ledger 3: a fine one.
MCEvents == 1..4
MCLedger == <<1, 2, 2, 3>>
MCQuality == <<"fixable", "broken", "garbled", "fine">>
MCIdentity == [e \in MCEvents |-> e]

\* One event, then two in one ledger.
MCSplitEvents == 1..3
MCSplitLedger == <<1, 2, 2>>
MCSplitQuality == <<"fine", "fine", "fine">>
MCSplitIdentity == [e \in MCSplitEvents |-> e]

MCSymmetry == Permutations({w1, w2})
=============================================================================
