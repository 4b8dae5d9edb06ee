---------------------------- MODULE MCLogReaders ----------------------------
(* A small instance of LogReaders for TLC: entries of two sources, of which *)
(* the paging client asks for one.                                          *)
EXTENDS LogReaders, TLC

MCKinds == {[source |-> "app", level |-> "ERROR", words |-> {"disk"}],
            [source |-> "db", level |-> "INFO", words |-> {}]}
MCOrders == {Ascending, Descending}

Symmetry == Permutations(Ids)
=============================================================================
