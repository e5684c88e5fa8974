---------------------------- MODULE MCTxDownload ----------------------------
(***************************************************************************)
(* P and its child C; S is P with its witness stripped.  H is honest, M    *)
(* sends anything.                                                         *)
(***************************************************************************)
EXTENDS TxDownload, TLC

CONSTANTS P, S, C, H, M, p, pw, c

MCTxs == {P, S, C}
MCHashes == {p, pw, c}
MCTxid == P :> p @@ S :> p @@ C :> c
MCWtxid == P :> pw @@ S :> p @@ C :> c
MCSpends == P :> {} @@ S :> {} @@ C :> {p}
MCPeers == {H, M}
MCRank == [h \in MCHashes |-> M :> 0 @@ H :> 1]
MCHas == H :> {P, C}

=============================================================================
