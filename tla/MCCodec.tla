------------------------------ MODULE MCCodec ------------------------------
(* Two contents, one of them empty, under CIDs of both versions and of a hash *)
(* this program does not support; five kinds of wantlist entries.             *)
EXTENDS Codec

CONSTANTS d1, d2

MCCid0 == [version |-> 0, codec |-> "dag-pb", hash |-> Sha256(d1)]
MCCid1 == [version |-> 1, codec |-> "raw", hash |-> Sha256(d1)]
MCEmpty == [version |-> 1, codec |-> "raw", hash |-> Sha256(NoData)]
MCOther == [version |-> 1, codec |-> "raw", hash |-> [alg |-> "blake3", digest |-> d2]]
MCCids == {MCCid0, MCCid1, MCEmpty, MCOther}
MCData == {d1, d2, NoData}

Entry(cid, cancel, type) == [cid |-> cid, cancel |-> cancel, type |-> type]
MCEntries == {Entry(MCCid0, FALSE, "block"), Entry(MCCid1, FALSE, "block"),
              Entry(MCCid1, TRUE, "block"), Entry(MCCid1, FALSE, "have"),
              Entry([version |-> 7], FALSE, "block")}
=============================================================================
