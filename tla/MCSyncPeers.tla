------------------------------ MODULE MCSyncPeers ------------------------------
(* SyncPeers for TLC: blocks that overlap, touch, or miss each other.        *)
EXTENDS SyncPeers

MCChanges ==
  {<<BlockRange(0, 1), BlockRange(4, 5)>>, <<BlockRange(2, 2)>>, <<BlockRange(1, 3)>>}
=============================================================================
