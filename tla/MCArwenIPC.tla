----------------------------- MODULE MCArwenIPC -----------------------------
(* Small instances of ArwenIPC.                                            *)
EXTENDS ArwenIPC

CoveredHooks == {BlockchainNewAddressRequest}
AllHooks == {BlockchainNewAddressRequest, BlockchainGetSnapshotRequest}
=============================================================================
