---------------------- MODULE MCUdpAssociationManager ----------------------
EXTENDS UdpAssociationManager, TLC

PeerSymmetry == Permutations(Peers)
=============================================================================
