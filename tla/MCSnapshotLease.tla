---------------------------- MODULE MCSnapshotLease ----------------------------
EXTENDS SnapshotLease
===============================================================================
