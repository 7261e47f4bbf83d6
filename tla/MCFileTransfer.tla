----------------------------- MODULE MCFileTransfer -----------------------------
EXTENDS FileTransferInv
===============================================================================
