---------------------------- MODULE MCFramedLink ----------------------------
EXTENDS FramedLink
=============================================================================
