-------------------------- MODULE MCWriteAheadLog --------------------------
EXTENDS FlushedLog
=============================================================================
