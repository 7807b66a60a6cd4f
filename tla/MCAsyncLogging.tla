-------------------------- MODULE MCAsyncLogging --------------------------
EXTENDS AsyncLogging
=============================================================================
