---------------------- MODULE MCEventLoopThreadPool ----------------------
EXTENDS EventLoopThreadPool
=============================================================================
