---------------------- MODULE MCSharedBackendConnPool ----------------------
EXTENDS SharedBackendConnPool

CONSTANTS a1, a2, h1, h2

MCAddrs == {a1, a2}
MCHolders == {h1, h2}
=============================================================================
