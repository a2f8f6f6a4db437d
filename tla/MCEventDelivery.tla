---------------------------- MODULE MCEventDelivery ----------------------------
\* EventDelivery with a small set of clients.  Clients are interchangeable, but
\* the run checks liveness, for which symmetry is not sound.
EXTENDS EventDelivery
================================================================================
