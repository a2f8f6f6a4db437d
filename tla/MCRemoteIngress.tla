-------------------------- MODULE MCRemoteIngress --------------------------
\* RemoteIngress with three operations and one stream.
EXTENDS RemoteIngress
CONSTANTS o1, o2, o3, s1
================================================================================
