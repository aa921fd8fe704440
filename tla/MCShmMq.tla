------------------------------ MODULE MCShmMq -------------------------------
EXTENDS ShmMq, TLC

\* One message fits, one is empty, one is longer than the ring.
MCLength == <<1, 0, 3>>
=============================================================================
