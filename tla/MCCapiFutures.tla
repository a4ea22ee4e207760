----------------------------- MODULE MCCapiFutures -----------------------------
EXTENDS CapiFutures

MCLength == [s \in Streams |-> 2]
===============================================================================
