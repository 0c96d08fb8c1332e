---- MODULE MCPlayerLoad ----
EXTENDS PlayerLoad
CONSTANTS t1, t2, k1, k2
====
