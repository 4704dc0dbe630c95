----------------------------- MODULE MCCubeFrames ------------------------------
\* Every slot is used six times, by a GPU that keeps up and by one that misses
\* a blank.
EXTENDS CubeFrames
================================================================================
