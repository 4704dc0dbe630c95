-------------------------------- MODULE MCBuild --------------------------------
\* Any number of edits, makes and cleans; serial, and two recipes at once.
EXTENDS Build
================================================================================
