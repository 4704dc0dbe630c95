------------------------------ MODULE MCPadInput ------------------------------
\* More readings than presses, so that a press may last over several of them,
\* and more presses than two, so that one may come back after a gap.
EXTENDS PadInput
===============================================================================
