------------------------------ MODULE MCDwarfCFA ------------------------------
EXTENDS DwarfCFA
CONSTANTS x, y
MCRegisters == 0 .. 2
=============================================================================
