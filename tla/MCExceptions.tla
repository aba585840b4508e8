---------------------------- MODULE MCExceptions ----------------------------
\* Ticks at every place where the code has interrupts enabled, or at those where
\* none does harm.
EXTENDS Exceptions

Everywhere == Places
Harmless == Places \ Windows
=============================================================================
