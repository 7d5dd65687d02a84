------------------------------ MODULE MCDryer -------------------------------
\* A dryer: anti-crease pulses and ANTI_WRINKLE, no delayed start.  Readings one
\* or two ticks apart; two are an outage to a sensor of known cadence.
EXTENDS CycleDetector
=============================================================================
