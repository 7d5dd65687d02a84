------------------------------ MODULE MCDelayed -------------------------------
\* A dishwasher that announces a delayed start: DELAY_WAIT and probes begun from
\* it, no anti-crease pulses and no ANTI_WRINKLE.  Readings one or two ticks
\* apart; two are an outage to a sensor of known cadence.
EXTENDS CycleDetector
=============================================================================
