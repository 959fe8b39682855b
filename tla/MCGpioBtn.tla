----------------------------- MODULE MCGpioBtn -----------------------------
(* Model-checking instances of GpioBtn. *)
EXTENDS GpioBtn

\* The thresholds scaled down: power is pressed and released at one count, as
\* on the DXP2800 GT, reset one sample apart, as everywhere.
Both == <<"F20", "F24">>
ScaledPress == <<3, 2>>
ScaledRelease == <<3, 3>>
=============================================================================
