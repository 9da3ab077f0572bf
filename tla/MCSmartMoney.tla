---------------------------- MODULE MCSmartMoney ----------------------------
EXTENDS SmartMoney

\* Compute units, in thousands: below, within and above the bands at 10, 120 and
\* 180; averages of 100 and 200 fall between the last two.
MCUnits == {5, 100, 200}
=============================================================================
